----------------------------- MODULE WireProofs -----------------------------
(***************************************************************************)
(* Proofs about Wire, for every set of frames and every way a stream may   *)
(* be cut: the handler stays in step with the client, so the bytes carry   *)
(* the messages of Exchange.                                               *)
(***************************************************************************)
EXTENDS Wire, TLAPS

Item   == [frame : Frames, start : Nat, end : Nat]
Header == [at : Nat, frame : Frames]
Reply  == [to : {"frame", "broken"}, end : Nat, announced : Nat]

(* Where frame k ends.                                                     *)
Bound(k) == IF k = 0 THEN 0 ELSE sent[k].end

(* The frames lie end to end.                                              *)
Chain ==
  /\ \A i \in 1 .. Len(sent) :
       /\ sent[i].frame.proto = proto /\ sent[i].start = Bound(i - 1)
       /\ sent[i].end = sent[i].start + Size(sent[i].frame)
  /\ \A i, j \in 1 .. Len(sent) : i < j => sent[i].end <= sent[j].start

(* What holds of the handler even when it has lost its place.              *)
Hands ==
  /\ pc \in {"header", "body"} => Len(out) = Len(taken)
  /\ pc \in {"body", "handle"} =>
       head \in Header /\ head.frame.proto = proto /\ HeaderOK(head.frame)
  /\ pc = "handle" => /\ Len(taken) # 0 /\ Len(out) + 1 = Len(taken)
                      /\ head = taken[Len(taken)]

(* A message raw.Run takes too early is its last.                          *)
Early(i) == /\ Wraps(taken[i].frame) /\ i = Len(taken)
            /\ pc \in {"handle", "closed"}

Sync == ~ Lost =>
  /\ Len(taken) <= Len(sent)
  /\ \A i \in 1 .. Len(taken) :
       /\ taken[i].at = sent[i].start /\ taken[i].frame = sent[i].frame
       /\ sent[i].end <= arrived \/ Early(i)
  /\ pc = "header" => pos = Bound(Len(taken))
  /\ pc = "body" => /\ Len(taken) < Len(sent)
                    /\ head.at = sent[Len(taken) + 1].start
                    /\ head.frame = sent[Len(taken) + 1].frame
                    /\ pos = head.at + HeaderSize(proto)
  /\ pc = "handle" => head.at < arrived
  /\ pc = "handle" /\ ~ Wraps(head.frame) => pos = Bound(Len(taken))

IInv == TypeOK /\ Chain /\ Hands /\ Sync
-----------------------------------------------------------------------------
(* Sequences.                                                              *)
LEMMA AppendFacts ==
  ASSUME NEW S, NEW s \in Seq(S), NEW e \in S
  PROVE  /\ Append(s, e) \in Seq(S) /\ Len(s) \in Nat
         /\ Len(Append(s, e)) = Len(s) + 1
         /\ \A i \in 1 .. Len(s) : Append(s, e)[i] = s[i]
         /\ Append(s, e)[Len(s) + 1] = e
         /\ Append(s, e) # <<>>
OBVIOUS

LEMMA LenAppend ==
  ASSUME NEW S, NEW s \in Seq(S), NEW e
  PROVE  Len(Append(s, e)) = Len(s) + 1
<1>1. Len(s) \in Nat /\ s \in [1 .. Len(s) -> S \cup {e}]
  OBVIOUS
<1>2. s \in Seq(S \cup {e})
  BY <1>1
<1>3. QED
  BY <1>2, AppendFacts

LEMMA SeqFacts ==
  ASSUME NEW S, NEW s \in Seq(S)
  PROVE  /\ Len(s) \in Nat /\ DOMAIN s = 1 .. Len(s)
         /\ \A i \in 1 .. Len(s) : s[i] \in S
         /\ s = <<>> <=> Len(s) = 0
OBVIOUS

(* Lengths.                                                                *)
LEMMA UInt16IsNat == \A n \in UInt16 : n \in Nat
BY DEF UInt16

LEMMA Bytes ==
  ASSUME NEW n \in Nat
  PROVE  /\ (n + 7) \div ByteBits \in Nat /\ U16(n + 7) \div ByteBits \in Nat
         /\ n + 7 < Word => U16(n + 7) = n + 7
<1>1. n + 7 \in Nat /\ n + 7 >= 0
  OBVIOUS
<1>2. ASSUME NEW m \in Nat
      PROVE  m \div ByteBits \in Nat /\ m % Word \in Nat /\ (m < Word => m % Word = m)
  BY DEF ByteBits, Word
<1>3. QED
  BY <1>1, <1>2 DEF U16

LEMMA Lengths ==
  ASSUME NEW f \in Frames
  PROVE  /\ f.proto \in Framings /\ Payload(f) \in Nat
         /\ Size(f) \in Nat /\ Size(f) > 0
         /\ Size(f) = HeaderSize(f.proto) + Payload(f)
         /\ HeaderLen(f.proto) = HeaderSize(f.proto) /\ HeaderSize(f.proto) \in Nat
         /\ HeaderOK(f) => BodyLen(f) \in Nat
         /\ HeaderOK(f) /\ ~ Wraps(f) => BodyLen(f) = Payload(f)
<1>1. /\ f.proto \in Framings
      /\ f.proto = "modbus" => f.length \in UInt16
      /\ f.proto # "modbus" => f.valid \in BOOLEAN /\ f.area \in Areas /\ f.count \in UInt16
  BY WireAssumption DEF WireAssumption, FrameAssumption
<1>2. HeaderLen(f.proto) = HeaderSize(f.proto) /\ HeaderSize(f.proto) \in {7, 10, 14}
  BY <1>1 DEF HeaderLen, HeaderSize, Framings
<1>3. CASE f.proto = "modbus"
  <2>1. f.length \in Nat
    BY <1>1, <1>3, UInt16IsNat
  <2>2. Payload(f) \in Nat
    BY <1>3, <2>1 DEF Payload
  <2>3. HeaderOK(f) => BodyLen(f) \in Nat /\ BodyLen(f) = Payload(f)
    BY <1>3, <2>1 DEF HeaderOK, BodyLen, Payload
  <2>4. QED
    BY <1>1, <1>2, <2>2, <2>3 DEF Size
<1>4. CASE f.proto # "modbus"
  <2>1. f.count \in Nat
    BY <1>1, <1>4, UInt16IsNat
  <2>2. Payload(f) \in Nat
    BY <1>4, <2>1, Bytes DEF Payload
  <2>3. BodyLen(f) \in Nat
    BY <1>4, <2>1, Bytes DEF BodyLen
  <2>4. HeaderOK(f) => f.valid
    BY <1>1, <1>4 DEF HeaderOK, Framings
  <2>5. ~ Wraps(f) /\ f.area \in BitAreas => U16(f.count + 7) = f.count + 7
    <3>1. ~ (f.count + 7 >= Word) => f.count + 7 < Word
      BY <2>1 DEF Word
    <3>2. QED
      BY <1>4, <2>1, <3>1, Bytes DEF Wraps
  <2>6. f.valid /\ ~ Wraps(f) => BodyLen(f) = Payload(f)
    BY <1>4, <2>5 DEF BodyLen, Payload
  <2>7. QED
    BY <1>1, <1>2, <2>2, <2>3, <2>4, <2>6 DEF Size
<1>5. QED
  BY <1>3, <1>4
-----------------------------------------------------------------------------
(* The shape of a state.                                                   *)
LEMMA Shapes ==
  ASSUME TypeOK
  PROVE  /\ sent \in Seq(Item) /\ Len(sent) \in Nat /\ DOMAIN sent = 1 .. Len(sent)
         /\ \A i \in 1 .. Len(sent) : /\ sent[i].frame \in Frames
                                      /\ sent[i].start \in Nat /\ sent[i].end \in Nat
         /\ Total = Bound(Len(sent)) /\ Total \in Nat
         /\ \A k \in 0 .. Len(sent) : Bound(k) \in Nat
         /\ taken \in Seq(Header) /\ Len(taken) \in Nat /\ DOMAIN taken = 1 .. Len(taken)
         /\ \A i \in 1 .. Len(taken) : taken[i].frame \in Frames /\ taken[i].at \in Nat
         /\ out \in Seq(Reply) /\ Len(out) \in Nat /\ DOMAIN out = 1 .. Len(out)
         /\ OutTotal \in Nat
         /\ arrived \in Nat /\ pos \in Nat /\ pos <= arrived /\ arrived <= Total
<1>1. /\ sent \in Seq(Item) /\ Len(sent) \in Nat /\ DOMAIN sent = 1 .. Len(sent)
      /\ \A i \in 1 .. Len(sent) : sent[i] \in Item
      /\ sent = <<>> <=> Len(sent) = 0
  BY SeqFacts DEF TypeOK, Item
<1>2. \A i \in 1 .. Len(sent) : /\ sent[i].frame \in Frames
                                /\ sent[i].start \in Nat /\ sent[i].end \in Nat
  BY <1>1 DEF Item
<1>3. \A k \in 0 .. Len(sent) : Bound(k) \in Nat
  BY <1>1, <1>2 DEF Bound
<1>4. Total = Bound(Len(sent)) /\ Total \in Nat
  BY <1>1, <1>3 DEF Total, Bound
<1>5. /\ taken \in Seq(Header) /\ Len(taken) \in Nat /\ DOMAIN taken = 1 .. Len(taken)
      /\ \A i \in 1 .. Len(taken) : taken[i].frame \in Frames /\ taken[i].at \in Nat
  <2>1. taken \in Seq(Header)
    BY DEF TypeOK, Header
  <2>2. /\ Len(taken) \in Nat /\ DOMAIN taken = 1 .. Len(taken)
        /\ \A i \in 1 .. Len(taken) : taken[i] \in Header
    BY <2>1, SeqFacts
  <2>3. QED
    BY <2>1, <2>2 DEF Header
<1>6. /\ out \in Seq(Reply) /\ Len(out) \in Nat /\ DOMAIN out = 1 .. Len(out)
      /\ OutTotal \in Nat
  <2>1. out \in Seq(Reply)
    BY DEF TypeOK, Reply
  <2>2. /\ Len(out) \in Nat /\ DOMAIN out = 1 .. Len(out)
        /\ \A i \in 1 .. Len(out) : out[i] \in Reply
        /\ out = <<>> <=> Len(out) = 0
    BY <2>1, SeqFacts
  <2>3. OutTotal \in Nat
    BY <2>2 DEF OutTotal, Reply
  <2>4. QED
    BY <2>1, <2>2, <2>3
<1>7. arrived \in Nat /\ pos \in Nat /\ pos <= arrived /\ arrived <= Total
  <2>1. arrived \in 0 .. Total /\ pos \in 0 .. arrived
    BY DEF TypeOK
  <2>2. QED
    BY <1>4, <2>1
<1>8. QED
  BY <1>1, <1>2, <1>3, <1>4, <1>5, <1>6, <1>7

LEMMA SendStep ==
  ASSUME IInv, NEW f \in Frames, Send(f)
  PROVE  IInv'
<1> DEFINE item == [frame |-> f, start |-> Total, end |-> Total + Size(f)]
<1>1. /\ sent' = Append(sent, item) /\ f.proto = proto
      /\ UNCHANGED <<proto, arrived, shut, pos, pc, head, taken, out, seen>>
  BY DEF Send
<1>2. /\ Len(sent) \in Nat /\ Total \in Nat /\ Total = Bound(Len(sent))
      /\ sent \in Seq(Item) /\ item \in Item
      /\ Size(f) \in Nat /\ arrived \in Nat /\ arrived <= Total
      /\ \A i \in 1 .. Len(sent) : sent[i].end \in Nat
  BY Shapes, Lengths DEF IInv, Item
<1> HIDE DEF item
<1>3. /\ sent' \in Seq(Item) /\ Len(sent') = Len(sent) + 1
      /\ \A i \in 1 .. Len(sent) : sent'[i] = sent[i]
      /\ sent'[Len(sent) + 1] = item /\ sent' # <<>>
  BY <1>1, <1>2, AppendFacts
<1>4. item.frame = f /\ item.start = Total /\ item.end = Total + Size(f)
  BY DEF item
<1>5. Total' = Total + Size(f)
  BY <1>3, <1>4 DEF Total
<1>6. TypeOK'
  <2>1. arrived' \in 0 .. Total'
    BY <1>1, <1>2, <1>5
  <2>2. QED
    BY <1>1, <1>3, <2>1 DEF IInv, TypeOK, Item, OutTotal
<1>7. \A k \in 0 .. Len(sent) : Bound(k)' = Bound(k)
  BY <1>2, <1>3 DEF Bound
<1>8. Chain'
  <2>1. ASSUME NEW i \in 1 .. (Len(sent) + 1)
        PROVE  /\ sent'[i].frame.proto = proto /\ sent'[i].start = Bound(i - 1)'
               /\ sent'[i].end = sent'[i].start + Size(sent'[i].frame)
    <3>1. CASE i = Len(sent) + 1
      <4>1. i - 1 = Len(sent) /\ Bound(i - 1)' = Total
        BY <1>2, <1>7, <3>1
      <4>2. QED
        BY <1>1, <1>3, <1>4, <3>1, <4>1
    <3>2. CASE i \in 1 .. Len(sent)
      <4>1. sent'[i] = sent[i] /\ Bound(i - 1)' = Bound(i - 1)
        BY <1>2, <1>3, <1>7, <3>2
      <4>2. QED
        BY <3>2, <4>1 DEF IInv, Chain
    <3>3. QED
      BY <1>2, <3>1, <3>2
  <2>2. ASSUME NEW i \in 1 .. (Len(sent) + 1), NEW j \in 1 .. (Len(sent) + 1), i < j
        PROVE  sent'[i].end <= sent'[j].start
    <3>1. i \in 1 .. Len(sent) /\ sent'[i] = sent[i]
      BY <1>2, <1>3, <2>2
    <3>2. CASE j = Len(sent) + 1
      <4>1. sent[i].end <= Total
        <5>1. CASE i = Len(sent)
          BY <1>2, <3>1, <5>1 DEF Bound
        <5>2. CASE i < Len(sent)
          <6>1. Len(sent) \in 1 .. Len(sent)
            BY <1>2, <3>1
          <6>2. /\ sent[i].end <= sent[Len(sent)].start
                /\ sent[Len(sent)].end = sent[Len(sent)].start + Size(sent[Len(sent)].frame)
            BY <3>1, <5>2, <6>1 DEF IInv, Chain
          <6>3. /\ sent[Len(sent)].start \in Nat /\ sent[Len(sent)].end \in Nat
                /\ Size(sent[Len(sent)].frame) \in Nat
            BY <6>1, Shapes, Lengths DEF IInv
          <6>4. Total = sent[Len(sent)].end
            BY <1>2, <6>1 DEF Bound
          <6>5. QED
            BY <1>2, <3>1, <6>2, <6>3, <6>4
        <5>3. QED
          BY <1>2, <3>1, <5>1, <5>2
      <4>2. QED
        BY <1>3, <1>4, <3>1, <3>2, <4>1
    <3>3. CASE j \in 1 .. Len(sent)
      BY <1>3, <2>2, <3>1, <3>3 DEF IInv, Chain
    <3>4. QED
      BY <1>2, <3>2, <3>3
  <2>3. QED
    BY <1>1, <1>3, <2>1, <2>2 DEF Chain
<1>9. Hands'
  BY <1>1 DEF IInv, Hands
<1>10. Sync'
  <2> SUFFICES ASSUME ~ Lost' PROVE Sync'
    BY DEF Sync
  <2>1. ~ Lost /\ Len(taken) \in Nat
    BY <1>1, Shapes DEF Lost, IInv
  <2>2. Len(taken) <= Len(sent) /\ Len(taken') <= Len(sent')
    BY <1>1, <1>2, <1>3, <2>1 DEF IInv, Sync
  <2>3. \A i \in 1 .. Len(taken) : sent'[i] = sent[i] /\ (Early(i) <=> Early(i)')
    BY <1>1, <1>2, <1>3, <2>1, <2>2 DEF Early
  <2>4. Bound(Len(taken))' = Bound(Len(taken))
    BY <1>1, <1>7, <2>1, <2>2
  <2>5. pc = "body" => sent'[Len(taken) + 1] = sent[Len(taken) + 1]
    BY <1>2, <1>3, <2>1 DEF IInv, Sync
  <2>6. pc = "body" => Len(taken') < Len(sent')
    BY <1>1, <1>2, <1>3, <2>1 DEF IInv, Sync
  <2>7. QED
    BY <1>1, <2>1, <2>2, <2>3, <2>4, <2>5, <2>6 DEF IInv, Sync
<1>11. QED
  BY <1>6, <1>8, <1>9, <1>10 DEF IInv

LEMMA DeliverStep ==
  ASSUME IInv, Deliver
  PROVE  IInv'
<1>1. /\ arrived' > arrived /\ arrived' <= Total /\ Total' = Total
      /\ UNCHANGED <<proto, sent, shut, pos, pc, head, taken, out, seen>>
  BY DEF Deliver, Total
<1>2. arrived' \in Nat
  <2>1. PICK i \in DOMAIN sent :
          arrived' \in {sent[i].start + k : k \in Pauses} \cup {sent[i].end}
    BY DEF Deliver
  <2>2. sent[i].start \in Nat /\ sent[i].end \in Nat /\ Pauses \subseteq Nat
    BY <2>1, Shapes, WireAssumption DEF IInv, WireAssumption
  <2>3. PICK s \in Nat : s = sent[i].start
    BY <2>2
  <2>4. \A k \in Pauses : s + k \in Nat
    BY <2>2
  <2>5. QED
    BY <2>1, <2>2, <2>3, <2>4
<1>3. /\ arrived \in Nat /\ Total \in Nat /\ pos \in Nat /\ pos <= arrived
      /\ \A i \in 1 .. Len(sent) : sent[i].end \in Nat
      /\ Len(sent) \in Nat /\ Len(taken) \in Nat
  BY Shapes DEF IInv
<1>4. arrived' \in 0 .. Total /\ pos \in 0 .. arrived'
  BY <1>1, <1>2, <1>3
<1>5. TypeOK'
  BY <1>1, <1>4 DEF IInv, TypeOK, OutTotal, Total
<1>6. Chain' /\ Hands'
  BY <1>1 DEF IInv, Chain, Hands, Bound
<1>7. Sync'
  <2> SUFFICES ASSUME ~ Lost PROVE Sync'
    BY <1>1 DEF Sync, Lost
  <2>1. Len(taken) <= Len(sent)
    BY DEF IInv, Sync
  <2>2. ASSUME NEW i \in 1 .. Len(taken), sent[i].end <= arrived
        PROVE  sent[i].end <= arrived'
    BY <1>1, <1>2, <1>3, <2>1, <2>2
  <2>3. pc = "handle" => head.at < arrived'
    <3>1. pc = "handle" => head.at \in Nat /\ head.at < arrived
      BY DEF IInv, Sync, Hands, Header
    <3>2. QED
      BY <1>1, <1>2, <1>3, <3>1
  <2>4. QED
    BY <1>1, <2>2, <2>3 DEF IInv, Sync, Early, Bound
<1>8. QED
  BY <1>5, <1>6, <1>7 DEF IInv

LEMMA ShutStep ==
  ASSUME IInv, Shut
  PROVE  IInv'
<1>1. UNCHANGED <<proto, sent, arrived, pos, pc, head, taken, out, seen>> /\ shut' = TRUE
  BY DEF Shut
<1>2. TypeOK'
  BY <1>1 DEF IInv, TypeOK, OutTotal, Total
<1>3. Chain' /\ Hands' /\ Sync'
  BY <1>1 DEF IInv, Chain, Hands, Sync, Bound, Lost, Early
<1>4. QED
  BY <1>2, <1>3 DEF IInv

(* An answer goes behind the others.                                       *)
LEMMA AnswerFacts ==
  ASSUME IInv, NEW to \in {"frame", "broken"}, NEW bytes \in Nat, NEW announced \in Nat,
         Answer(to, bytes, announced), UNCHANGED <<client, pos, taken, seen>>
  PROVE  /\ out' \in Seq(Reply) /\ Len(out') = Len(out) + 1 /\ Len(out) \in Nat
         /\ \A i \in 1 .. Len(out) : out'[i] = out[i]
         /\ out'[Len(out) + 1].to = to
         /\ OutTotal' = OutTotal + bytes /\ seen' \in 0 .. OutTotal'
<1> DEFINE a == [to |-> to, end |-> OutTotal + bytes, announced |-> announced]
<1>1. out \in Seq(Reply) /\ OutTotal \in Nat /\ a \in Reply
  BY Shapes DEF IInv, Reply
<1>2. out' = Append(out, a)
  BY DEF Answer
<1>3. a.to = to /\ a.end = OutTotal + bytes
  OBVIOUS
<1> HIDE DEF a
<1>4. /\ out' \in Seq(Reply) /\ Len(out') = Len(out) + 1 /\ Len(out) \in Nat
      /\ \A i \in 1 .. Len(out) : out'[i] = out[i]
      /\ out'[Len(out) + 1] = a /\ out' # <<>>
  BY <1>1, <1>2, AppendFacts
<1>5. OutTotal' = OutTotal + bytes
  BY <1>3, <1>4 DEF OutTotal
<1>6. seen \in 0 .. OutTotal /\ seen' = seen
  BY DEF IInv, TypeOK
<1>7. seen' \in 0 .. OutTotal'
  BY <1>1, <1>5, <1>6
<1>8. QED
  BY <1>3, <1>4, <1>5, <1>7

(* The handler stops, with an answer or without.                           *)
LEMMA ClosesStep ==
  ASSUME IInv, Closes, UNCHANGED <<client, pos, taken, seen>>,
         \/ out' = out
         \/ \E to \in {"frame", "broken"} : Status(to)
  PROVE  IInv'
<1>1. /\ pc' = "closed" /\ head' = None
      /\ UNCHANGED <<proto, sent, arrived, shut, pos, taken, seen>>
  BY DEF Closes, client
<1>2. out' \in Seq(Reply) /\ seen' \in 0 .. OutTotal'
  <2>1. CASE out' = out
    BY <1>1, <2>1, Shapes DEF IInv, TypeOK, OutTotal
  <2>2. CASE \E to \in {"frame", "broken"} : Status(to)
    BY <2>2, AnswerFacts DEF Status
  <2>3. QED
    BY <2>1, <2>2
<1>3. TypeOK'
  BY <1>1, <1>2 DEF IInv, TypeOK, Total, Reply
<1>4. Chain' /\ Hands'
  BY <1>1 DEF IInv, Chain, Hands, Bound
<1>5. Sync'
  <2>1. Lost' <=> Lost
    BY <1>1 DEF Lost
  <2>2. \A i : Early(i) => Early(i)'
    BY <1>1 DEF Early
  <2>3. QED
    BY <1>1, <2>1, <2>2 DEF IInv, Sync
<1>6. QED
  BY <1>3, <1>4, <1>5 DEF IInv

LEMMA FailStep ==
  ASSUME IInv, NEW e, Fail(e)
  PROVE  IInv'
BY ClosesStep DEF Fail

LEMMA HeaderSizes ==
  ASSUME TypeOK
  PROVE  /\ HeaderLen(proto) = HeaderSize(proto)
         /\ HeaderSize(proto) \in Nat /\ HeaderSize(proto) > 0
BY DEF TypeOK, HeaderLen, HeaderSize, Framings

(* A frame of the client begins where the next one is taken, and no other. *)
LEMMA NextFrame ==
  ASSUME IInv, ~ Lost, pc = "header", Complete(HeaderLen(proto)), NEW f \in HeadersHere
  PROVE  /\ Len(taken) < Len(sent) /\ Len(taken) + 1 \in 1 .. Len(sent)
         /\ pos = sent[Len(taken) + 1].start /\ f = sent[Len(taken) + 1].frame
<1> DEFINE n == Len(taken) + 1
<1>1. /\ pos = Bound(Len(taken)) /\ Len(taken) <= Len(sent)
      /\ Len(taken) \in Nat /\ Len(sent) \in Nat
  BY Shapes DEF IInv, Sync
<1>2. pos < Total /\ Total = Bound(Len(sent))
  <2>1. /\ pos \in Nat /\ arrived \in Nat /\ Total \in Nat /\ arrived <= Total
        /\ Total = Bound(Len(sent))
    BY Shapes DEF IInv
  <2>2. PICK h \in Nat : h = HeaderLen(proto) /\ h > 0
    BY HeaderSizes DEF IInv
  <2>3. pos + h <= arrived
    BY <2>2 DEF Complete
  <2>4. QED
    BY <2>1, <2>2, <2>3
<1>3. Len(taken) < Len(sent)
  <2>1. Total \in Nat
    BY Shapes DEF IInv
  <2>2. Len(taken) # Len(sent)
    BY <1>1, <1>2, <2>1
  <2>3. QED
    BY <1>1, <2>2
<1>4. n \in 1 .. Len(sent) /\ n - 1 = Len(taken)
  BY <1>1, <1>3
<1> HIDE DEF n
<1>5. sent[n].start = pos
  BY <1>1, <1>4 DEF IInv, Chain
<1>6. ASSUME NEW i \in 1 .. Len(sent), sent[i].start = pos
      PROVE  i = n
  <2>1. PICK s1 \in Nat, e1 \in Nat : /\ s1 = sent[i].start /\ e1 = sent[i].end
                                      /\ e1 > s1
    <3>1. sent[i].start \in Nat /\ sent[i].frame \in Frames
      BY Shapes DEF IInv
    <3>2. PICK z \in Nat : z = Size(sent[i].frame) /\ z > 0
      BY <3>1, Lengths
    <3>3. sent[i].end = sent[i].start + z
      BY <3>2 DEF IInv, Chain
    <3>4. QED
      BY <3>1, <3>2, <3>3
  <2>2. PICK s2 \in Nat, e2 \in Nat : /\ s2 = sent[n].start /\ e2 = sent[n].end
                                      /\ e2 > s2
    <3>1. sent[n].start \in Nat /\ sent[n].frame \in Frames
      BY <1>4, Shapes DEF IInv
    <3>2. PICK z \in Nat : z = Size(sent[n].frame) /\ z > 0
      BY <3>1, Lengths
    <3>3. sent[n].end = sent[n].start + z
      BY <1>4, <3>2 DEF IInv, Chain
    <3>4. QED
      BY <3>1, <3>2, <3>3
  <2>3. (i < n => e1 <= s2) /\ (n < i => e2 <= s1)
    BY <1>4, <2>1, <2>2 DEF IInv, Chain
  <2>4. s1 = s2
    BY <1>5, <1>6, <2>1, <2>2
  <2>5. ~ (i < n) /\ ~ (n < i)
    BY <2>1, <2>2, <2>3, <2>4
  <2>6. QED
    BY <1>4, <2>5
<1>7. f = sent[n].frame
  <2>1. DOMAIN sent = 1 .. Len(sent)
    BY Shapes DEF IInv
  <2>2. n \in {i \in DOMAIN sent : sent[i].start = pos}
    BY <1>4, <1>5, <2>1
  <2>3. f \in {sent[i].frame : i \in {j \in DOMAIN sent : sent[j].start = pos}}
    BY <2>2 DEF HeadersHere
  <2>4. QED
    BY <1>6, <2>1, <2>3
<1>8. QED
  BY <1>3, <1>4, <1>5, <1>7 DEF n

LEMMA HeadersAreFrames ==
  ASSUME IInv, NEW f \in HeadersHere
  PROVE  f \in Frames /\ f.proto = proto
<1>1. DOMAIN sent = 1 .. Len(sent) /\ \A i \in 1 .. Len(sent) : sent[i].frame \in Frames
  BY Shapes DEF IInv
<1>2. \A i \in 1 .. Len(sent) : sent[i].frame.proto = proto
  BY DEF IInv, Chain
<1>3. QED
  BY <1>1, <1>2 DEF HeadersHere

LEMMA ReadHeaderStep ==
  ASSUME IInv, ReadHeader
  PROVE  IInv'
<1>1. PICK f \in HeadersHere :
        \/ /\ HeaderOK(f)
           /\ head' = [at |-> pos, frame |-> f]
           /\ pos' = pos + HeaderLen(proto) /\ pc' = "body"
           /\ UNCHANGED <<client, taken, out, seen>>
        \/ ~ HeaderOK(f) /\ Fail("header")
  BY DEF ReadHeader
<1>2. CASE /\ HeaderOK(f)
           /\ head' = [at |-> pos, frame |-> f]
           /\ pos' = pos + HeaderLen(proto) /\ pc' = "body"
           /\ UNCHANGED <<client, taken, out, seen>>
  <2>1. /\ pc = "header" /\ Complete(HeaderLen(proto))
        /\ UNCHANGED <<proto, sent, arrived, shut, taken, out, seen>>
    BY <1>2 DEF ReadHeader, client
  <2>2. head' \in Header /\ f \in Frames /\ f.proto = proto
        /\ head'.at = pos /\ head'.frame = f
    BY <1>1, <1>2, HeadersAreFrames, Shapes DEF IInv, Header
  <2>3. pos' \in 0 .. arrived
    <3>1. PICK h \in Nat : h = HeaderLen(proto)
      BY HeaderSizes DEF IInv
    <3>2. pos \in Nat /\ arrived \in Nat /\ pos' = pos + h /\ pos + h <= arrived
      BY <1>2, <2>1, <3>1, Shapes DEF IInv, Complete
    <3>3. QED
      BY <3>2
  <2>4. TypeOK'
    BY <1>2, <2>1, <2>2, <2>3 DEF IInv, TypeOK, Header, Total, OutTotal
  <2>5. Chain'
    BY <2>1 DEF IInv, Chain, Bound
  <2>6. Hands'
    BY <1>2, <2>1, <2>2 DEF IInv, Hands
  <2>7. Sync'
    <3> SUFFICES ASSUME ~ Lost PROVE Sync'
      BY <2>1 DEF Sync, Lost
    <3>1. /\ Len(taken) < Len(sent) /\ pos = sent[Len(taken) + 1].start
          /\ f = sent[Len(taken) + 1].frame
      BY <1>1, <2>1, NextFrame
    <3>2. pos' = head'.at + HeaderSize(proto)
      BY <1>2, <2>2, HeaderSizes DEF IInv
    <3>3. \A i \in 1 .. Len(taken) : sent[i].end <= arrived
      BY <2>1 DEF IInv, Sync, Early
    <3>4. QED
      BY <1>2, <2>1, <2>2, <3>1, <3>2, <3>3 DEF IInv, Sync
  <2>8. QED
    BY <2>4, <2>5, <2>6, <2>7 DEF IInv
<1>3. QED
  BY <1>1, <1>2, FailStep

LEMMA ReadBodyStep ==
  ASSUME IInv, ReadBody
  PROVE  IInv'
<1>1. /\ pc = "body" /\ pc' = "handle" /\ Complete(BodyLen(head.frame))
      /\ pos' = pos + BodyLen(head.frame) /\ taken' = Append(taken, head)
      /\ UNCHANGED <<proto, sent, arrived, shut, head, out, seen>>
  BY DEF ReadBody, client
<1>2. /\ head \in Header /\ head.frame \in Frames /\ head.frame.proto = proto
      /\ HeaderOK(head.frame) /\ Len(out) = Len(taken)
  BY <1>1 DEF IInv, Hands, Header
<1>3. /\ taken' \in Seq(Header) /\ Len(taken') = Len(taken) + 1 /\ Len(taken) \in Nat
      /\ \A i \in 1 .. Len(taken) : taken'[i] = taken[i]
      /\ taken'[Len(taken) + 1] = head
  BY <1>1, <1>2, AppendFacts, Shapes DEF IInv
<1>4. PICK b \in Nat : b = BodyLen(head.frame)
  BY <1>2, Lengths
<1>5. pos \in Nat /\ arrived \in Nat /\ pos' = pos + b /\ pos + b <= arrived
  BY <1>1, <1>4, Shapes DEF IInv, Complete
<1>6. pos' \in 0 .. arrived
  BY <1>5
<1>7. TypeOK'
  BY <1>1, <1>2, <1>3, <1>6 DEF IInv, TypeOK, Header, Total, OutTotal
<1>8. Chain'
  BY <1>1 DEF IInv, Chain, Bound
<1>9. Hands'
  <2>1. \A i \in 1 .. Len(taken') : taken'[i] = taken[i] \/ taken'[i] = head
    BY <1>3
  <2>2. Len(taken') # 0 /\ Len(out') + 1 = Len(taken') /\ head' = taken'[Len(taken')]
    BY <1>1, <1>2, <1>3
  <2>3. QED
    BY <1>1, <1>2, <2>2 DEF Hands
<1>10. Sync'
  <2> SUFFICES ASSUME ~ Lost' PROVE Sync'
    BY DEF Sync
  <2>1. ~ Lost
    <3>1. DOMAIN taken = 1 .. Len(taken) /\ DOMAIN taken' = 1 .. (Len(taken) + 1)
      BY <1>3, SeqFacts, Shapes DEF IInv
    <3>2. \A i \in 1 .. Len(taken) : i \in 1 .. (Len(taken) + 1)
      BY <1>3
    <3>3. QED
      BY <1>3, <3>1, <3>2 DEF Lost
  <2>0. PICK n : n = Len(taken) + 1
    OBVIOUS
  <2>2. /\ Len(taken) < Len(sent) /\ Len(sent) \in Nat
        /\ head.at = sent[n].start /\ head.frame = sent[n].frame
        /\ pos = head.at + HeaderSize(proto)
    BY <1>1, <2>0, <2>1, Shapes DEF IInv, Sync
  <2>3. n \in 1 .. Len(sent) /\ n # 0 /\ n - 1 = Len(taken)
    BY <1>3, <2>0, <2>2
  <2>4. ~ Wraps(head.frame) => pos' = sent[n].end
    <3> SUFFICES ASSUME ~ Wraps(head.frame) PROVE pos' = sent[n].end
      OBVIOUS
    <3>1. b = Payload(head.frame)
      BY <1>2, <1>4, Lengths
    <3>2. sent[n].end = sent[n].start + Size(head.frame)
      BY <2>2, <2>3 DEF IInv, Chain
    <3>3. Size(head.frame) = HeaderSize(proto) + b
      BY <1>2, <3>1, Lengths
    <3>4. PICK h \in Nat : h = HeaderSize(proto)
      BY HeaderSizes DEF IInv
    <3>5. PICK s \in Nat : s = sent[n].start
      BY <2>3, Shapes DEF IInv
    <3>6. pos' = s + h + b /\ sent[n].end = s + (h + b)
      BY <1>5, <2>2, <3>2, <3>3, <3>4, <3>5
    <3>7. QED
      BY <3>6
  <2>5. ~ Wraps(head.frame) => sent[n].end <= arrived
    BY <1>5, <2>4
  <2>6. \A i \in 1 .. Len(taken) : /\ sent[i].end <= arrived
                                   /\ taken[i].at = sent[i].start
                                   /\ taken[i].frame = sent[i].frame
    BY <1>1, <2>1 DEF IInv, Sync, Early
  <2>7. Len(taken') = n
    BY <1>3, <2>0
  <2>8. Wraps(head.frame) => Early(n)'
    BY <1>1, <1>3, <2>0, <2>7 DEF Early
  <2>9. ASSUME NEW i \in 1 .. n
        PROVE  /\ taken'[i].at = sent[i].start /\ taken'[i].frame = sent[i].frame
               /\ sent[i].end <= arrived \/ Early(i)'
    <3>1. CASE i = n
      BY <1>3, <2>0, <2>2, <2>5, <2>8, <3>1
    <3>2. CASE i \in 1 .. Len(taken)
      BY <1>3, <2>6, <3>2
    <3>3. QED
      BY <1>3, <2>0, <3>1, <3>2
  <2>10. ~ Wraps(head.frame) => pos' = Bound(n)'
    BY <1>1, <2>3, <2>4 DEF Bound
  <2>11. n <= Len(sent)
    BY <2>2, <2>3
  <2>12. head.at < arrived
    <3>1. PICK a \in Nat : a = head.at
      BY <1>2 DEF Header
    <3>2. PICK h \in Nat : h = HeaderSize(proto) /\ h > 0
      BY HeaderSizes DEF IInv
    <3>3. a + h <= arrived
      <4>1. pos = a + h
        BY <2>2, <3>1, <3>2
      <4>2. pos <= arrived
        BY <1>5
      <4>3. QED
        BY <4>1, <4>2
    <3>4. QED
      BY <1>5, <3>1, <3>2, <3>3
  <2>13. QED
    BY <1>1, <2>7, <2>9, <2>10, <2>11, <2>12 DEF Sync
<1>11. QED
  BY <1>7, <1>8, <1>9, <1>10 DEF IInv

(* The handler answers a message and goes on.                              *)
LEMMA HandledStep ==
  ASSUME IInv, pc = "handle", Handled, ~ Wraps(head.frame) \/ Lost,
         NEW bytes \in Nat, NEW announced \in Nat, Answer("frame", bytes, announced)
  PROVE  IInv'
<1>1. /\ pc' = "header" /\ head' = None
      /\ UNCHANGED <<proto, sent, arrived, shut, pos, taken, seen>>
  BY DEF Handled, client
<1>2. /\ out' \in Seq(Reply) /\ Len(out') = Len(out) + 1 /\ seen' \in 0 .. OutTotal'
  BY AnswerFacts DEF Handled
<1>3. TypeOK'
  BY <1>1, <1>2 DEF IInv, TypeOK, Total, Reply
<1>4. Chain'
  BY <1>1 DEF IInv, Chain, Bound
<1>5. Hands'
  BY <1>1, <1>2 DEF IInv, Hands
<1>6. Sync'
  <2> SUFFICES ASSUME ~ Lost PROVE Sync'
    BY <1>1 DEF Sync, Lost
  <2>1. pos = Bound(Len(taken)) /\ head = taken[Len(taken)] /\ ~ Wraps(head.frame)
    BY DEF IInv, Sync, Hands
  <2>2. \A i \in 1 .. Len(taken) : sent[i].end <= arrived
    BY <2>1 DEF IInv, Sync, Early
  <2>3. QED
    BY <1>1, <2>1, <2>2 DEF IInv, Sync, Bound
<1>7. QED
  BY <1>3, <1>4, <1>5, <1>6 DEF IInv

LEMMA AnswerLengths ==
  ASSUME IInv, AnswerRequest, NEW pdu \in PduLens(head.frame)
  PROVE  7 + pdu \in Nat /\ Announced(pdu) \in Nat
<1>1. head.frame \in Frames /\ head.frame.proto = "modbus"
  BY DEF AnswerRequest, IInv, Hands, Header
<1>2. head.frame.count \in Nat
  BY <1>1, UInt16IsNat, WireAssumption DEF WireAssumption, FrameAssumption
<1>3. BytesForBits(head.frame.count) \in Nat
  BY <1>2, Bytes DEF BytesForBits
<1>4. 2 + BytesForBits(head.frame.count) \in Nat /\ 2 + 2 * head.frame.count \in Nat
  BY <1>2, <1>3
<1>5. pdu \in Nat
  BY <1>4 DEF PduLens
<1>6. \A k \in Nat : k % Word \in Nat
  BY DEF Word
<1>7. U16(pdu + 1) \in Nat
  BY <1>5, <1>6 DEF U16
<1>8. QED
  BY <1>5, <1>7 DEF Announced

LEMMA AnswerRequestStep ==
  ASSUME IInv, AnswerRequest
  PROVE  IInv'
<1>1. head.frame.proto = "modbus"
  BY DEF AnswerRequest, IInv, Hands
<1>2. ~ Wraps(head.frame)
  BY <1>1 DEF Wraps
<1>3. PICK pdu \in PduLens(head.frame) : Answer("frame", 7 + pdu, Announced(pdu))
  BY DEF AnswerRequest
<1>4. QED
  BY <1>2, <1>3, AnswerLengths, HandledStep DEF AnswerRequest

LEMMA AnswerPacketStep ==
  ASSUME IInv, AnswerPacket
  PROVE  IInv'
<1>1. /\ head = taken[Len(taken)] /\ head.frame \in Frames
      /\ head.frame.proto = "rawingest" /\ Len(taken) \in 1 .. Len(taken)
      /\ DOMAIN taken = 1 .. Len(taken)
  <2>1. Len(taken) \in Nat /\ Len(taken) # 0
    BY Shapes DEF AnswerPacket, IInv, Hands
  <2>2. QED
    BY <2>1, Shapes DEF AnswerPacket, IInv, Hands, Header
<1>2. ~ Wraps(head.frame) \/ Lost
  BY <1>1 DEF Ambiguous, Lost
<1>3. QED
  BY <1>2, HandledStep DEF AnswerPacket, Status

LEMMA AnswerFrameStep ==
  ASSUME IInv, AnswerFrame
  PROVE  IInv'
<1>1. CASE ~ Wraps(head.frame) /\ Handled
  BY <1>1, HandledStep DEF AnswerFrame, Status
<1>2. CASE Closes /\ UNCHANGED <<client, pos, taken, seen>>
  BY <1>2, ClosesStep DEF AnswerFrame
<1>3. QED
  BY <1>1, <1>2 DEF AnswerFrame

LEMMA ReceiveStep ==
  ASSUME IInv, Receive
  PROVE  IInv'
<1>1. UNCHANGED <<proto, sent, arrived, shut, pos, pc, head, taken, out>>
  BY DEF Receive, client
<1>2. seen' \in 0 .. OutTotal'
  <2>1. PICK i \in DOMAIN out : seen' = seen + out[i].announced
    BY DEF Receive
  <2>2. out[i].announced \in Nat /\ OutTotal \in Nat
    <3>1. out \in Seq(Reply) /\ DOMAIN out = 1 .. Len(out) /\ OutTotal \in Nat
      BY Shapes DEF IInv
    <3>2. out[i] \in Reply
      BY <2>1, <3>1, SeqFacts
    <3>3. QED
      BY <3>1, <3>2 DEF Reply
  <2>3. seen \in 0 .. OutTotal /\ seen' <= OutTotal /\ OutTotal' = OutTotal
    BY <1>1 DEF IInv, TypeOK, Receive, OutTotal
  <2>4. PICK a \in Nat : a = out[i].announced
    BY <2>2
  <2>5. seen \in Nat /\ seen' = seen + a
    BY <2>1, <2>2, <2>3, <2>4
  <2>6. QED
    BY <2>2, <2>3, <2>5
<1>3. TypeOK'
  BY <1>1, <1>2 DEF IInv, TypeOK, Total
<1>4. Chain' /\ Hands' /\ Sync'
  BY <1>1 DEF IInv, Chain, Hands, Sync, Bound, Lost, Early
<1>5. QED
  BY <1>3, <1>4 DEF IInv

LEMMA StutterStep ==
  ASSUME IInv, UNCHANGED vars
  PROVE  IInv'
<1>1. UNCHANGED <<proto, sent, arrived, shut, pos, pc, head, taken, out, seen>>
  BY DEF vars, client
<1>2. TypeOK'
  BY <1>1 DEF IInv, TypeOK, Total, OutTotal
<1>3. Chain' /\ Hands' /\ Sync'
  BY <1>1 DEF IInv, Chain, Hands, Sync, Bound, Lost, Early
<1>4. QED
  BY <1>2, <1>3 DEF IInv

-----------------------------------------------------------------------------
(* The handler knows its place: between two messages it has read exactly   *)
(* the client's frames, up to the end of the last one it took.             *)
THEOREM Invariance == Spec => []IInv
<1>1. Init => IInv
  <2> SUFFICES ASSUME Init PROVE IInv
    OBVIOUS
  <2>1. TypeOK
    <3>1. \A S : <<>> \in Seq(S)
      OBVIOUS
    <3>2. Total = 0 /\ OutTotal = 0 /\ 0 \in 0 .. 0
      BY DEF Init, Total, OutTotal
    <3>3. QED
      BY <3>1, <3>2 DEF Init, TypeOK
  <2>2. Len(sent) = 0 /\ Len(taken) = 0 /\ Len(out) = 0
    BY DEF Init
  <2>3. Chain /\ Hands
    BY <2>2 DEF Init, Chain, Hands
  <2>4. Sync
    BY <2>2 DEF Init, Sync, Bound
  <2>5. QED
    BY <2>1, <2>3, <2>4 DEF IInv
<1>2. IInv /\ [Next]_vars => IInv'
  <2> SUFFICES ASSUME IInv, [Next]_vars PROVE IInv'
    OBVIOUS
  <2>1. CASE HeaderEnds \/ BodyEnds
    BY <2>1, FailStep DEF HeaderEnds, BodyEnds
  <2>2. CASE Handler
    BY <2>1, <2>2, ReadHeaderStep, ReadBodyStep, AnswerRequestStep, AnswerPacketStep,
       AnswerFrameStep DEF Handler
  <2>3. QED
    BY <2>2, SendStep, DeliverStep, ShutStep, ReceiveStep, StutterStep DEF Next
<1>3. QED
  BY <1>1, <1>2, PTL DEF Spec

(* The state keeps its shape, and nobody reads a byte before it is there   *)
(* (decoder.go:30, parser.go:14, response.go:7).                           *)
THEOREM TypeSafety == Spec => []TypeOK
<1>1. IInv => TypeOK
  BY DEF IInv
<1>2. QED
  BY <1>1, Invariance, PTL

(* A message is taken where the client put one, and when it is whole, for  *)
(* all frames, all framings and all ways the stream may be cut             *)
(* (decoder.go:28-63, parser.go:12-45, raw/conn_reader.go:27-61).          *)
THEOREM StaysInStep == Spec => []InStep
<1>1. IInv => InStep
  <2> SUFFICES ASSUME IInv, ~ Lost, NEW i \in DOMAIN taken
               PROVE  /\ i \in DOMAIN sent
                      /\ taken[i].at = sent[i].start
                      /\ \/ sent[i].end <= arrived
                         \/ /\ Wraps(taken[i].frame) /\ i = Len(taken)
                            /\ pc \in {"handle", "closed"}
    BY DEF InStep
  <2>1. /\ i \in 1 .. Len(taken) /\ DOMAIN sent = 1 .. Len(sent)
        /\ Len(sent) \in Nat /\ Len(taken) \in Nat
    BY Shapes DEF IInv
  <2>2. Len(taken) <= Len(sent)
    BY DEF IInv, Sync
  <2>3. i \in 1 .. Len(sent)
    BY <2>1, <2>2
  <2>4. taken[i].at = sent[i].start /\ (sent[i].end <= arrived \/ Early(i))
    BY <2>1 DEF IInv, Sync
  <2>5. QED
    BY <2>1, <2>3, <2>4 DEF Early
<1>2. QED
  BY <1>1, Invariance, PTL

-----------------------------------------------------------------------------
(* Wire implements Exchange.                                               *)
LEMMA FramesOf ==
  ASSUME NEW S, \A e \in S : e.frame \in Frames, NEW s \in Seq(S)
  PROVE  /\ [i \in 1 .. Len(s) |-> s[i].frame] \in Seq(Frames)
         /\ Len([i \in 1 .. Len(s) |-> s[i].frame]) = Len(s)
         /\ \A j \in 1 .. Len(s) : [i \in 1 .. Len(s) |-> s[i].frame][j] = s[j].frame
<1> DEFINE g == [i \in 1 .. Len(s) |-> s[i].frame]
<1>1. Len(s) \in Nat /\ \A i \in 1 .. Len(s) : s[i] \in S
  BY SeqFacts
<1>2. g \in [1 .. Len(s) -> Frames]
  BY <1>1
<1>3. g \in Seq(Frames)
  BY <1>1, <1>2
<1>4. DOMAIN g = 1 .. Len(s) /\ \A j \in 1 .. Len(s) : g[j] = s[j].frame
  OBVIOUS
<1> HIDE DEF g
<1>5. Len(g) = Len(s)
  BY <1>1, <1>3, <1>4
<1> USE DEF g
<1>6. QED
  BY <1>3, <1>4, <1>5

LEMMA FramesOfAppend ==
  ASSUME NEW S, \A e \in S : e.frame \in Frames, NEW s \in Seq(S), NEW e \in S
  PROVE  [i \in 1 .. Len(Append(s, e)) |-> Append(s, e)[i].frame]
           = Append([i \in 1 .. Len(s) |-> s[i].frame], e.frame)
<1> DEFINE g == [i \in 1 .. Len(s) |-> s[i].frame]
           h == [i \in 1 .. Len(Append(s, e)) |-> Append(s, e)[i].frame]
<1>1. /\ Len(s) \in Nat /\ Len(Append(s, e)) = Len(s) + 1
      /\ \A i \in 1 .. Len(s) : Append(s, e)[i] = s[i]
      /\ Append(s, e)[Len(s) + 1] = e
  BY AppendFacts
<1>2. g \in Seq(Frames) /\ Len(g) = Len(s) /\ \A j \in 1 .. Len(s) : g[j] = s[j].frame
  BY FramesOf
<1>3. /\ DOMAIN h = 1 .. (Len(s) + 1)
      /\ \A i \in 1 .. Len(s) : h[i] = s[i].frame
      /\ h[Len(s) + 1] = e.frame
      /\ h = [i \in DOMAIN h |-> h[i]]
  BY <1>1
<1> HIDE DEF g, h
<1>4. /\ DOMAIN Append(g, e.frame) = 1 .. (Len(s) + 1)
      /\ \A i \in 1 .. Len(s) : Append(g, e.frame)[i] = g[i]
      /\ Append(g, e.frame)[Len(s) + 1] = e.frame
      /\ Append(g, e.frame) = [i \in DOMAIN Append(g, e.frame) |-> Append(g, e.frame)[i]]
  BY <1>2
<1>5. \A i \in 1 .. (Len(s) + 1) : h[i] = Append(g, e.frame)[i]
  BY <1>1, <1>2, <1>3, <1>4
<1>6. h = Append(g, e.frame)
  BY <1>3, <1>4, <1>5
<1>7. QED
  BY <1>6 DEF g, h

LEMMA Mapped ==
  ASSUME IInv
  PROVE  /\ Posted \in Seq(Frames) /\ Len(Posted) = Len(sent)
         /\ \A i \in 1 .. Len(sent) : Posted[i] = sent[i].frame
         /\ Taken \in Seq(Frames) /\ Len(Taken) = Len(taken)
         /\ \A i \in 1 .. Len(taken) : Taken[i] = taken[i].frame
         /\ Abstract!Lost <=> Lost
<1>1. /\ sent \in Seq(Item) /\ \A e \in Item : e.frame \in Frames
      /\ taken \in Seq(Header) /\ \A e \in Header : e.frame \in Frames
      /\ DOMAIN taken = 1 .. Len(taken)
  BY Shapes DEF IInv, Item, Header
<1>2. /\ Posted \in Seq(Frames) /\ Len(Posted) = Len(sent)
      /\ \A i \in 1 .. Len(sent) : Posted[i] = sent[i].frame
  BY <1>1, FramesOf DEF Posted
<1>3. /\ Taken \in Seq(Frames) /\ Len(Taken) = Len(taken)
      /\ \A i \in 1 .. Len(taken) : Taken[i] = taken[i].frame
  BY <1>1, FramesOf DEF Taken
<1>4. Abstract!Lost <=> Lost
  BY <1>1, <1>3 DEF Abstract!Lost, Lost
<1>5. QED
  BY <1>2, <1>3, <1>4

LEMMA SendPosts ==
  ASSUME IInv, NEW f \in Frames, Send(f)
  PROVE  Abstract!Post
<1> DEFINE item == [frame |-> f, start |-> Total, end |-> Total + Size(f)]
<1>1. sent' = Append(sent, item) /\ UNCHANGED <<taken, out, pc>>
  BY DEF Send
<1>2. sent \in Seq(Item) /\ item \in Item /\ item.frame = f
  BY Shapes, Lengths DEF IInv, Item
<1> HIDE DEF item
<1>3. Posted' = Append(Posted, f)
  <2>1. \A e \in Item : e.frame \in Frames
    BY DEF Item
  <2>2. QED
    BY <1>1, <1>2, <2>1, FramesOfAppend DEF Posted
<1>4. Taken' = Taken
  BY <1>1 DEF Taken
<1>5. QED
  BY <1>1, <1>3, <1>4 DEF Abstract!Post

LEMMA ReadBodyTakes ==
  ASSUME IInv, ReadBody
  PROVE  Abstract!Take
<1>1. /\ taken' = Append(taken, head) /\ UNCHANGED <<sent, out>>
      /\ pc = "body" /\ pc' = "handle"
  BY DEF ReadBody, client
<1>2. head \in Header /\ head.frame \in Frames /\ Len(out) = Len(taken)
  BY <1>1 DEF IInv, Hands, Header
<1>3. Taken' = Append(Taken, head.frame) /\ Posted' = Posted
  <2>1. taken \in Seq(Header) /\ \A e \in Header : e.frame \in Frames
    BY Shapes DEF IInv, Header
  <2>2. Taken' = Append(Taken, head.frame)
    BY <1>1, <1>2, <2>1, FramesOfAppend DEF Taken
  <2>3. QED
    BY <1>1, <2>2 DEF Posted
<1>4. Len(Taken) = Len(taken) /\ (Abstract!Lost <=> Lost) /\ Len(Posted) = Len(sent)
  BY Mapped
<1>5. CASE Lost
  BY <1>1, <1>2, <1>3, <1>4, <1>5 DEF Abstract!Take
<1>6. CASE ~ Lost
  <2>1. Len(taken) < Len(sent) /\ head.frame = sent[Len(taken) + 1].frame
    BY <1>1, <1>6 DEF IInv, Sync
  <2>2. Len(taken) + 1 \in 1 .. Len(sent)
    BY <2>1, Shapes DEF IInv
  <2>3. Posted[Len(taken) + 1] = head.frame
    BY <2>1, <2>2, Mapped
  <2>4. QED
    BY <1>1, <1>2, <1>3, <1>4, <2>1, <2>3 DEF Abstract!Take
<1>7. QED
  BY <1>5, <1>6

LEMMA ClosingStops ==
  ASSUME IInv, pc # "closed", Closes, UNCHANGED <<client, taken>>,
         \/ out' = out
         \/ \E to, bytes, announced : Answer(to, bytes, announced)
  PROVE  Abstract!Stop
<1>1. pc' = "closed" /\ UNCHANGED <<sent, taken>>
  BY DEF Closes, client
<1>2. Posted' = Posted /\ Taken' = Taken
  BY <1>1 DEF Posted, Taken
<1>3. Len(out') \in {Len(out), Len(out) + 1}
  <2>1. ASSUME NEW to, NEW bytes, NEW announced, Answer(to, bytes, announced)
        PROVE  Len(out') = Len(out) + 1
    BY <2>1, LenAppend, Shapes DEF Answer, IInv
  <2>2. QED
    BY <2>1
<1>4. QED
  BY <1>1, <1>2, <1>3 DEF Abstract!Stop

LEMMA FailStops ==
  ASSUME IInv, pc # "closed", NEW e, Fail(e)
  PROVE  Abstract!Stop
BY ClosingStops DEF Fail, Status

LEMMA HandledAnswers ==
  ASSUME IInv, pc = "handle", Handled,
         NEW to, NEW bytes, NEW announced, Answer(to, bytes, announced)
  PROVE  Abstract!Answer
<1>1. pc' = "header" /\ UNCHANGED <<sent, taken>> /\ Len(out) + 1 = Len(taken)
  BY DEF Handled, client, IInv, Hands
<1>2. Posted' = Posted /\ Taken' = Taken
  BY <1>1 DEF Posted, Taken
<1>3. Len(out') = Len(out) + 1
  BY LenAppend, Shapes DEF Answer, IInv
<1>4. QED
  BY <1>1, <1>2, <1>3, Mapped DEF Abstract!Answer

(* Whatever the frames and however they arrive, the handlers see messages, *)
(* one by one, as Gateway's do: every step of the byte stream is a step of *)
(* Exchange or none.                                                       *)
THEOREM Refinement == Spec => TakesWhatWasSent
<1>1. Init => Abstract!Init
  BY DEF Init, Abstract!Init, Posted, Taken
<1>2. IInv /\ [Next]_vars => [Abstract!Next]_Abstract!vars
  <2> SUFFICES ASSUME IInv, [Next]_vars
               PROVE  [Abstract!Next]_Abstract!vars
    OBVIOUS
  <2>1. ASSUME NEW f \in Frames, Send(f)
        PROVE  Abstract!Next
    BY <2>1, SendPosts DEF Abstract!Next
  <2>2. CASE UNCHANGED <<sent, taken, out>> /\ (pc = "closed" <=> pc' = "closed")
    BY <2>2 DEF Abstract!vars, Posted, Taken
  <2>3. CASE ReadHeader
    <3>1. PICK f : \/ pc' = "body" /\ UNCHANGED <<client, taken, out>>
                   \/ Fail("header")
      BY <2>3 DEF ReadHeader
    <3>2. pc # "closed"
      BY <2>3 DEF ReadHeader
    <3>3. QED
      BY <2>2, <3>1, <3>2, FailStops DEF Abstract!Next, client
  <2>4. CASE HeaderEnds \/ BodyEnds
    BY <2>4, FailStops DEF HeaderEnds, BodyEnds, Abstract!Next
  <2>5. CASE ReadBody
    BY <2>5, ReadBodyTakes DEF Abstract!Next
  <2>6. CASE AnswerRequest
    BY <2>6, HandledAnswers DEF AnswerRequest, Abstract!Next
  <2>7. CASE AnswerPacket
    BY <2>7, HandledAnswers DEF AnswerPacket, Status, Abstract!Next
  <2>8. CASE AnswerFrame
    <3>1. CASE Handled
      BY <2>8, <3>1, HandledAnswers DEF AnswerFrame, Status, Abstract!Next
    <3>2. CASE Closes /\ UNCHANGED <<client, pos, taken, seen>>
      <4>1. pc # "closed" /\ Answer("frame", 1, 1)
        BY <2>8 DEF AnswerFrame, Status
      <4>2. Abstract!Stop
        BY <3>2, <4>1, ClosingStops
      <4>3. QED
        BY <4>2 DEF Abstract!Next
    <3>3. QED
      BY <2>8, <3>1, <3>2 DEF AnswerFrame
  <2>9. CASE Deliver \/ Shut \/ Receive \/ UNCHANGED vars
    BY <2>2, <2>9 DEF Deliver, Shut, Receive, vars, client
  <2>10. QED
    BY <2>1, <2>3, <2>4, <2>5, <2>6, <2>7, <2>8, <2>9 DEF Next, Handler
<1>3. QED
  BY <1>1, <1>2, Invariance, PTL DEF Spec, TakesWhatWasSent, Abstract!Spec

-----------------------------------------------------------------------------
(* A refusal is the last thing the handler does.                           *)
NoRefusalYet == pc # "closed" => \A i \in DOMAIN out : out[i].to = "frame"

(* Where the handler reads, if bytes have come that it has not read, a     *)
(* frame begins.                                                           *)
LEMMA BegunHere ==
  ASSUME IInv, ~ Lost, pc = "header", pos < arrived
  PROVE  /\ Len(taken) + 1 \in 1 .. Len(sent)
         /\ sent[Len(taken) + 1].start = pos
<1>1. /\ pos = Bound(Len(taken)) /\ Len(taken) <= Len(sent)
      /\ Len(taken) \in Nat /\ Len(sent) \in Nat
      /\ Total = Bound(Len(sent)) /\ arrived <= Total
      /\ pos \in Nat /\ arrived \in Nat /\ Total \in Nat
  BY Shapes DEF IInv, Sync
<1>2. pos < Total
  BY <1>1
<1>3. Len(taken) # Len(sent)
  BY <1>1, <1>2
<1>4. Len(taken) + 1 \in 1 .. Len(sent) /\ (Len(taken) + 1) - 1 = Len(taken)
  BY <1>1, <1>3
<1>5. QED
  BY <1>1, <1>4 DEF IInv, Chain

(* The frame the handler has in hand has begun to arrive.                  *)
LEMMA BegunInHand ==
  ASSUME IInv, ~ Lost, pc = "body" \/ pc = "handle"
  PROVE  LET n == IF pc = "body" THEN Len(taken) + 1 ELSE Len(taken)
         IN  n \in 1 .. Len(sent) /\ sent[n].start = head.at /\ head.at < arrived
<1>1. /\ Len(taken) <= Len(sent) /\ Len(taken) \in Nat /\ Len(sent) \in Nat
      /\ pos \in Nat /\ arrived \in Nat /\ pos <= arrived
      /\ head.at \in Nat
  BY Shapes DEF IInv, Sync, Hands, Header
<1>2. CASE pc = "body"
  <2>1. /\ Len(taken) < Len(sent) /\ head.at = sent[Len(taken) + 1].start
        /\ pos = head.at + HeaderSize(proto)
    BY <1>2 DEF IInv, Sync
  <2>2. PICK a \in Nat, h \in Nat : a = head.at /\ h = HeaderSize(proto) /\ h > 0
    BY <1>1, HeaderSizes DEF IInv
  <2>3. a < arrived
    BY <1>1, <2>1, <2>2
  <2>4. Len(taken) + 1 \in 1 .. Len(sent)
    BY <1>1, <2>1
  <2>5. QED
    BY <1>2, <2>1, <2>2, <2>3, <2>4
<1>3. CASE pc = "handle"
  <2>1. Len(taken) # 0 /\ head = taken[Len(taken)] /\ head.at < arrived
    BY <1>3 DEF IInv, Hands, Sync
  <2>2. Len(taken) \in 1 .. Len(sent) /\ Len(taken) \in 1 .. Len(taken)
    BY <1>1, <2>1
  <2>3. taken[Len(taken)].at = sent[Len(taken)].start
    BY <2>2 DEF IInv, Sync
  <2>4. QED
    BY <1>3, <2>1, <2>2, <2>3
<1>4. QED
  BY <1>2, <1>3

(* Answers to frames that have begun, as the stream goes on.               *)
LEMMA UnaskedKept ==
  ASSUME IInv, NothingUnasked, UNCHANGED <<proto, pc, taken, out>>,
         Len(sent') \in Nat, DOMAIN sent \subseteq DOMAIN sent', shut => shut',
         \A i \in DOMAIN sent : sent'[i] = sent[i],
         arrived' \in Nat, arrived <= arrived'
  PROVE  NothingUnasked'
<1> SUFFICES ASSUME ~ Lost', NEW i \in DOMAIN out
             PROVE  \/ i \in DOMAIN sent' /\ sent'[i].start < arrived'
                    \/ proto' = "raw" /\ shut' /\ i = Len(out') /\ out'[i].to = "broken"
  BY DEF NothingUnasked
<1>1. ~ Lost
  BY DEF Lost
<1>2. ASSUME i \in DOMAIN sent, sent[i].start < arrived
      PROVE  sent[i].start < arrived'
  <2>1. sent[i].start \in Nat /\ arrived \in Nat
    BY <1>2, Shapes DEF IInv
  <2>2. QED
    BY <1>2, <2>1
<1>3. QED
  BY <1>1, <1>2 DEF NothingUnasked

(* One answer more, to the frame the handler is at.                        *)
LEMMA UnaskedAnswer ==
  ASSUME IInv, NothingUnasked, pc # "closed",
         NEW to \in {"frame", "broken"}, NEW bytes \in Nat, NEW announced \in Nat,
         Answer(to, bytes, announced), UNCHANGED <<client, pos, taken, seen>>,
         ~ Lost => \/ /\ Len(out) + 1 \in 1 .. Len(sent)
                      /\ sent[Len(out) + 1].start < arrived
                   \/ proto = "raw" /\ shut /\ to = "broken",
         NoRefusalYet
  PROVE  NothingUnasked'
<1> SUFFICES ASSUME ~ Lost, NEW i \in DOMAIN out'
             PROVE  \/ i \in DOMAIN sent /\ sent[i].start < arrived
                    \/ proto = "raw" /\ shut /\ i = Len(out') /\ out'[i].to = "broken"
  BY DEF NothingUnasked, client, Lost
<1>1. /\ Len(out') = Len(out) + 1 /\ Len(out) \in Nat
      /\ \A k \in 1 .. Len(out) : out'[k] = out[k]
      /\ out'[Len(out) + 1].to = to /\ out' \in Seq(Reply)
  BY AnswerFacts
<1>2. DOMAIN out' = 1 .. (Len(out) + 1) /\ DOMAIN out = 1 .. Len(out)
      /\ DOMAIN sent = 1 .. Len(sent)
  BY <1>1, SeqFacts, Shapes DEF IInv
<1>3. CASE i = Len(out) + 1
  BY <1>1, <1>2, <1>3
<1>4. CASE i \in 1 .. Len(out)
  BY <1>2, <1>4 DEF NothingUnasked, NoRefusalYet
<1>5. QED
  BY <1>1, <1>2, <1>3, <1>4

LEMMA FailUnasked ==
  ASSUME IInv, NothingUnasked, NoRefusalYet, pc \in {"header", "body"},
         NEW e \in {"header", "EOF", "unexpected"}, Fail(e),
         e = "EOF" => shut,
         e # "EOF" => pc = "body" \/ pos < arrived
  PROVE  NothingUnasked' /\ NoRefusalYet'
<1>1. /\ pc' = "closed" /\ pc # "closed"
      /\ UNCHANGED <<client, pos, taken, seen>>
      /\ Len(out) = Len(taken)
  BY DEF Fail, Closes, IInv, Hands
<1>2. CASE out' = out
  BY <1>1, <1>2 DEF NothingUnasked, NoRefusalYet, client, Lost
<1>3. CASE Refuses(e) /\ Status("broken")
  <2>1. e = "EOF" => proto = "raw" /\ shut
    BY <1>3 DEF Refuses
  <2>2. ~ Lost /\ e # "EOF" => /\ Len(out) + 1 \in 1 .. Len(sent)
                               /\ sent[Len(out) + 1].start < arrived
    <3>1. CASE pc = "body"
      BY <1>1, <3>1, BegunInHand
    <3>2. CASE pc = "header"
      BY <1>1, <3>2, BegunHere
    <3>3. QED
      BY <3>1, <3>2
  <2>3. Answer("broken", 1, 1)
    BY <1>3 DEF Status
  <2>4. NothingUnasked'
    BY <1>1, <2>1, <2>2, <2>3, UnaskedAnswer
  <2>5. QED
    BY <1>1, <2>4 DEF NoRefusalYet
<1>4. QED
  BY <1>2, <1>3 DEF Fail

LEMMA HandledUnasked ==
  ASSUME IInv, NothingUnasked, NoRefusalYet, pc = "handle",
         UNCHANGED <<client, pos, taken, seen>>,
         NEW bytes \in Nat, NEW announced \in Nat, Answer("frame", bytes, announced)
  PROVE  NothingUnasked' /\ NoRefusalYet'
<1>1. Len(out) + 1 = Len(taken)
  BY DEF IInv, Hands
<1>2. NothingUnasked'
  BY <1>1, BegunInHand, UnaskedAnswer
<1>3. NoRefusalYet'
  <2>1. /\ Len(out') = Len(out) + 1 /\ Len(out) \in Nat
        /\ \A k \in 1 .. Len(out) : out'[k] = out[k]
        /\ out'[Len(out) + 1].to = "frame" /\ out' \in Seq(Reply)
    BY AnswerFacts
  <2>2. DOMAIN out' = 1 .. (Len(out) + 1) /\ DOMAIN out = 1 .. Len(out)
    BY <2>1, SeqFacts, Shapes DEF IInv
  <2>3. \A k \in 1 .. (Len(out) + 1) : k = Len(out) + 1 \/ k \in 1 .. Len(out)
    BY <2>1
  <2>4. QED
    BY <2>1, <2>2, <2>3 DEF NoRefusalYet
<1>4. QED
  BY <1>2, <1>3

(* No byte is written that the client has not asked for, for all frames    *)
(* (rawingest/handle_conn.go:26-34, ingest_loop.go:125-132).               *)
THEOREM OnlyAnswers == Spec => []NothingUnasked
<1>1. Init => NothingUnasked /\ NoRefusalYet
  BY DEF Init, NothingUnasked, NoRefusalYet
<1>2. /\ IInv /\ IInv' /\ NothingUnasked /\ NoRefusalYet
      /\ [Next]_vars
      => NothingUnasked' /\ NoRefusalYet'
  <2> SUFFICES ASSUME IInv, IInv', NothingUnasked, NoRefusalYet, [Next]_vars
               PROVE  NothingUnasked' /\ NoRefusalYet'
    OBVIOUS
  <2>1. ASSUME NEW f \in Frames, Send(f)
        PROVE  NothingUnasked' /\ NoRefusalYet'
    <3>1. /\ sent' = Append(sent, [frame |-> f, start |-> Total, end |-> Total + Size(f)])
          /\ UNCHANGED <<proto, arrived, shut, pos, pc, head, taken, out, seen>>
      BY <2>1 DEF Send
    <3>2. /\ sent \in Seq(Item) /\ DOMAIN sent = 1 .. Len(sent) /\ Len(sent) \in Nat
          /\ [frame |-> f, start |-> Total, end |-> Total + Size(f)] \in Item
          /\ arrived \in Nat
      BY Shapes, Lengths DEF IInv, Item
    <3>3. /\ sent' \in Seq(Item) /\ Len(sent') = Len(sent) + 1
          /\ \A i \in 1 .. Len(sent) : sent'[i] = sent[i]
      BY <3>1, <3>2, AppendFacts
    <3>4. DOMAIN sent' = 1 .. (Len(sent) + 1) /\ DOMAIN sent \subseteq DOMAIN sent'
      BY <3>2, <3>3, SeqFacts
    <3>5. Len(sent') \in Nat /\ arrived' \in Nat /\ arrived <= arrived'
      BY <3>1, <3>2, <3>3
    <3>6. QED
      BY <3>1, <3>2, <3>3, <3>4, <3>5, UnaskedKept DEF NoRefusalYet
  <2>2. CASE Deliver
    <3>1. arrived \in Nat /\ arrived' \in Nat /\ Len(sent) \in Nat
      BY Shapes, <2>2 DEF IInv, TypeOK, Deliver
    <3>2. arrived <= arrived'
      BY <3>1, <2>2 DEF Deliver
    <3>3. QED
      BY <2>2, <3>1, <3>2, UnaskedKept DEF Deliver, NoRefusalYet
  <2>3. CASE UNCHANGED <<proto, sent, arrived, taken, out>> /\ (shut => shut')
               /\ (pc = "closed" <=> pc' = "closed")
    BY <2>3 DEF NothingUnasked, NoRefusalYet, Lost
  <2>4. CASE ReadHeader
    <3>1. pos < arrived
      <4>1. PICK h \in Nat : h = HeaderLen(proto) /\ h > 0
        BY HeaderSizes DEF IInv
      <4>2. pos \in Nat /\ arrived \in Nat /\ pos + h <= arrived
        BY <2>4, <4>1, Shapes DEF IInv, ReadHeader, Complete
      <4>3. QED
        BY <4>1, <4>2
    <3>2. PICK f : \/ pc' = "body" /\ UNCHANGED <<client, taken, out>>
                   \/ Fail("header")
      BY <2>4 DEF ReadHeader
    <3>3. CASE Fail("header")
      BY <2>4, <3>1, <3>3, FailUnasked DEF ReadHeader
    <3>4. CASE pc' = "body" /\ UNCHANGED <<client, taken, out>>
      BY <2>3, <2>4, <3>4 DEF ReadHeader, client
    <3>5. QED
      BY <3>2, <3>3, <3>4
  <2>5. CASE HeaderEnds
    <3>1. CASE Fail("EOF") /\ shut
      BY <2>5, <3>1, FailUnasked DEF HeaderEnds
    <3>2. CASE Fail("unexpected") /\ arrived > pos
      <4>1. pos < arrived
        BY <3>2, Shapes DEF IInv
      <4>2. QED
        BY <2>5, <3>2, <4>1, FailUnasked DEF HeaderEnds
    <3>3. QED
      BY <2>5, <3>1, <3>2 DEF HeaderEnds, EndOfFile, Unexpected
  <2>6. CASE BodyEnds
    <3>1. CASE Fail("EOF") /\ shut
      BY <2>6, <3>1, FailUnasked DEF BodyEnds
    <3>2. CASE Fail("unexpected")
      BY <2>6, <3>2, FailUnasked DEF BodyEnds
    <3>3. QED
      BY <2>6, <3>1, <3>2 DEF BodyEnds, EndOfFile
  <2>7. CASE ReadBody
    <3>1. UNCHANGED <<proto, sent, arrived, shut, out>> /\ pc # "closed" /\ pc' # "closed"
      BY <2>7 DEF ReadBody, client
    <3>2. ~ Lost' => ~ Lost
      <4>1. /\ taken \in Seq(Header) /\ head \in Header /\ taken' = Append(taken, head)
            /\ DOMAIN taken = 1 .. Len(taken) /\ Len(taken) \in Nat
        BY <2>7, Shapes DEF ReadBody, IInv, Hands
      <4>2. /\ taken' \in Seq(Header) /\ Len(taken') = Len(taken) + 1
            /\ \A i \in 1 .. Len(taken) : taken'[i] = taken[i]
        BY <4>1, AppendFacts
      <4>3. DOMAIN taken' = 1 .. (Len(taken) + 1)
        BY <4>2, SeqFacts
      <4>4. \A i \in 1 .. Len(taken) : i \in 1 .. (Len(taken) + 1)
        BY <4>1
      <4>5. QED
        BY <4>1, <4>2, <4>3, <4>4 DEF Lost
    <3>3. QED
      BY <3>1, <3>2 DEF NothingUnasked, NoRefusalYet
  <2>8. CASE AnswerRequest
    <3>1. PICK pdu \in PduLens(head.frame) : Answer("frame", 7 + pdu, Announced(pdu))
      BY <2>8 DEF AnswerRequest
    <3>2. 7 + pdu \in Nat /\ Announced(pdu) \in Nat
      BY <2>8, <3>1, AnswerLengths
    <3>3. QED
      BY <2>8, <3>1, <3>2, HandledUnasked DEF AnswerRequest, Handled
  <2>9. CASE AnswerPacket
    BY <2>9, HandledUnasked DEF AnswerPacket, Status, Handled
  <2>10. CASE AnswerFrame
    BY <2>10, HandledUnasked DEF AnswerFrame, Status, Handled
  <2>11. CASE Shut \/ Receive \/ UNCHANGED vars
    BY <2>3, <2>11 DEF Shut, Receive, vars, client
  <2>12. QED
    BY <2>1, <2>2, <2>4, <2>5, <2>6, <2>7, <2>8, <2>9, <2>10, <2>11 DEF Next, Handler
<1>3. QED
  BY <1>1, <1>2, Invariance, PTL DEF Spec
-----------------------------------------------------------------------------
(* A raw ingest connection that has closed without a refusal was shut.     *)
Clean == (proto = "rawingest" /\ pc = "closed" /\ ~ Refused) => shut

(* Frames lie end to end: later ones begin where an earlier one has ended. *)
LEMMA LaterFrames ==
  ASSUME IInv, NEW n \in 1 .. Len(sent), NEW i \in 1 .. Len(sent), n < i,
         NEW z \in Nat, z <= Size(sent[n].frame)
  PROVE  sent[n].start + z <= sent[i].start
<1>1. PICK a \in Nat, b \in Nat : a = sent[n].start /\ b = sent[i].start
  BY Shapes DEF IInv
<1>2. PICK s \in Nat : s = Size(sent[n].frame)
  BY Shapes, Lengths DEF IInv
<1>3. a + s <= b
  BY <1>1, <1>2 DEF IInv, Chain
<1>4. z <= s
  BY <1>2
<1>5. QED
  BY <1>1, <1>3, <1>4

(* The end of the stream, before a header or before a body.                *)
LEMMA CleanEnd ==
  ASSUME IInv, pc \in {"header", "body"}, Fail("EOF"), shut,
         arrived = pos \/ (pc = "header" /\ arrived < 2 /\ arrived > pos)
  PROVE  OnePerPacket' /\ Clean'
<1>1. /\ pc' = "closed" /\ UNCHANGED <<proto, sent, arrived, shut, pos, taken, seen>>
      /\ Len(out) = Len(taken) /\ Len(taken) \in Nat /\ Len(sent) \in Nat
      /\ DOMAIN sent = 1 .. Len(sent) /\ arrived \in Nat /\ pos \in Nat
  BY Shapes DEF Fail, Closes, client, IInv, Hands
<1>2. CASE proto # "rawingest"
  BY <1>1, <1>2 DEF OnePerPacket, Clean
<1>3. CASE proto = "rawingest"
  <2>1. out' = out
    BY <1>3 DEF Fail, Refuses
  <2>2. ASSUME ~ Lost, NEW i \in 1 .. Len(sent), sent[i].start < arrived,
               ~ (i <= Len(out)), arrived # 1
        PROVE  arrived = sent[i].start + HeaderSize(proto)
    <3>1. /\ i > Len(taken) /\ Len(taken) + 1 \in 1 .. Len(sent)
          /\ arrived = pos
      BY <1>1, <2>2
    <3>2. PICK n \in 1 .. Len(sent) : n = Len(taken) + 1
      BY <3>1
    <3>3. PICK s \in Nat, b \in Nat : s = sent[n].start /\ b = sent[i].start
      BY Shapes DEF IInv
    <3>4. PICK h \in Nat, z \in Nat : /\ h = HeaderSize(proto)
                                      /\ z = Size(sent[n].frame) /\ h <= z
      <4>1. sent[n].frame \in Frames /\ sent[n].frame.proto = proto
        BY Shapes DEF IInv, Chain
      <4>2. PICK y \in Nat : y = Payload(sent[n].frame)
        BY <4>1, Lengths
      <4>3. PICK h \in Nat : h = HeaderSize(proto)
        BY HeaderSizes DEF IInv
      <4>4. Size(sent[n].frame) = h + y
        BY <4>1, <4>2, <4>3 DEF Size
      <4>5. QED
        BY <4>3, <4>4
    <3>5. i = n \/ n < i
      BY <3>1, <3>2
    <3>6. n < i => s + h <= b
      BY <3>3, <3>4, LaterFrames
    <3>7. CASE pc = "header"
      <4>1. s = pos
        <5>1. n - 1 = Len(taken)
          BY <1>1, <3>2
        <5>2. QED
          BY <2>2, <3>3, <3>7, <5>1 DEF IInv, Sync, Chain
      <4>2. b < arrived /\ b \in Nat /\ arrived \in Nat
        BY <1>1, <2>2, <3>3
      <4>3. i = n => b = s
        BY <3>3
      <4>4. b >= s
        BY <3>3, <3>4, <3>5, <3>6, <4>3
      <4>5. FALSE
        BY <3>1, <3>3, <4>1, <4>2, <4>4
      <4>6. QED
        BY <4>5
    <3>8. CASE pc = "body"
      <4>1. arrived = s + h
        BY <2>2, <3>1, <3>2, <3>3, <3>4, <3>8 DEF IInv, Sync
      <4>2. b < arrived
        BY <2>2, <3>3
      <4>3. i = n
        BY <1>1, <3>3, <3>4, <3>5, <3>6, <4>1, <4>2
      <4>4. QED
        BY <3>3, <3>4, <4>1, <4>3
    <3>9. QED
      BY <3>7, <3>8
  <2>3. QED
    BY <1>1, <2>1, <2>2 DEF OnePerPacket, Clean, Begun, Lost
<1>4. QED
  BY <1>2, <1>3

(* A refusal is an answer of its own.                                      *)
LEMMA RefusedEnd ==
  ASSUME IInv, NEW e \in {"header", "unexpected"}, Fail(e)
  PROVE  OnePerPacket' /\ Clean'
<1>1. proto' = proto /\ UNCHANGED <<client, pos, taken, seen>>
  BY DEF Fail, client
<1>2. CASE proto # "rawingest"
  BY <1>1, <1>2 DEF OnePerPacket, Clean
<1>3. CASE proto = "rawingest"
  <2>1. Answer("broken", 1, 1)
    BY <1>3 DEF Fail, Refuses, Status
  <2>2. Len(out') = Len(out) + 1 /\ out'[Len(out) + 1].to = "broken" /\ out' \in Seq(Reply)
        /\ Len(out) \in Nat
    BY <1>1, <2>1, AnswerFacts
  <2>3. out' # <<>>
    BY <2>2
  <2>4. Refused'
    BY <2>2, <2>3 DEF Refused
  <2>5. QED
    BY <2>4 DEF OnePerPacket, Clean
<1>4. QED
  BY <1>2, <1>3

(* One answer byte per packet, for all frames and however the stream is    *)
(* cut: none is swallowed but where the code says so                       *)
(* (rawingest/handle_conn.go:26-34).                                       *)
THEOREM AnswersEachPacket == Spec => []OnePerPacket
<1>1. Init => OnePerPacket /\ Clean
  BY DEF Init, OnePerPacket, Clean
<1>2. /\ IInv /\ IInv' /\ OnePerPacket /\ Clean
      /\ [Next]_vars
      => OnePerPacket' /\ Clean'
  <2> SUFFICES ASSUME IInv, IInv', OnePerPacket, Clean, [Next]_vars
               PROVE  OnePerPacket' /\ Clean'
    OBVIOUS
  <2>1. CASE pc' # "closed"
    BY <2>1 DEF OnePerPacket, Clean
  <2>2. CASE \E f \in Frames : Send(f)
    BY <2>2 DEF Send, OnePerPacket, Clean, Refused, Lost
  <2>3. CASE Deliver
    BY <2>3 DEF Deliver, OnePerPacket, Clean, Refused, Lost
  <2>4. CASE UNCHANGED <<proto, sent, arrived, pc, taken, out>> /\ (shut => shut')
    BY <2>4 DEF OnePerPacket, Clean, Refused, Lost, Begun
  <2>5. CASE ReadHeader /\ pc' = "closed"
    BY <2>5, RefusedEnd DEF ReadHeader
  <2>6. CASE HeaderEnds
    <3>1. CASE EndOfFile(HeaderLen(proto)) /\ Fail("EOF")
      BY <2>6, <3>1, CleanEnd DEF HeaderEnds, EndOfFile
    <3>2. CASE Unexpected(HeaderLen(proto)) /\ Unclassified /\ Fail("EOF")
      BY <2>6, <3>2, CleanEnd DEF HeaderEnds, Unexpected, Unclassified
    <3>3. CASE Fail("unexpected")
      BY <3>3, RefusedEnd
    <3>4. QED
      BY <2>6, <3>1, <3>2, <3>3 DEF HeaderEnds
  <2>7. CASE BodyEnds
    <3>1. CASE EndOfFile(BodyLen(head.frame)) /\ Fail("EOF")
      BY <2>7, <3>1, CleanEnd DEF BodyEnds, EndOfFile
    <3>2. CASE Fail("unexpected")
      BY <3>2, RefusedEnd
    <3>3. QED
      BY <2>7, <3>1, <3>2 DEF BodyEnds
  <2>8. CASE AnswerFrame /\ pc' = "closed"
    BY <2>8 DEF AnswerFrame, Closes, Handled, client, OnePerPacket, Clean
  <2>9. CASE ReadBody \/ AnswerRequest \/ AnswerPacket
    BY <2>1, <2>9 DEF ReadBody, AnswerRequest, AnswerPacket, Handled
  <2>10. CASE Shut \/ Receive \/ UNCHANGED vars
    BY <2>4, <2>10 DEF Shut, Receive, vars, client
  <2>11. QED
    BY <2>1, <2>2, <2>3, <2>5, <2>6, <2>7, <2>8, <2>9, <2>10 DEF Next, Handler
<1>3. QED
  BY <1>1, <1>2, Invariance, PTL DEF Spec
-----------------------------------------------------------------------------
(* Where answer i begins.                                                  *)
Before(i) == IF i = 1 THEN 0 ELSE out[i - 1].end

LongReads == \E i \in DOMAIN taken : LongRead(taken[i].frame)

(* Every answer announces its own bytes, and the client is between two.    *)
Honest == \/ LongReads
          \/ /\ \A i \in DOMAIN out : out[i].end = Before(i) + out[i].announced
             /\ seen = 0 \/ \E i \in DOMAIN out : seen = out[i].end

(* The length of an answer does not wrap, but for a long read's.           *)
LEMMA Narrow == \A n \in UInt16 : n \in Nat /\ n <= 65535
BY DEF UInt16, Word

LEMMA BytesFit ==
  ASSUME NEW n \in Nat
  PROVE  BytesForBits(n) \in Nat /\ BytesForBits(n) <= 8191
<1>1. PICK k \in Nat : k = U16(n + 7) /\ k < 65536
  BY DEF U16, Word
<1>2. k \div 8 \in Nat /\ k \div 8 <= 8191
  BY <1>1
<1>3. BytesForBits(n) = 0 \/ BytesForBits(n) = k \div 8
  BY <1>1 DEF BytesForBits, ByteBits
<1>4. QED
  BY <1>2, <1>3

LEMMA AnnouncedFits ==
  ASSUME NEW f \in Frames, f.proto = "modbus", ~ LongRead(f), NEW pdu \in PduLens(f)
  PROVE  Announced(pdu) = 7 + pdu
<1>1. f.count \in UInt16
  BY WireAssumption DEF WireAssumption, FrameAssumption
<1>2. PICK c \in Nat : c = f.count /\ c <= 65535
  BY <1>1, Narrow
<1>3. PICK b \in Nat : b = BytesForBits(f.count) /\ b <= 8191
  BY <1>2, BytesFit
<1>4. f.reads \in RegAreas => c <= 32766
  BY <1>2 DEF LongRead
<1>5. pdu \in Nat /\ pdu <= 65534
  <2>1. \/ pdu = 2 \/ pdu = 5 \/ pdu = 2 + b
        \/ pdu = 2 + 2 * c /\ f.reads \in RegAreas
    BY <1>2, <1>3 DEF PduLens
  <2>2. QED
    BY <1>2, <1>3, <1>4, <2>1
<1>6. U16(pdu + 1) = pdu + 1
  BY <1>5 DEF U16, Word
<1>7. QED
  BY <1>5, <1>6 DEF Announced

(* An answer that announces its own bytes.                                 *)
LEMMA HonestAnswer ==
  ASSUME IInv, Honest, NEW to \in {"frame", "broken"}, NEW bytes \in Nat,
         Answer(to, bytes, bytes), UNCHANGED <<taken, seen>>
  PROVE  Honest'
<1>1. CASE LongReads
  BY <1>1 DEF Honest, LongReads
<1>2. CASE ~ LongReads
  <2>0. PICK a : a = [to |-> to, end |-> OutTotal + bytes, announced |-> bytes]
    OBVIOUS
  <2>1. /\ out \in Seq(Reply) /\ Len(out) \in Nat /\ DOMAIN out = 1 .. Len(out)
        /\ OutTotal \in Nat /\ a \in Reply /\ out' = Append(out, a)
        /\ a.end = OutTotal + bytes /\ a.announced = bytes
    BY <2>0, Shapes DEF IInv, Reply, Answer
  <2>2. /\ out' \in Seq(Reply) /\ Len(out') = Len(out) + 1
        /\ \A i \in 1 .. Len(out) : out'[i] = out[i]
        /\ out'[Len(out) + 1] = a
    BY <2>1, AppendFacts
  <2>3. DOMAIN out' = 1 .. (Len(out) + 1) /\ (out = <<>> <=> Len(out) = 0)
    BY <2>1, <2>2, SeqFacts
  <2>4. ASSUME NEW i \in 1 .. Len(out)
        PROVE  out'[i].end = Before(i)' + out'[i].announced
    <3>1. out[i].end = Before(i) + out[i].announced
      BY <1>2, <2>1 DEF Honest
    <3>2. i = 1 \/ i - 1 \in 1 .. Len(out)
      BY <2>1
    <3>3. Before(i)' = Before(i)
      BY <2>2, <3>2 DEF Before
    <3>4. QED
      BY <2>2, <3>1, <3>3
  <2>5. PICK k \in Nat : k = Len(out) + 1
    BY <2>1
  <2>6. out'[k].end = Before(k)' + out'[k].announced
    <3>1. Before(k)' = OutTotal
      <4>1. CASE Len(out) = 0
        BY <2>3, <2>5, <4>1 DEF OutTotal, Before
      <4>2. CASE Len(out) # 0
        <5>1. OutTotal = out[Len(out)].end /\ Len(out) \in 1 .. Len(out)
          BY <2>1, <2>3, <4>2 DEF OutTotal
        <5>2. k # 1 /\ k - 1 = Len(out)
          BY <2>1, <2>5, <4>2
        <5>3. out'[k - 1] = out[Len(out)]
          BY <2>2, <5>1, <5>2
        <5>4. QED
          BY <5>1, <5>2, <5>3 DEF Before
      <4>3. QED
        BY <4>1, <4>2
    <3>2. QED
      BY <2>1, <2>2, <2>5, <3>1
  <2>7. ASSUME NEW i \in DOMAIN out'
        PROVE  out'[i].end = Before(i)' + out'[i].announced
    <3>1. i \in 1 .. Len(out) \/ i = k
      BY <2>1, <2>3, <2>5
    <3>2. QED
      BY <2>4, <2>6, <3>1
  <2>8. seen' = 0 \/ \E i \in DOMAIN out' : seen' = out'[i].end
    <3>1. CASE seen = 0
      BY <3>1
    <3>2. CASE \E i \in DOMAIN out : seen = out[i].end
      <4>1. PICK i \in 1 .. Len(out) : seen = out[i].end
        BY <2>1, <3>2
      <4>2. i \in DOMAIN out' /\ out'[i] = out[i]
        BY <2>1, <2>2, <2>3
      <4>3. QED
        BY <4>1, <4>2
    <3>3. QED
      BY <1>2, <3>1, <3>2 DEF Honest
  <2>9. QED
    BY <2>7, <2>8 DEF Honest
<1>3. QED
  BY <1>1, <1>2

(* No frame, other than a read of more than 32766 registers, gets an       *)
(* answer that announces more or fewer bytes than it has (response.go:9).  *)
THEOREM ClientKeepsStep == Spec => []ClientInStep
<1>1. Init => Honest
  BY DEF Init, Honest
<1>2. IInv /\ IInv' /\ Honest /\ [Next]_vars => Honest'
  <2> SUFFICES ASSUME IInv, IInv', Honest, [Next]_vars PROVE Honest'
    OBVIOUS
  <2>1. CASE UNCHANGED <<taken, out, seen>>
    BY <2>1 DEF Honest, LongReads, Before
  <2>2. ASSUME NEW to \in {"frame", "broken"}, Status(to), UNCHANGED <<taken, seen>>
        PROVE  Honest'
    BY <2>2, HonestAnswer DEF Status
  <2>3. ASSUME NEW e, Fail(e)
        PROVE  Honest'
    BY <2>1, <2>2, <2>3 DEF Fail
  <2>4. CASE ReadHeader
    BY <2>1, <2>3, <2>4 DEF ReadHeader
  <2>5. CASE HeaderEnds \/ BodyEnds
    BY <2>3, <2>5 DEF HeaderEnds, BodyEnds
  <2>6. CASE ReadBody
    <3>1. /\ taken \in Seq(Header) /\ head \in Header /\ taken' = Append(taken, head)
          /\ DOMAIN taken = 1 .. Len(taken) /\ Len(taken) \in Nat
          /\ UNCHANGED <<out, seen>>
      BY <2>6, Shapes DEF ReadBody, IInv, Hands
    <3>2. /\ taken' \in Seq(Header) /\ Len(taken') = Len(taken) + 1
          /\ \A i \in 1 .. Len(taken) : taken'[i] = taken[i]
      BY <3>1, AppendFacts
    <3>3. DOMAIN taken' = 1 .. (Len(taken) + 1)
      BY <3>2, SeqFacts
    <3>4. \A i \in DOMAIN taken : i \in DOMAIN taken' /\ taken'[i] = taken[i]
      BY <3>1, <3>2, <3>3
    <3>5. LongReads => LongReads'
      BY <3>4 DEF LongReads
    <3>6. QED
      BY <3>1, <3>5 DEF Honest, Before
  <2>7. CASE AnswerRequest
    <3>1. PICK pdu \in PduLens(head.frame) : Answer("frame", 7 + pdu, Announced(pdu))
      BY <2>7 DEF AnswerRequest
    <3>2. UNCHANGED <<taken, seen>>
      BY <2>7 DEF AnswerRequest, Handled
    <3>3. CASE LongRead(head.frame)
      <4>1. Len(taken) \in DOMAIN taken /\ head = taken[Len(taken)]
        <5>1. Len(taken) \in Nat /\ Len(taken) # 0 /\ DOMAIN taken = 1 .. Len(taken)
          BY <2>7, Shapes DEF AnswerRequest, IInv, Hands
        <5>2. QED
          BY <2>7, <5>1 DEF AnswerRequest, IInv, Hands
      <4>2. LongReads'
        BY <3>2, <3>3, <4>1 DEF LongReads
      <4>3. QED
        BY <4>2 DEF Honest
    <3>4. CASE ~ LongRead(head.frame)
      <4>0. head.frame \in Frames /\ head.frame.proto = "modbus"
        BY <2>7 DEF AnswerRequest, IInv, Hands, Header
      <4>1. Announced(pdu) = 7 + pdu /\ 7 + pdu \in Nat
        BY <2>7, <3>1, <3>4, <4>0, AnnouncedFits, AnswerLengths
      <4>2. QED
        BY <3>1, <3>2, <4>1, HonestAnswer
    <3>5. QED
      BY <3>3, <3>4
  <2>8. CASE AnswerPacket
    BY <2>2, <2>8 DEF AnswerPacket, Handled
  <2>9. CASE AnswerFrame
    BY <2>2, <2>9 DEF AnswerFrame, Handled
  <2>10. CASE Receive
    <3>1. PICK i \in DOMAIN out : seen = Before(i) /\ seen' = seen + out[i].announced
      BY <2>10 DEF Receive, Before
    <3>2. UNCHANGED <<taken, out>>
      BY <2>10 DEF Receive
    <3>3. QED
      BY <3>1, <3>2 DEF Honest, LongReads, Before
  <2>11. CASE \E f \in Frames : Send(f)
    BY <2>1, <2>11 DEF Send
  <2>12. CASE Deliver \/ Shut \/ UNCHANGED vars
    BY <2>1, <2>12 DEF Deliver, Shut, vars
  <2>13. QED
    BY <2>4, <2>5, <2>6, <2>7, <2>8, <2>9, <2>10, <2>11, <2>12 DEF Next, Handler
<1>3. Honest => ClientInStep
  BY DEF Honest, LongReads, ClientInStep
<1>4. QED
  BY <1>1, <1>2, <1>3, Invariance, PTL DEF Spec
=============================================================================
