---------------------------- MODULE AnswerProofs ----------------------------
(***************************************************************************)
(* Gateway answers in order: what TLAPS proves about the queues between a  *)
(* client and its handler, for any number of connections and any bounds.   *)
(*                                                                         *)
(* At any time the messages a client has had no answer to split into those *)
(* whose answers are given (they are in the socket, or about to be written)*)
(* and those that are wanted (in the handler's hands, or not yet read).    *)
(* AnswersMatch speaks of the answers alone and is not inductive: it says  *)
(* nothing of the message the next answer will be for.                     *)
(***************************************************************************)
EXTENDS GatewayProofs, SequenceTheorems

(* The first answers of g are for the first messages of a, the others are  *)
(* those of w.                                                             *)
Lined(fit, g, w, a) ==
  /\ Len(a) = Len(g) + Len(w)
  /\ \A k \in 1 .. Len(g) : <<g[k], a[k]>> \in fit
  /\ \A j \in 1 .. Len(w) : a[Len(g) + j] = w[j]

LEMMA UpTo == \A n \in Nat : \A k \in 1 .. (n + 1) : k = n + 1 \/ k \in 1 .. n
OBVIOUS

(* One more message is asked.                                              *)
LEMMA LinedAsk ==
  ASSUME NEW R, NEW M, NEW fit, NEW g \in Seq(R), NEW w \in Seq(M),
         NEW a \in Seq(M), NEW m \in M, Lined(fit, g, w, a)
  PROVE  Lined(fit, g, Append(w, m), Append(a, m))
<1>1. Len(g) \in Nat /\ Len(w) \in Nat /\ Len(a) = Len(g) + Len(w)
  BY DEF Lined
<1>2. /\ Len(Append(w, m)) = Len(w) + 1 /\ Append(w, m)[Len(w) + 1] = m
      /\ \A j \in 1 .. Len(w) : Append(w, m)[j] = w[j]
  BY AppendProperties
<1>3. /\ Len(Append(a, m)) = Len(a) + 1 /\ Append(a, m)[Len(a) + 1] = m
      /\ \A k \in 1 .. Len(a) : Append(a, m)[k] = a[k]
  BY AppendProperties
<1>4. ASSUME NEW k \in 1 .. Len(g)
      PROVE  <<g[k], Append(a, m)[k]>> \in fit
  <2>1. k \in 1 .. Len(a)
    BY <1>1
  <2>2. QED
    BY <1>3, <2>1 DEF Lined
<1>5. ASSUME NEW j \in 1 .. (Len(w) + 1)
      PROVE  Append(a, m)[Len(g) + j] = Append(w, m)[j]
  <2>1. CASE j = Len(w) + 1
    <3>1. Len(g) + j = Len(a) + 1
      BY <1>1, <2>1
    <3>2. QED
      BY <1>2, <1>3, <2>1, <3>1
  <2>2. CASE j # Len(w) + 1
    <3>1. j \in 1 .. Len(w)
      BY <1>1, <2>2, UpTo
    <3>2. Len(g) + j \in 1 .. Len(a)
      BY <1>1, <3>1
    <3>3. QED
      BY <1>2, <1>3, <3>1, <3>2 DEF Lined
  <2>3. QED
    BY <2>1, <2>2
<1>6. Len(Append(a, m)) = Len(g) + Len(Append(w, m))
  BY <1>1, <1>2, <1>3
<1>7. QED
  BY <1>2, <1>4, <1>5, <1>6 DEF Lined

(* The message wanted first is given its answer.                           *)
LEMMA LinedAnswer ==
  ASSUME NEW R, NEW M, NEW fit, NEW g \in Seq(R), NEW w \in Seq(M),
         NEW a \in Seq(M), NEW r \in R, Lined(fit, g, w, a), w # <<>>,
         <<r, Head(w)>> \in fit
  PROVE  Lined(fit, Append(g, r), Tail(w), a)
<1>1. /\ Len(g) \in Nat /\ Len(w) \in Nat \ {0} /\ Len(a) = Len(g) + Len(w)
      /\ Head(w) = w[1]
  BY EmptySeq DEF Lined
<1>2. /\ Len(Append(g, r)) = Len(g) + 1 /\ Append(g, r)[Len(g) + 1] = r
      /\ \A k \in 1 .. Len(g) : Append(g, r)[k] = g[k]
  BY AppendProperties
<1>3. /\ Len(Tail(w)) = Len(w) - 1
      /\ \A j \in 1 .. Len(Tail(w)) : Tail(w)[j] = w[j + 1]
  BY HeadTailProperties
<1>4. ASSUME NEW k \in 1 .. (Len(g) + 1)
      PROVE  <<Append(g, r)[k], a[k]>> \in fit
  <2>1. CASE k = Len(g) + 1
    <3>1. 1 \in 1 .. Len(w)
      BY <1>1
    <3>2. a[k] = w[1]
      BY <2>1, <3>1 DEF Lined
    <3>3. QED
      BY <1>1, <1>2, <2>1, <3>2
  <2>2. CASE k # Len(g) + 1
    <3>1. k \in 1 .. Len(g)
      BY <1>1, <2>2, UpTo
    <3>2. QED
      BY <1>2, <3>1 DEF Lined
  <2>3. QED
    BY <2>1, <2>2
<1>5. ASSUME NEW j \in 1 .. Len(Tail(w))
      PROVE  a[(Len(g) + 1) + j] = Tail(w)[j]
  <2>1. j \in 1 .. (Len(w) - 1)
    BY <1>3
  <2>2. j + 1 \in 1 .. Len(w) /\ (Len(g) + 1) + j = Len(g) + (j + 1)
    BY <1>1, <2>1
  <2>3. a[Len(g) + (j + 1)] = w[j + 1]
    BY <2>2 DEF Lined
  <2>4. QED
    BY <1>3, <2>2, <2>3
<1>6. Len(a) = (Len(g) + 1) + Len(Tail(w))
  BY <1>1, <1>3
<1>7. QED
  BY <1>2, <1>4, <1>5, <1>6 DEF Lined

(* The client reads the answer it has waited for longest.                  *)
LEMMA LinedRead ==
  ASSUME NEW R, NEW M, NEW fit, NEW g \in Seq(R), NEW w \in Seq(M),
         NEW a \in Seq(M), Lined(fit, g, w, a), g # <<>>
  PROVE  a # <<>> /\ Lined(fit, Tail(g), w, Tail(a))
<1>1. /\ Len(g) \in Nat \ {0} /\ Len(w) \in Nat /\ Len(a) = Len(g) + Len(w)
  BY EmptySeq DEF Lined
<1>2. a # <<>>
  BY <1>1, EmptySeq
<1>3. /\ Len(Tail(g)) = Len(g) - 1
      /\ \A k \in 1 .. Len(Tail(g)) : Tail(g)[k] = g[k + 1]
  BY <1>1, HeadTailProperties
<1>4. /\ Len(Tail(a)) = Len(a) - 1
      /\ \A k \in 1 .. Len(Tail(a)) : Tail(a)[k] = a[k + 1]
  BY <1>2, HeadTailProperties
<1>5. ASSUME NEW k \in 1 .. Len(Tail(g))
      PROVE  <<Tail(g)[k], Tail(a)[k]>> \in fit
  <2>1. k \in 1 .. (Len(g) - 1)
    BY <1>3
  <2>2. k + 1 \in 1 .. Len(g) /\ k \in 1 .. (Len(a) - 1)
    BY <1>1, <2>1
  <2>3. k \in 1 .. Len(Tail(a))
    BY <1>4, <2>2
  <2>4. QED
    BY <1>3, <1>4, <2>2, <2>3 DEF Lined
<1>6. ASSUME NEW j \in 1 .. Len(w)
      PROVE  Tail(a)[(Len(g) - 1) + j] = w[j]
  <2>1. /\ (Len(g) - 1) + j \in 1 .. (Len(a) - 1)
        /\ ((Len(g) - 1) + j) + 1 = Len(g) + j
    BY <1>1
  <2>2. (Len(g) - 1) + j \in 1 .. Len(Tail(a))
    BY <1>4, <2>1
  <2>3. Tail(a)[(Len(g) - 1) + j] = a[Len(g) + j]
    BY <1>4, <2>1, <2>2
  <2>4. QED
    BY <2>3 DEF Lined
<1>7. Len(Tail(a)) = (Len(g) - 1) + Len(w)
  BY <1>1, <1>4
<1>8. QED
  BY <1>2, <1>3, <1>5, <1>6, <1>7 DEF Lined

(* With no answer given, it does not matter what fits.                     *)
LEMMA LinedNone ==
  ASSUME NEW fit, NEW other, NEW w, NEW a, Lined(fit, <<>>, w, a)
  PROVE  Lined(other, <<>>, w, a)
BY DEF Lined

LEMMA LinedEmpty ==
  ASSUME NEW fit
  PROVE  Lined(fit, <<>>, <<>>, <<>>)
BY DEF Lined
-----------------------------------------------------------------------------
(* Which answers fit which messages on a connection of protocol p to e.    *)
Fits(p, e) == {x \in Response \X Message :
  IF p = "modbus"
  THEN x[1].tx = x[2].tx /\ x[1].unit = x[2].unit
  ELSE x[1].code = "OK" <=>
         /\ x[2].kind = "packet"
         /\ IngestCode([port |-> e.port, unit |-> x[2].unit], x[2]) = "OK"}

Given(c) == IF pc[c] \in Writing THEN Append(out[c], ans[c]) ELSE out[c]

(* The wanted messages: the one in the handler's hands and those it has    *)
(* not read.  A handler that is done leaves them unread.                   *)
Wanted(c, w) ==
  /\ pc[c] \in Handling => w # <<>> /\ Head(w) = req[c] /\ Tail(w) = in[c]
  /\ pc[c] \notin Handling \cup {"closed"} => w = in[c]

InLine(c) == \E w \in Seq(Message) :
  Wanted(c, w) /\ Lined(Fits(proto[c], end[c]), Given(c), w, asked[c])

Queue(c) ==
  /\ pc[c] \in {"seal", "authorize", "dispatch"} => proto[c] = "modbus"
  /\ IF link[c] = "gone" THEN asked[c] = <<>> ELSE InLine(c)

QInv == IInv /\ \A c \in Conns : Queue(c)

LEMMA Sorts ==
  ASSUME IInv, NEW c \in Conns
  PROVE  /\ Given(c) \in Seq(Response) /\ out[c] \in Seq(Response)
         /\ in[c] \in Seq(Message) /\ asked[c] \in Seq(Message)
         /\ req[c] \in Message \cup {None}
         /\ pc[c] \in Writing => ans[c] \in Response
<1>1. /\ out[c] \in Seq(Response) /\ in[c] \in Seq(Message)
      /\ asked[c] \in Seq(Message) /\ req[c] \in Message \cup {None}
      /\ ans[c] \in Response \cup {None} /\ (pc[c] \in Writing <=> ans[c] # None)
  BY DEF IInv, TypeOK, Local
<1>2. QED
  BY <1>1, AppendProperties DEF Given

(* The other connections stay as they are.                                 *)
LEMMA QueueStays ==
  ASSUME NEW c \in Conns, Queue(c), pc'[c] = pc[c], end'[c] = end[c],
         link'[c] = link[c], proto'[c] = proto[c], in'[c] = in[c],
         req'[c] = req[c], ans'[c] = ans[c], out'[c] = out[c],
         asked'[c] = asked[c]
  PROVE  Queue(c)'
<1>1. Given(c)' = Given(c) /\ \A w : Wanted(c, w)' <=> Wanted(c, w)
  BY DEF Given, Wanted
<1>2. InLine(c)' <=> InLine(c)
  BY <1>1 DEF InLine
<1>3. QED
  BY <1>2 DEF Queue

(* A step that leaves the client gone or makes it so.                      *)
LEMMA QueueGone ==
  ASSUME NEW c \in Conns, link'[c] = "gone", asked'[c] = <<>>,
         pc'[c] \in {"seal", "authorize", "dispatch"} => proto'[c] = "modbus"
  PROVE  Queue(c)'
BY DEF Queue

(* A step after which w is wanted.                                         *)
LEMMA QueueWith ==
  ASSUME NEW c \in Conns, NEW w \in Seq(Message),
         pc'[c] \in {"seal", "authorize", "dispatch"} => proto'[c] = "modbus",
         link'[c] # "gone", Wanted(c, w)',
         Lined(Fits(proto'[c], end'[c]), Given(c)', w, asked'[c])
  PROVE  Queue(c)'
BY DEF Queue, InLine
-----------------------------------------------------------------------------
LEMMA SendQueue ==
  ASSUME IInv, NEW c \in Conns, Queue(c), Send(c)
  PROVE  Queue(c)'
<1>1. PICK m \in Message : in'[c] = Append(in[c], m) /\ asked'[c] = Append(asked[c], m)
  BY DEF Send, Messages, Message, IInv, TypeOK
<1>2. /\ link[c] # "gone" /\ link'[c] # "gone" /\ pc[c] # "closed"
      /\ UNCHANGED <<pc, proto, end, req, ans, out>>
  BY DEF Send, IInv, TypeOK
<1>3. PICK w \in Seq(Message) :
        Wanted(c, w) /\ Lined(Fits(proto[c], end[c]), Given(c), w, asked[c])
  BY <1>2 DEF Queue, InLine
<1>4. Append(w, m) \in Seq(Message) /\ Append(w, m) # <<>>
  BY AppendProperties
<1>5. w # <<>> => /\ Head(Append(w, m)) = Head(w)
                  /\ Tail(Append(w, m)) = Append(Tail(w), m)
  BY HeadTailAppend
<1>6. Wanted(c, Append(w, m))'
  BY <1>1, <1>2, <1>3, <1>4, <1>5 DEF Wanted
<1>7. Given(c)' = Given(c)
  BY <1>2 DEF Given
<1>8. Lined(Fits(proto[c], end[c]), Given(c), Append(w, m), Append(asked[c], m))
  BY <1>3, Sorts, LinedAsk
<1>9. QED
  BY <1>1, <1>2, <1>4, <1>6, <1>7, <1>8, QueueWith DEF Queue

LEMMA ReceiveQueue ==
  ASSUME IInv, NEW c \in Conns, Queue(c), Receive(c)
  PROVE  Queue(c)'
<1>1. /\ out[c] # <<>> /\ out'[c] = Tail(out[c]) /\ asked'[c] = Tail(asked[c])
      /\ UNCHANGED <<pc, end, link, proto, in, req, ans>>
  BY DEF Receive, IInv, TypeOK
<1>2. link[c] # "gone"
  BY <1>1 DEF IInv, Local
<1>3. PICK w \in Seq(Message) :
        Wanted(c, w) /\ Lined(Fits(proto[c], end[c]), Given(c), w, asked[c])
  BY <1>2 DEF Queue, InLine
<1>4. Given(c) # <<>> /\ Given(c)' = Tail(Given(c))
  <2>1. CASE pc[c] \in Writing
    <3>1. Given(c) = Append(out[c], ans[c]) /\ Given(c)' = Append(Tail(out[c]), ans[c])
      BY <1>1, <2>1 DEF Given
    <3>2. out[c] \in Seq(Response) /\ ans[c] \in Response
      BY <2>1, Sorts
    <3>3. /\ Append(out[c], ans[c]) # <<>>
          /\ Tail(Append(out[c], ans[c])) = Append(Tail(out[c]), ans[c])
      BY <1>1, <3>2, AppendProperties, HeadTailAppend
    <3>4. QED
      BY <3>1, <3>3
  <2>2. CASE pc[c] \notin Writing
    BY <1>1, <2>2 DEF Given
  <2>3. QED
    BY <2>1, <2>2
<1>5. Lined(Fits(proto[c], end[c]), Tail(Given(c)), w, Tail(asked[c]))
  BY <1>3, <1>4, Sorts, LinedRead
<1>6. Wanted(c, w)'
  BY <1>1, <1>3 DEF Wanted
<1>7. QED
  BY <1>1, <1>2, <1>4, <1>5, <1>6, QueueWith DEF Queue

(* Connecting, leaving, and whatever closes the connection.                *)
LEMMA EdgeQueue ==
  ASSUME IInv, NEW c \in Conns, Queue(c),
         Connect(c) \/ Shut(c) \/ Leave(c) \/ Forget(c)
  PROVE  Queue(c)'
<1>0. Local(c)
  BY DEF IInv
<1>1. CASE Connect(c)
  <2>1. /\ pc'[c] = "classify" /\ link'[c] = "up" /\ in'[c] = <<>>
        /\ out'[c] = <<>> /\ asked'[c] = <<>>
    BY <1>0, <1>1 DEF Connect, Goto, IInv, TypeOK, Local, Queue
  <2>2. Given(c)' = <<>> /\ Wanted(c, <<>>)' /\ <<>> \in Seq(Message)
    BY <2>1, EmptySeq DEF Given, Wanted, Handling, Writing
  <2>3. Lined(Fits(proto'[c], end'[c]), <<>>, <<>>, <<>>)
    BY LinedEmpty
  <2>4. QED
    BY <2>1, <2>2, <2>3, QueueWith
<1>2. CASE Shut(c)
  <2>1. /\ link[c] # "gone" /\ link'[c] # "gone"
        /\ UNCHANGED <<pc, end, proto, in, req, ans, out, asked>>
    BY <1>2 DEF Shut, IInv, TypeOK
  <2>2. PICK w \in Seq(Message) :
          Wanted(c, w) /\ Lined(Fits(proto[c], end[c]), Given(c), w, asked[c])
    BY <2>1 DEF Queue, InLine
  <2>3. Given(c)' = Given(c) /\ Wanted(c, w)'
    BY <2>1, <2>2 DEF Given, Wanted
  <2>4. QED
    BY <2>1, <2>2, <2>3, QueueWith DEF Queue
<1>3. CASE Leave(c)
  <2>1. link'[c] = "gone" /\ asked'[c] = <<>> /\ UNCHANGED <<pc, proto>>
    BY <1>3 DEF Leave, IInv, TypeOK
  <2>2. QED
    BY <2>1, QueueGone DEF Queue
<1>4. CASE Forget(c)
  <2>1. link'[c] = "gone" /\ pc'[c] = "free" /\ asked'[c] = <<>>
    BY <1>4 DEF Forget, Goto, IInv, TypeOK, Queue
  <2>2. QED
    BY <2>1, QueueGone
<1>5. QED
  BY <1>1, <1>2, <1>3, <1>4

LEMMA CloseQueue ==
  ASSUME IInv, NEW c \in Conns, Queue(c), pc[c] \in {"classify", "read"}, Close(c)
  PROVE  Queue(c)'
<1>1. /\ pc'[c] = "closed" /\ UNCHANGED <<end, link, proto, out, asked>>
  BY DEF Close, Goto, IInv, TypeOK
<1>2. CASE link[c] = "gone"
  BY <1>1, <1>2, QueueGone DEF Queue
<1>3. CASE link[c] # "gone"
  <2>1. PICK w \in Seq(Message) :
          Wanted(c, w) /\ Lined(Fits(proto[c], end[c]), Given(c), w, asked[c])
    BY <1>3 DEF Queue, InLine
  <2>2. Given(c)' = Given(c) /\ Wanted(c, w)'
    BY <1>1 DEF Given, Wanted, Handling, Writing
  <2>3. QED
    BY <1>1, <1>3, <2>1, <2>2, QueueWith
<1>4. QED
  BY <1>2, <1>3

(* Before the classifier has decided nothing has been answered.            *)
LEMMA ClassifyQueue ==
  ASSUME IInv, NEW c \in Conns, Queue(c), Classify(c)
  PROVE  Queue(c)'
<1>1. /\ pc[c] = "classify" /\ pc'[c] = "read" /\ out[c] = <<>>
      /\ UNCHANGED <<end, link, in, req, ans, out, asked>>
  BY DEF Classify, Goto, IInv, TypeOK, Local
<1>2. CASE link[c] = "gone"
  BY <1>1, <1>2, QueueGone DEF Queue
<1>3. CASE link[c] # "gone"
  <2>1. PICK w \in Seq(Message) :
          Wanted(c, w) /\ Lined(Fits(proto[c], end[c]), Given(c), w, asked[c])
    BY <1>3 DEF Queue, InLine
  <2>2. Given(c) = <<>> /\ Given(c)' = <<>> /\ Wanted(c, w)'
    BY <1>1, <2>1 DEF Given, Wanted, Handling, Writing
  <2>3. Lined(Fits(proto'[c], end'[c]), <<>>, w, asked[c])
    BY <2>1, <2>2, LinedNone
  <2>4. QED
    BY <1>1, <1>3, <2>2, <2>3, QueueWith
<1>4. QED
  BY <1>2, <1>3

(* The handler takes a message into its hands.                             *)
LEMMA TakeQueue ==
  ASSUME IInv, NEW c \in Conns, Queue(c), ReadRequest(c) \/ DecodeOne(c)
  PROVE  Queue(c)'
<1>1. /\ pc[c] = "read" /\ pc'[c] \in {"seal", "apply"}
      /\ pc'[c] = "seal" => proto[c] = "modbus"
      /\ in[c] # <<>> /\ req'[c] = Head(in[c]) /\ in'[c] = Tail(in[c])
      /\ UNCHANGED <<end, link, proto, out, asked>>
  BY DEF ReadRequest, DecodeOne, Reading, Take, Goto, IInv, TypeOK
<1>2. CASE link[c] = "gone"
  BY <1>1, <1>2, QueueGone DEF Queue
<1>3. CASE link[c] # "gone"
  <2>1. PICK w \in Seq(Message) :
          Wanted(c, w) /\ Lined(Fits(proto[c], end[c]), Given(c), w, asked[c])
    BY <1>3 DEF Queue, InLine
  <2>2. w = in[c]
    BY <1>1, <2>1 DEF Wanted, Handling
  <2>3. Wanted(c, w)'
    BY <1>1, <2>2 DEF Wanted, Handling
  <2>4. Given(c)' = Given(c)
    BY <1>1 DEF Given, Writing
  <2>5. QED
    BY <1>1, <1>3, <2>1, <2>3, <2>4, QueueWith
<1>4. QED
  BY <1>2, <1>3

(* The message wanted first is answered, and the answer fits.              *)
LEMMA AnswerQueue ==
  ASSUME IInv, NEW c \in Conns, Queue(c), NEW m \in Message, NEW r \in Response,
         \A w : Wanted(c, w) => w # <<>> /\ Head(w) = m /\ Tail(w) = in'[c],
         pc[c] \notin Writing, pc'[c] \in Writing, ans'[c] = r,
         <<r, m>> \in Fits(proto[c], end[c]),
         UNCHANGED <<end, link, proto, out, asked>>
  PROVE  Queue(c)'
<1>1. pc'[c] \notin Handling \cup {"closed"}
  BY DEF Handling, Writing
<1>2. CASE link[c] = "gone"
  BY <1>1, <1>2, QueueGone DEF Queue, Handling
<1>3. CASE link[c] # "gone"
  <2>1. PICK w \in Seq(Message) :
          Wanted(c, w) /\ Lined(Fits(proto[c], end[c]), Given(c), w, asked[c])
    BY <1>3 DEF Queue, InLine
  <2>2. w # <<>> /\ Head(w) = m /\ Tail(w) = in'[c] /\ Tail(w) \in Seq(Message)
    BY <2>1, HeadTailProperties
  <2>3. Wanted(c, Tail(w))'
    BY <1>1, <2>2 DEF Wanted
  <2>4. Given(c)' = Append(Given(c), r)
    BY DEF Given
  <2>5. Lined(Fits(proto[c], end[c]), Append(Given(c), r), Tail(w), asked[c])
    BY <2>1, <2>2, Sorts, LinedAnswer
  <2>6. QED
    BY <1>1, <1>3, <2>2, <2>3, <2>4, <2>5, QueueWith DEF Handling
<1>4. QED
  BY <1>2, <1>3

(* A Modbus answer has the ids of its request, and goes out with it.       *)
LEMMA ModbusFits ==
  ASSUME NEW m \in Adus, NEW code \in Code, NEW e
  PROVE  Answer(m, code) \in Response /\ <<Answer(m, code), m>> \in Fits("modbus", e)
<1>1. m.kind = "adu" /\ m \in Message
  BY MessageAssumption DEF Message
<1>2. Answer(m, code) = [tx |-> m.tx, unit |-> m.unit, code |-> code]
  BY <1>1 DEF Answer
<1>3. Answer(m, code) \in Response
  BY AnswerType
<1>4. QED
  BY <1>1, <1>2, <1>3 DEF Fits

LEMMA ReplyQueue ==
  ASSUME IInv, NEW c \in Conns, Queue(c),
         pc[c] \in {"seal", "authorize", "dispatch"}, NEW code \in Code,
         NEW p \in Writing, Reply(c, code, p),
         UNCHANGED <<end, link, proto, in, out, asked>>
  PROVE  Queue(c)'
<1>1. proto[c] = "modbus" /\ req[c] \in Adus /\ req[c] \in Message
  BY DEF Queue, IInv, Local, Message
<1>2. ans'[c] = Answer(req[c], code) /\ pc'[c] \in Writing
  BY DEF Reply, Goto, IInv, TypeOK
<1>3. \A w : Wanted(c, w) => w # <<>> /\ Head(w) = req[c] /\ Tail(w) = in'[c]
  BY DEF Wanted, Handling
<1>4. /\ Answer(req[c], code) \in Response
      /\ <<Answer(req[c], code), req[c]>> \in Fits(proto[c], end[c])
  BY <1>1, ModbusFits
<1>5. pc[c] \notin Writing
  BY DEF Writing
<1>6. QED
  BY <1>1, <1>2, <1>3, <1>4, <1>5, AnswerQueue

(* The handler keeps the request and goes on.                              *)
LEMMA GoOnQueue ==
  ASSUME IInv, NEW c \in Conns, Queue(c),
         pc[c] \in {"seal", "authorize"}, NEW p \in {"authorize", "dispatch"},
         Goto(c, p), UNCHANGED <<end, link, proto, in, req, ans, out, asked>>
  PROVE  Queue(c)'
<1>1. pc'[c] \in {"authorize", "dispatch"}
  BY DEF Goto, IInv, TypeOK
<1>2. Given(c)' = Given(c) /\ \A w : Wanted(c, w)' <=> Wanted(c, w)
  BY <1>1 DEF Given, Wanted, Handling, Writing
<1>3. InLine(c)' <=> InLine(c)
  BY <1>2 DEF InLine
<1>4. QED
  BY <1>1, <1>3 DEF Queue

LEMMA ModbusQueue ==
  ASSUME IInv, NEW c \in Conns, Queue(c),
         SealCheck(c) \/ Authorize(c) \/ Dispatch(c)
  PROVE  Queue(c)'
<1>1. CASE SealCheck(c)
  BY <1>1, ReplyQueue, GoOnQueue DEF SealCheck, Code, Writing
<1>2. CASE Authorize(c)
  BY <1>2, ReplyQueue, GoOnQueue DEF Authorize, Code, Writing
<1>3. CASE Dispatch(c)
  <2>1. DispatchCode(Target(c, req[c]), req[c]) \in Code
    BY DEF DispatchCode, Code
  <2>2. QED
    BY <1>3, <2>1, ReplyQueue DEF Dispatch, Writing
<1>4. QED
  BY <1>1, <1>2, <1>3
-----------------------------------------------------------------------------
(* An ingest is answered with its outcome.                                 *)
LEMMA ApplyQueue ==
  ASSUME IInv, NEW c \in Conns, Queue(c), Apply(c)
  PROVE  Queue(c)'
<1> DEFINE code == IngestCode(Target(c, req[c]), req[c])
<1>1. /\ pc[c] = "apply" /\ proto[c] = "raw" /\ req[c] \in Packets
      /\ req[c] \in Message /\ req[c].kind = "packet"
  BY MessageAssumption DEF Apply, IInv, Local, Message
<1>2. /\ ans'[c] = Answer(req[c], code) /\ pc'[c] = "answer"
      /\ UNCHANGED <<end, link, proto, in, out, asked>>
  BY DEF Apply, Reply, Goto, IInv, TypeOK
<1>3. Answer(req[c], code) = [code |-> code]
  BY <1>1 DEF Answer
<1>4. code \in Code
  BY DEF IngestCode, Code
<1>5. [code |-> code] \in Response
  BY <1>4 DEF Response
<1>6. <<[code |-> code], req[c]>> \in Fits(proto[c], end[c])
  BY <1>1, <1>5 DEF Fits, Target
<1>7. \A w : Wanted(c, w) => w # <<>> /\ Head(w) = req[c] /\ Tail(w) = in'[c]
  BY <1>1, <1>2 DEF Wanted, Handling
<1>8. pc[c] \notin Writing /\ pc'[c] \in Writing
  BY <1>1, <1>2 DEF Writing
<1>9. ans'[c] = [code |-> code]
  BY <1>2, <1>3
<1> HIDE DEF code
<1>10. QED
  BY <1>1, <1>2, <1>5, <1>6, <1>7, <1>8, <1>9, AnswerQueue

(* The last REJECTED is for what did not decode.                           *)
LEMMA FarewellQueue ==
  ASSUME IInv, NEW c \in Conns, Queue(c), DecodeOneFails(c)
  PROVE  Queue(c)'
<1>1. CASE Close(c)
  BY <1>1, CloseQueue DEF DecodeOneFails, Reading
<1>2. CASE ~ Close(c)
  <2> DEFINE r == [code |-> "REJECTED"]
             m == Head(in[c])
  <2>1. /\ pc[c] = "read" /\ proto[c] = "raw" /\ in[c] # <<>> /\ m.kind # "packet"
        /\ Take(c, "farewell", r)
    BY <1>2 DEF DecodeOneFails, Reading
  <2>2. /\ pc'[c] = "farewell" /\ ans'[c] = r /\ in'[c] = Tail(in[c])
        /\ UNCHANGED <<end, link, proto, out, asked>>
    BY <2>1 DEF Take, Goto, IInv, TypeOK
  <2>3. m \in Message
    BY <2>1, Sorts, HeadTailProperties
  <2>4. r \in Response /\ r.code # "OK"
    BY DEF Response, Code
  <2>5. <<r, m>> \in Fits(proto[c], end[c])
    BY <2>1, <2>3, <2>4 DEF Fits
  <2>6. \A w : Wanted(c, w) => w # <<>> /\ Head(w) = m /\ Tail(w) = in'[c]
    BY <2>1, <2>2 DEF Wanted, Handling
  <2>7. pc[c] \notin Writing /\ pc'[c] \in Writing
    BY <2>1, <2>2 DEF Writing
  <2> HIDE DEF r, m
  <2>8. QED
    BY <2>2, <2>3, <2>4, <2>5, <2>6, <2>7, AnswerQueue
<1>3. QED
  BY <1>1, <1>2

(* The answer goes into the socket, or with the client that is gone.       *)
LEMMA WriteQueue ==
  ASSUME IInv, NEW c \in Conns, Queue(c), Write(c) \/ WriteLost(c)
  PROVE  Queue(c)'
<1>1. PICK p \in {"read", "closed"} : Written(c, p)
  BY DEF Write, WriteLost, AfterWrite
<1>2. /\ pc'[c] = p /\ pc[c] \in Writing
      /\ in'[c] = (IF p = "closed" THEN <<>> ELSE in[c])
      /\ UNCHANGED <<end, link, proto, asked>>
  BY <1>1 DEF Written, Goto, Write, WriteLost, Writing, IInv, TypeOK
<1>3. CASE link[c] = "gone"
  BY <1>2, <1>3, QueueGone DEF Queue
<1>4. CASE link[c] # "gone"
  <2>1. out'[c] = Append(out[c], ans[c])
    BY <1>4 DEF Write, WriteLost, IInv, TypeOK
  <2>2. PICK w \in Seq(Message) :
          Wanted(c, w) /\ Lined(Fits(proto[c], end[c]), Given(c), w, asked[c])
    BY <1>4 DEF Queue, InLine
  <2>3. Given(c)' = Given(c)
    BY <1>2, <2>1 DEF Given, Writing
  <2>4. Wanted(c, w)'
    BY <1>2, <2>2 DEF Wanted, Handling, Writing
  <2>5. QED
    BY <1>2, <1>4, <2>2, <2>3, <2>4, QueueWith
<1>5. QED
  BY <1>3, <1>4
-----------------------------------------------------------------------------
(* Each goroutine and each client touches its own connection.              *)
LEMMA OneConn ==
  ASSUME TypeOK, NEW c \in Conns, Client(c) \/ Server(c)
  PROVE  OnlyConn(c)
<1>1. CASE Client(c)
  BY <1>1 DEF Client, Connect, Send, Shut, Leave, Receive, Goto, OnlyConn, TypeOK
<1>2. CASE Ingress(c)
  BY <1>2 DEF Ingress, Classify, PeekFails, StreamEnds, Forget, Close, Goto,
              OnlyConn, TypeOK
<1>3. CASE Modbus(c)
  BY <1>3 DEF Modbus, ReadRequest, ReadRequestFails, SealCheck, Authorize,
              Dispatch, Take, Close, Reply, Goto, OnlyConn, TypeOK
<1>4. CASE Raw(c)
  BY <1>4 DEF Raw, DecodeOne, DecodeOneFails, Apply, Take, Close, Reply, Goto,
              OnlyConn, TypeOK
<1>5. CASE Write(c) \/ WriteLost(c)
  BY <1>5 DEF Write, WriteLost, Written, Goto, OnlyConn, TypeOK
<1>6. QED
  BY <1>1, <1>2, <1>3, <1>4, <1>5 DEF Server

LEMMA ConnQueue ==
  ASSUME IInv, NEW c \in Conns, Queue(c), Client(c) \/ Server(c)
  PROVE  Queue(c)'
<1>1. CASE Client(c)
  BY <1>1, EdgeQueue, SendQueue, ReceiveQueue DEF Client
<1>2. CASE Ingress(c)
  BY <1>2, ClassifyQueue, CloseQueue, EdgeQueue DEF Ingress, PeekFails, StreamEnds
<1>3. CASE Modbus(c)
  BY <1>3, TakeQueue, ModbusQueue, CloseQueue DEF Modbus, ReadRequestFails, Reading
<1>4. CASE Raw(c)
  BY <1>4, TakeQueue, FarewellQueue, ApplyQueue DEF Raw
<1>5. QED
  BY <1>1, <1>2, <1>3, <1>4, WriteQueue DEF Server

LEMMA InitQueue == Init => QInv
<1>1. ASSUME Init, NEW c \in Conns
      PROVE  Queue(c)
  BY <1>1 DEF Init, Queue
<1>2. QED
  BY <1>1, InitIInv DEF QInv

LEMMA StepQueue ==
  ASSUME QInv, [Next]_vars
  PROVE  QInv'
<1>1. IInv'
  BY StepIInv DEF QInv
<1>2. ASSUME NEW c \in Conns
      PROVE  Queue(c)'
  <2>1. ASSUME NEW d \in Conns, Client(d) \/ Server(d)
        PROVE  Queue(c)'
    <3>1. CASE d = c
      BY <2>1, <3>1, ConnQueue DEF QInv
    <3>2. CASE d # c
      <4>1. OnlyConn(d)
        BY <2>1, OneConn DEF QInv, IInv
      <4>2. QED
        BY <3>2, <4>1, QueueStays DEF OnlyConn, QInv
    <3>3. QED
      BY <3>1, <3>2
  <2>2. CASE Restart
    BY <2>2 DEF Restart, Queue
  <2>3. CASE UNCHANGED vars
    BY <2>3, QueueStays DEF QInv, vars, conns
  <2>4. QED
    BY <2>1, <2>2, <2>3 DEF Next
<1>3. QED
  BY <1>1, <1>2 DEF QInv

(* What is in the socket has been given, and Lined speaks of it.           *)
LEMMA QueueMatches ==
  ASSUME QInv
  PROVE  AnswersMatch
<1> SUFFICES ASSUME NEW c \in Conns, NEW i \in DOMAIN out[c]
             PROVE  IF proto[c] = "modbus"
                    THEN /\ out[c][i].tx = asked[c][i].tx
                         /\ out[c][i].unit = asked[c][i].unit
                    ELSE out[c][i].code = "OK" <=>
                           /\ asked[c][i].kind = "packet"
                           /\ IngestCode(Target(c, asked[c][i]), asked[c][i]) = "OK"
  BY DEF AnswersMatch
<1>1. out[c] \in Seq(Response) /\ i \in 1 .. Len(out[c])
  BY Sorts, LenProperties DEF QInv
<1>2. link[c] # "gone"
  BY <1>1, EmptySeq DEF QInv, IInv, Local
<1>3. PICK w \in Seq(Message) :
        Lined(Fits(proto[c], end[c]), Given(c), w, asked[c])
  BY <1>2 DEF QInv, Queue, InLine
<1>4. i \in 1 .. Len(Given(c)) /\ Given(c)[i] = out[c][i]
  <2>1. CASE pc[c] \in Writing
    <3>1. ans[c] \in Response /\ Given(c) = Append(out[c], ans[c])
      BY <2>1, Sorts DEF QInv, Given
    <3>2. /\ Len(Given(c)) = Len(out[c]) + 1
          /\ \A k \in 1 .. Len(out[c]) : Given(c)[k] = out[c][k]
      BY <1>1, <3>1, AppendProperties
    <3>3. QED
      BY <1>1, <3>2, LenProperties
  <2>2. CASE pc[c] \notin Writing
    BY <1>1, <2>2 DEF Given
  <2>3. QED
    BY <2>1, <2>2
<1>5. <<out[c][i], asked[c][i]>> \in Fits(proto[c], end[c])
  BY <1>3, <1>4 DEF Lined
<1>6. QED
  BY <1>5 DEF Fits, Target

(* Each handler answers what it has read in the order it came, one answer  *)
(* for each: with the ids of the request (modbus response.go), or with the *)
(* outcome of the packet (rawingest HandleConn).                           *)
THEOREM AnswersInOrder == Spec => []AnswersMatch
BY InitQueue, StepQueue, QueueMatches, PTL DEF Spec
-----------------------------------------------------------------------------
LEMMA Stages == \A p \in PCs : Stage(p) \in 0 .. 6
BY DEF PCs, Stage

(* A step that leaves the stream alone and goes back a stage, or takes a   *)
(* message and any stage, or drops the stream for the last stage.          *)
LEMMA LessToDo ==
  ASSUME TypeOK, NEW c \in Conns, NEW p \in PCs, pc'[c] = p,
         \/ in'[c] = in[c] /\ Stage(p) < Stage(pc[c])
         \/ in[c] # <<>> /\ in'[c] = Tail(in[c]) /\ pc[c] = "read"
         \/ in'[c] = <<>> /\ Stage(p) < Stage(pc[c])
  PROVE  GetsOn(c)
<1>1. /\ in[c] \in Seq(Message) /\ Len(in[c]) \in Nat
      /\ Stage(p) \in 0 .. 6 /\ Stage(pc[c]) \in 0 .. 6
  BY Stages DEF TypeOK
<1>2. CASE in'[c] = in[c] /\ Stage(p) < Stage(pc[c])
  BY <1>1, <1>2 DEF GetsOn, ToDo
<1>3. CASE in[c] # <<>> /\ in'[c] = Tail(in[c]) /\ pc[c] = "read"
  <2>1. Len(in'[c]) = Len(in[c]) - 1 /\ Stage(pc[c]) = 2
    BY <1>1, <1>3, TailFacts DEF Stage
  <2>2. QED
    BY <1>1, <2>1 DEF GetsOn, ToDo
<1>4. CASE in'[c] = <<>> /\ Stage(p) < Stage(pc[c])
  <2>1. Len(in'[c]) = 0
    BY <1>4, EmptyFacts
  <2>2. QED
    BY <1>1, <1>4, <2>1 DEF GetsOn, ToDo
<1>5. QED
  BY <1>2, <1>3, <1>4

LEMMA ClientGetsOn ==
  ASSUME TypeOK, NEW c \in Conns, Client(c)
  PROVE  GetsOn(c)
<1>1. CASE Connect(c)
  BY <1>1 DEF Connect, Goto, GetsOn, TypeOK
<1>2. CASE Send(c)
  <2>1. PICK m \in Message : in' = [in EXCEPT ![c] = Append(in[c], m)]
    BY <1>2 DEF Send, Messages, Message
  <2>2. in[c] \in Seq(Message) /\ in'[c] = Append(in[c], m)
    BY <2>1 DEF TypeOK
  <2>3. Len(in'[c]) = Len(in[c]) + 1
    BY <2>2, AppendFacts
  <2>4. QED
    BY <1>2, <2>3 DEF Send, GetsOn
<1>3. CASE Shut(c) \/ Leave(c) \/ Receive(c)
  BY <1>3 DEF Shut, Leave, Receive, GetsOn
<1>4. QED
  BY <1>1, <1>2, <1>3 DEF Client

LEMMA ServerGetsOn ==
  ASSUME TypeOK, NEW c \in Conns, Server(c)
  PROVE  GetsOn(c)
<1> USE DEF Goto, PCs
<1>0. in \in [Conns -> Seq(Message)] /\ pc \in [Conns -> PCs]
  BY DEF TypeOK
<1>1. CASE Ingress(c)
  <2>1. CASE Classify(c)
    BY <1>0, <2>1, LessToDo DEF Classify, Stage
  <2>2. CASE PeekFails(c) \/ StreamEnds(c)
    BY <1>0, <2>2, LessToDo DEF PeekFails, StreamEnds, Close, Stage
  <2>3. CASE Forget(c)
    BY <1>0, <2>3, LessToDo DEF Forget, Stage
  <2>4. QED
    BY <1>1, <2>1, <2>2, <2>3 DEF Ingress
<1>2. CASE Modbus(c)
  <2>1. CASE ReadRequest(c)
    BY <1>0, <2>1, LessToDo DEF ReadRequest, Reading, Take
  <2>2. CASE ReadRequestFails(c)
    BY <1>0, <2>2, LessToDo DEF ReadRequestFails, Reading, Close, Stage
  <2>3. CASE SealCheck(c)
    BY <1>0, <2>3, LessToDo DEF SealCheck, Reply, Stage
  <2>4. CASE Authorize(c)
    BY <1>0, <2>4, LessToDo DEF Authorize, Reply, Stage
  <2>5. CASE Dispatch(c)
    BY <1>0, <2>5, LessToDo DEF Dispatch, Reply, Stage
  <2>6. QED
    BY <1>2, <2>1, <2>2, <2>3, <2>4, <2>5 DEF Modbus
<1>3. CASE Raw(c)
  <2>1. CASE DecodeOne(c)
    BY <1>0, <2>1, LessToDo DEF DecodeOne, Reading, Take
  <2>2. CASE DecodeOneFails(c)
    BY <1>0, <2>2, LessToDo DEF DecodeOneFails, Reading, Take, Close, Stage
  <2>3. CASE Apply(c)
    BY <1>0, <2>3, LessToDo DEF Apply, Reply, Stage
  <2>4. QED
    BY <1>3, <2>1, <2>2, <2>3 DEF Raw
<1>4. CASE Write(c) \/ WriteLost(c)
  <2>1. PICK p \in {"closed", "read"} :
          /\ pc[c] \in {"answer", "answer_or_close", "farewell"}
          /\ Written(c, p)
    BY <1>4 DEF Write, WriteLost, AfterWrite
  <2>2. QED
    BY <1>0, <2>1, LessToDo DEF Written, Stage
<1>5. QED
  BY <1>1, <1>2, <1>3, <1>4 DEF Server

LEMMA RestartGetsOn ==
  ASSUME TypeOK, Restart, NEW c \in Conns
  PROVE  GetsOn(c)
<1>1. /\ in'[c] = <<>> /\ pc'[c] = "free" /\ Len(in'[c]) = 0
      /\ Stage(pc'[c]) = 0
  BY EmptyFacts DEF Restart, Stage
<1>2. in[c] \in Seq(Message) /\ Len(in[c]) \in Nat /\ Stage(pc[c]) \in 0 .. 6
  BY Stages DEF TypeOK
<1>3. CASE in[c] = <<>> /\ pc[c] = "free"
  BY <1>1, <1>3 DEF GetsOn
<1>4. CASE in[c] # <<>>
  <2>1. Len(in[c]) > 0
    BY <1>2, <1>4
  <2>2. QED
    BY <1>1, <1>2, <2>1 DEF GetsOn, ToDo
<1>5. CASE pc[c] # "free"
  <2>1. Stage(pc[c]) > 0
    BY <1>5 DEF TypeOK, PCs, Stage
  <2>2. QED
    BY <1>1, <1>2, <2>1 DEF GetsOn, ToDo
<1>6. QED
  BY <1>3, <1>4, <1>5

(* No loop of a handler turns without taking a message: without new ones,  *)
(* it ends after as many steps as it has to do.                            *)
THEOREM HandlersAreFinite == Spec => HandlersGetOn
<1>1. TypeOK /\ [Next]_vars => [\A c \in Conns : GetsOn(c)]_vars
  <2> SUFFICES ASSUME TypeOK, [Next]_vars, NEW c \in Conns
               PROVE  GetsOn(c) \/ UNCHANGED vars
    OBVIOUS
  <2>1. ASSUME NEW d \in Conns, d # c, Client(d) \/ Server(d)
        PROVE  GetsOn(c)
    BY <2>1, OneConn DEF OnlyConn, GetsOn
  <2>2. CASE Client(c) \/ Server(c)
    BY <2>2, ClientGetsOn, ServerGetsOn
  <2>3. QED
    BY <2>1, <2>2, RestartGetsOn DEF Next
<1>2. QED
  BY <1>1, TypeSafety, PTL DEF Spec, HandlersGetOn
-----------------------------------------------------------------------------
(* No bit area is so large that bytesForBits (bits.go) wraps.              *)
NoWrap == \A m \in Memories : \A a \in BitAreas :
  Layouts[m][a].size + ByteBits <= Word

(* The calls the two handlers make bring a buffer of the length demanded.  *)
WellFormed(r) ==
  /\ r.fn \in Calls /\ r.area \in Areas /\ r.area \in AreasOf(r.fn)
  /\ r.address \in Nat /\ r.count \in Nat /\ r.blen = Want(r.area, r.count)

LEMMA RequestCalls ==
  ASSUME NEW a \in Adus, a.fc \in Supported
  PROVE  WellFormed(CallOf(a))
<1>1. CallOf(a).address \in Nat /\ CallOf(a).count \in Nat /\ CallOf(a).area \in Areas
  BY CallOfType
<1>2. /\ CallOf(a).fn = FnOf(a.fc) /\ CallOf(a).area = AreaOf(a.fc)
      /\ CallOf(a).blen = Want(CallOf(a).area, CallOf(a).count)
  BY DEF CallOf
<1>3. FnOf(a.fc) \in Calls /\ AreaOf(a.fc) \in AreasOf(FnOf(a.fc))
  BY DEF FnOf, AreaOf, AreasOf, BitAreas, RegAreas, Supported, Calls, ReadCalls,
         WriteCalls
<1>4. QED
  BY <1>1, <1>2, <1>3 DEF WellFormed

LEMMA PacketCalls ==
  ASSUME NEW p \in Packets
  PROVE  WellFormed(Ingest(p))
<1>1. Ingest(p).address \in Nat /\ Ingest(p).count \in Nat /\ Ingest(p).area \in Areas
  BY IngestType
<1>2. /\ Ingest(p).fn = IF p.area \in BitAreas THEN "WriteBits" ELSE "WriteRegs"
      /\ Ingest(p).area = p.area
      /\ Ingest(p).blen = Want(Ingest(p).area, Ingest(p).count)
  BY DEF Ingest
<1>3. QED
  BY <1>1, <1>2 DEF WellFormed, AreasOf, Areas, Calls, ReadCalls, WriteCalls

(* The checks of memory.go, with their uint16 byte count, are those of     *)
(* docs/05_MEMORY_MODEL.md, over the integers.                             *)
LEMMA ChecksAgree ==
  ASSUME NoWrap, NEW m \in Memories, NEW r, WellFormed(r)
  PROVE  Accepted(Layouts[m], r) <=> Whole(m)!InBounds(r)
<1> DEFINE l == Layouts[m][r.area]
           room == l.start .. (l.start + l.size - 1)
           span == r.address .. (r.address + r.count - 1)
<1>1. l.start \in Nat /\ l.size \in Nat
  <2>1. l \in LayoutType
    BY MemoryAssumption DEF WellFormed
  <2>2. QED
    BY <2>1, UInt16Nat DEF LayoutType
<1>2. r.address \in Nat /\ r.count \in Nat /\ r.area \in Areas /\ r.fn \in Calls
  BY DEF WellFormed
<1>3. Whole(m)!RightArea(r)
  BY DEF WellFormed, AreasOf, Whole!RightArea, Areas, BitAreas, RegAreas, Calls,
         ReadCalls, WriteCalls
<1>4. Whole(m)!Touched(r) = span
  BY DEF Whole!Touched
<1>5. [a \in Areas |-> AddressesOf(Layouts[m][a])][r.area] = room
  BY <1>2 DEF AddressesOf
<1>6. ASSUME r.count # 0
      PROVE  Defined(l) /\ Contains(l, r.address, r.count) <=> span \subseteq room
  <2>1. ASSUME Contains(l, r.address, r.count), NEW x \in span
        PROVE  x \in room
    BY <1>1, <1>2, <2>1 DEF Contains
  <2>2. ASSUME span \subseteq room
        PROVE  Defined(l) /\ Contains(l, r.address, r.count)
    <3>1. r.address \in span /\ r.address + r.count - 1 \in span
      BY <1>2, <1>6
    <3>2. r.address \in room /\ r.address + r.count - 1 \in room
      BY <2>2, <3>1
    <3>3. QED
      BY <1>1, <1>2, <1>6, <3>2 DEF Defined, Contains
  <2>3. ASSUME Contains(l, r.address, r.count)
        PROVE  Defined(l)
    <3>1. r.address >= l.start /\ r.address + r.count <= l.start + l.size
      BY <2>3 DEF Contains
    <3>2. \A a, n, b, k \in Nat : n # 0 /\ a >= b /\ a + n <= b + k => k # 0
      OBVIOUS
    <3>3. l.size # 0
      BY <1>1, <1>2, <1>6, <3>1, <3>2
    <3>4. QED
      BY <3>3 DEF Defined
  <2>4. QED
    BY <2>1, <2>2, <2>3
<1>7. ASSUME Contains(l, r.address, r.count)
      PROVE  Whole(m)!Fits(r)
  <2>1. r.count <= l.size /\ r.count # 0
    BY <1>1, <1>2, <1>7 DEF Contains
  <2>2. CASE r.area \in BitAreas
    <3>1. r.count + 7 < 65536
      BY <1>1, <1>2, <2>1, <2>2 DEF NoWrap, ByteBits, Word
    <3>2. r.blen = (r.count + 7) \div 8
      BY <1>2, <2>1, <2>2, <3>1
         DEF WellFormed, Want, BytesForBits, U16, Word, ByteBits
    <3>3. 8 * r.blen >= r.count
      BY <1>2, <3>2
    <3>4. QED
      BY <2>2, <3>3 DEF Whole!Fits
  <2>3. CASE r.area \notin BitAreas
    <3>1. r.blen = 2 * r.count
      BY <2>3 DEF WellFormed, Want
    <3>2. QED
      BY <1>2, <2>3, <3>1 DEF Whole!Fits
  <2>4. QED
    BY <2>2, <2>3
<1>8. r.blen >= Want(r.area, r.count)
  <2>1. Want(r.area, r.count) \in Int
    BY <1>2 DEF Want, BytesForBits, U16, Word, ByteBits
  <2>2. QED
    BY <2>1 DEF WellFormed
<1>9. r.count # 0 <=> r.count > 0
  BY <1>2
<1>10. Accepted(Layouts[m], r) <=>
         r.count # 0 /\ Defined(l) /\ Contains(l, r.address, r.count)
  BY <1>8 DEF Accepted, WellFormed
<1>11. Whole(m)!InBounds(r) <=> r.count # 0 /\ span \subseteq room /\ Whole(m)!Fits(r)
  BY <1>2, <1>3, <1>4, <1>5, <1>9 DEF Whole!InBounds
<1>12. QED
  BY <1>6, <1>7, <1>10, <1>11

LEMMA UpdatesAgree ==
  ASSUME TypeOK, NEW m \in Memories, NEW r
  PROVE  /\ Updated(m, r)[m] = Whole(m)!Updated(r)
         /\ \A n \in Memories \ {m} : Updated(m, r)[n] = mem[n]
<1>1. mem \in [Memories -> [Areas -> Content]]
  BY DEF TypeOK
<1>2. QED
  BY <1>1 DEF Updated, Whole!Updated, Whole!Touched

(* What a handler has to answer is decided by the bounds alone, once its   *)
(* own decoder is satisfied.                                               *)
LEMMA DispatchIsWhole ==
  ASSUME NoWrap, IInv, NEW c \in Conns, Dispatch(c)
  PROVE  CallIsWhole(c)
<1> DEFINE n == Target(c, req[c])
           r == CallOf(req[c])
           code == DispatchCode(n, req[c])
<1>1. req[c] \in Adus /\ pc[c] = "dispatch" /\ CallMade(c) = r /\ TypeOK
  BY DEF Dispatch, IInv, Local, CallMade
<1>2. /\ ans'[c].code = code
      /\ mem' = IF code = "ok" /\ IsWrite(r) THEN Updated(n, r) ELSE mem
  <2>1. ans' = [ans EXCEPT ![c] = Answer(req[c], code)] /\ code \in Code
    BY DEF Dispatch, Reply, DispatchCode, Code
  <2>2. ans'[c] = Answer(req[c], code)
    BY <1>1, <2>1 DEF TypeOK
  <2>3. ans'[c].code = code
    BY <1>1, <2>1, <2>2, AnswerType
  <2>4. QED
    BY <2>3 DEF Dispatch
<1>3. CASE code \in {"illegal_function", "illegal_value"}
  BY <1>2, <1>3 DEF CallIsWhole
<1>4. CASE req[c].fc \in Supported /\ Decodes(req[c])
  <2>1. code = IF n \in Memories /\ Accepted(Layouts[n], r)
               THEN "ok" ELSE "illegal_address"
    BY <1>4 DEF DispatchCode
  <2>2. FitsTarget(c) <=> n \in Memories /\ Accepted(Layouts[n], r)
    BY <1>1, <1>4, ChecksAgree, RequestCalls DEF FitsTarget
  <2>3. CASE code = "ok"
    <3>1. FitsTarget(c) /\ n \in Memories
      BY <2>1, <2>2, <2>3
    <3>2. AllDone(c)
      BY <1>1, <1>2, <2>3, <3>1, UpdatesAgree DEF AllDone
    <3>3. QED
      BY <1>2, <2>3, <3>1, <3>2 DEF CallIsWhole
  <2>4. CASE code # "ok"
    BY <1>2, <2>1, <2>2, <2>4 DEF CallIsWhole
  <2>5. QED
    BY <2>3, <2>4
<1>5. QED
  BY <1>3, <1>4 DEF DispatchCode

LEMMA ApplyIsWhole ==
  ASSUME NoWrap, IInv, NEW c \in Conns, Apply(c)
  PROVE  CallIsWhole(c)
<1> DEFINE n == Target(c, req[c])
           r == Ingest(req[c])
           code == IngestCode(n, req[c])
<1>1. req[c] \in Packets /\ pc[c] = "apply" /\ CallMade(c) = r /\ TypeOK
  BY DEF Apply, IInv, Local, CallMade
<1>2. /\ ans'[c].code = code
      /\ mem' = IF code = "OK" THEN Updated(n, r) ELSE mem
  <2>1. ans' = [ans EXCEPT ![c] = Answer(req[c], code)] /\ code \in Code
    BY DEF Apply, Reply, IngestCode, Code
  <2>2. ans'[c] = Answer(req[c], code)
    BY <1>1, <2>1 DEF TypeOK
  <2>3. ans'[c].code = code
    BY <1>1, <2>1, <2>2, AnswerType
  <2>4. QED
    BY <2>3 DEF Apply
<1>3. FitsTarget(c) <=> n \in Memories /\ Accepted(Layouts[n], r)
  BY <1>1, ChecksAgree, PacketCalls DEF FitsTarget
<1>4. CASE code = "OK"
  <2>1. FitsTarget(c) /\ n \in Memories
    BY <1>3, <1>4 DEF IngestCode
  <2>2. IsWrite(r)
    BY DEF Ingest, IsWrite, WriteCalls
  <2>3. AllDone(c)
    BY <1>1, <1>2, <1>4, <2>1, <2>2, UpdatesAgree DEF AllDone
  <2>4. QED
    BY <1>2, <1>4, <2>1, <2>3 DEF CallIsWhole
<1>5. CASE code = "REJECTED"
  BY <1>2, <1>3, <1>5 DEF CallIsWhole, IngestCode
<1>6. QED
  BY <1>4, <1>5 DEF IngestCode

(* Everything else that leaves a connection at a memory call leaves it     *)
(* there, or ends it with the process.                                     *)
LEMMA OthersMakeNoCall ==
  ASSUME TypeOK, NEW c \in Conns, Client(c) \/ Server(c),
         ~ Dispatch(c), ~ Apply(c)
  PROVE  CallIsWhole(c)
<1> SUFFICES ASSUME pc[c] \in {"dispatch", "apply"}
             PROVE  pc'[c] \notin {"answer", "answer_or_close"}
  BY DEF CallIsWhole
<1>1. CASE Client(c)
  BY <1>1 DEF Client, Connect, Send, Shut, Leave, Receive
<1>2. ~ Ingress(c)
  BY DEF Ingress, Classify, PeekFails, StreamEnds, Forget
<1>3. ~ Modbus(c) /\ ~ Raw(c)
  BY DEF Modbus, Raw, ReadRequest, ReadRequestFails, SealCheck, Authorize,
         DecodeOne, DecodeOneFails, Reading
<1>4. ~ Write(c) /\ ~ WriteLost(c)
  BY DEF Write, WriteLost
<1>5. QED
  BY <1>1, <1>2, <1>3, <1>4 DEF Server

(* Every answer of dispatch_memorycore.go and of the raw handler tells     *)
(* what became of the call: done as a whole, or not at all.  So the one    *)
(* step a call is in Gateway is the call AtomicMemory promises, which      *)
(* memory.go implements.                                                   *)
THEOREM CallsWhole ==
  ASSUME NoWrap
  PROVE  Spec => CallsAreWhole
<1>1. IInv /\ [Next]_vars => [\A c \in Conns : CallIsWhole(c)]_vars
  <2> SUFFICES ASSUME IInv, [Next]_vars, NEW c \in Conns
               PROVE  CallIsWhole(c) \/ UNCHANGED vars
    OBVIOUS
  <2>1. TypeOK
    BY DEF IInv
  <2>2. ASSUME NEW d \in Conns, d # c, Client(d) \/ Server(d)
        PROVE  CallIsWhole(c)
    <3>1. pc'[c] = pc[c]
      BY <2>1, <2>2, OneConn DEF OnlyConn
    <3>2. QED
      BY <3>1 DEF CallIsWhole
  <2>3. CASE Client(c) \/ Server(c)
    BY <2>1, <2>3, OthersMakeNoCall, DispatchIsWhole, ApplyIsWhole
  <2>4. CASE Restart
    BY <2>4 DEF Restart, CallIsWhole
  <2>5. QED
    BY <2>2, <2>3, <2>4 DEF Next
<1>2. QED
  BY <1>1, Invariance, PTL DEF Spec, CallsAreWhole
=============================================================================
