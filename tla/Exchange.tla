------------------------------ MODULE Exchange ------------------------------
(***************************************************************************)
(* What both ends of a connection may take for granted of a framing: the   *)
(* handler takes the messages the client posted, whole, in their order and *)
(* none twice; it answers each before it takes the next; it may stop, with *)
(* at most one answer more.  There are no bytes, headers or lengths here.  *)
(*                                                                         *)
(* A message of Ambiguous is one whose length the handler computes to be   *)
(* another than the client does: nothing is promised of what follows it.   *)
(***************************************************************************)
EXTENDS Naturals, Sequences

CONSTANTS
  Messages, \* what may be posted
  Ambiguous \* those after which the framing is lost

VARIABLES
  posted,   \* the messages posted
  taken,    \* the messages taken
  answered, \* how many answers were written
  open      \* the handler has not stopped

vars == <<posted, taken, answered, open>>

Lost == \E i \in 1 .. Len(taken) : taken[i] \in Ambiguous

Init == posted = <<>> /\ taken = <<>> /\ answered = 0 /\ open = TRUE

Post ==
  /\ \E m \in Messages : posted' = Append(posted, m)
  /\ UNCHANGED <<taken, answered, open>>

Take ==
  /\ open /\ answered = Len(taken)
  /\ \/ /\ Len(taken) < Len(posted)
        /\ taken' = Append(taken, posted[Len(taken) + 1])
     \/ Lost /\ \E m \in Messages : taken' = Append(taken, m)
  /\ UNCHANGED <<posted, answered, open>>

Answer ==
  /\ open /\ answered + 1 = Len(taken)
  /\ answered' = answered + 1
  /\ UNCHANGED <<posted, taken, open>>

Stop ==
  /\ open
  /\ open' = FALSE
  /\ answered' \in {answered, answered + 1}
  /\ UNCHANGED <<posted, taken>>

Next == Post \/ Take \/ Answer \/ Stop

Spec == Init /\ [][Next]_vars
=============================================================================
