---------------------------- MODULE SealContract ----------------------------
(***************************************************************************)
(* What docs/01_STATE_SEALING.md promises of the memories, as far as the   *)
(* gateway keeps it: a memory with a flag starts in PRE-RUN; there nothing *)
(* but ingest gets at it; the ingest write that sets the flag, and nothing *)
(* else, takes it to RUN; only a restart takes it back, and loses what it  *)
(* held.  There are no messages, handlers, rules or answers here.          *)
(***************************************************************************)
EXTENDS Naturals

CONSTANTS
  Clients,  \* who may get at the memories
  Memories,
  Flag,     \* Flag[m]: the coil that unseals m, or NoFlag
  NoFlag,
  Blank     \* what the memories hold after a start

VARIABLES
  phase,    \* phase[m]: "PRE-RUN" or "RUN"
  content,  \* content[m][a][x]: the element at address x of area a of m
  hand      \* hand[c]: what has been let in for c and not been done yet

vars == <<phase, content, hand>>

Nothing  == [by |-> "nobody"]
Access   == [by : {"ingest", "modbus"}, to : Memories]
Sealable == {m \in Memories : Flag[m] # NoFlag}
FlagSet(m) == content[m]["coils"][Flag[m]] # 0

Fresh == [m \in Memories |-> IF m \in Sealable THEN "PRE-RUN" ELSE "RUN"]

(* Only memory m may change.                                               *)
Only(m) == \A n \in Memories \ {m} : content'[n] = content[n]
-----------------------------------------------------------------------------
Init ==
  /\ phase   = Fresh
  /\ content = Blank
  /\ hand    = [c \in Clients |-> Nothing]

(* Ingest is always let in, Modbus when the memory is in RUN.              *)
Admit(c) ==
  /\ hand[c] = Nothing
  /\ \E h \in Access :
       /\ h.by = "modbus" => phase[h.to] = "RUN"
       /\ hand' = [hand EXCEPT ![c] = h]
  /\ UNCHANGED <<phase, content>>

Done(c, h) == hand[c] = h /\ hand' = [hand EXCEPT ![c] = Nothing]

(* Refused for another reason than the seal.                               *)
Drop(c) ==
  /\ \E h \in Access : Done(c, h)
  /\ UNCHANGED <<phase, content>>

Ingest(c) == \E m \in Memories :
  /\ Done(c, [by |-> "ingest", to |-> m])
  /\ Only(m)
  /\ phase' = IF m \in Sealable /\ FlagSet(m)'
              THEN [phase EXCEPT ![m] = "RUN"] ELSE phase

Modbus(c) == \E m \in Memories :
  /\ Done(c, [by |-> "modbus", to |-> m])
  /\ Only(m)
  /\ UNCHANGED phase

Restart ==
  /\ phase'   = Fresh
  /\ content' = Blank
  /\ hand'    = [c \in Clients |-> Nothing]

Next == Restart \/ \E c \in Clients :
          Admit(c) \/ Drop(c) \/ Ingest(c) \/ Modbus(c)

Spec == Init /\ [][Next]_vars
=============================================================================
