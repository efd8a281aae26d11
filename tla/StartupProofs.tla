--------------------------- MODULE StartupProofs ---------------------------
(***************************************************************************)
(* Proofs about Startup, for every set of configurations.                  *)
(***************************************************************************)
EXTENDS Startup, TLAPS

(* The definitions the loops have passed when they are at position a.      *)
Before(p, a) == p.l < a.l \/ (p.l = a.l /\ p.m < a.m)

Passed(c, a) == {p \in Nested(c) : Before(p, a)}

WithPolicy(c, S) == {p \in S : Def(c, p).policy.given}

(* The store holds what the definitions of S give, and nothing else.       *)
StoreOf(c, S) ==
  /\ DOMAIN store = {IdOf(c, p) : p \in S}
  /\ \A p \in S : store[IdOf(c, p)] = Built(c, p) /\ MemoryBuilds(c, p)

PoliciesOf(c, S) ==
  /\ DOMAIN policies = {IdOf(c, p) : p \in WithPolicy(c, S)}
  /\ \A p \in WithPolicy(c, S) :
       policies[IdOf(c, p)] = BuiltPolicy(Def(c, p))

Building == {"store", "policies", "listen", "serve"}
Running  == {"listen", "serve"}

(* What main has established when it has come to each phase.               *)
Progress ==
  /\ phase \in Building => Valid(cfg)
  /\ phase \in Building \ {"store"} => cfg.legacy = <<>>
  /\ phase \in {"load", "validate"} => at = First
  /\ phase \in {"load", "validate", "store"} => policies = <<>>
  /\ phase \in {"load", "validate"} => store = <<>>
  /\ phase = "store" => StoreOf(cfg, Passed(cfg, at))
  /\ phase \in Building \ {"store"} => StoreOf(cfg, Nested(cfg))
  /\ phase = "policies" => PoliciesOf(cfg, Passed(cfg, at))
  /\ phase \in Running => PoliciesOf(cfg, Nested(cfg)) /\ auth = policies
  /\ phase = "dead" => at = First /\ store = <<>> /\ policies = <<>>
  /\ phase \notin Running => \A g \in Gates : gate[g] = "none"

IInv == TypeOK /\ Progress /\ ValidatedBuilds

-----------------------------------------------------------------------------
LEMMA UInt16IsNat == \A n \in UInt16 : n \in Nat
BY DEF UInt16

(* A position is a listener and one of its definitions.                    *)
LEMMA NestedFacts ==
  ASSUME NEW c \in Configs
  PROVE  /\ \A p \in Nested(c) :
              /\ p.l \in DOMAIN c.listeners
              /\ p.m \in DOMAIN c.listeners[p.l].memory
              /\ p = [l |-> p.l, m |-> p.m]
              /\ p.l \in Nat \ {0} /\ p.m \in Nat \ {0}
              /\ IsDefinition(Def(c, p))
              /\ c.listeners[p.l].port \in UInt16
         /\ \A g \in DOMAIN c.listeners : \A i \in DOMAIN c.listeners[g].memory :
              [l |-> g, m |-> i] \in Nested(c)
<1>1. /\ DOMAIN c.listeners = 1 .. Len(c.listeners) /\ Len(c.listeners) \in Nat
      /\ \A g \in DOMAIN c.listeners : IsListener(c.listeners[g])
  BY ConfigAssumption DEF ConfigAssumption
<1>2. ASSUME NEW p \in Nested(c)
      PROVE  /\ p.l \in DOMAIN c.listeners
             /\ p.m \in DOMAIN c.listeners[p.l].memory
             /\ p = [l |-> p.l, m |-> p.m]
  BY DEF Nested, Positions
<1>3. ASSUME NEW p \in Nested(c)
      PROVE  /\ p.l \in Nat \ {0} /\ p.m \in Nat \ {0}
             /\ IsDefinition(Def(c, p))
             /\ c.listeners[p.l].port \in UInt16
  BY <1>1, <1>2 DEF IsListener, Def
<1>4. ASSUME NEW g \in DOMAIN c.listeners, NEW i \in DOMAIN c.listeners[g].memory
      PROVE  [l |-> g, m |-> i] \in Nested(c)
  BY DEF Nested, Positions
<1>5. QED
  BY <1>2, <1>3, <1>4

(* At a definition, the loop is at a position of Nested; stepping past it  *)
(* adds exactly that one.                                                  *)
LEMMA PassOne ==
  ASSUME TypeOK, AtDefinition, NEW b, b = [at EXCEPT !.m = @ + 1]
  PROVE  /\ at \in Nested(cfg) /\ at \notin Passed(cfg, at)
         /\ Passed(cfg, b) = Passed(cfg, at) \cup {at}
<1>1. at \in [l : Nat \ {0}, m : Nat \ {0}] /\ cfg \in Configs
  BY DEF TypeOK
<1>2. at \in Nested(cfg)
  BY <1>1, NestedFacts DEF AtDefinition
<1>3. at \notin Passed(cfg, at)
  BY <1>1 DEF Passed, Before
<1>4. ASSUME NEW p \in Nested(cfg)
      PROVE  Before(p, b) <=> Before(p, at) \/ p = at
  <2>1. /\ p.l \in Nat /\ p.m \in Nat /\ p = [l |-> p.l, m |-> p.m]
        /\ at.l \in Nat /\ at.m \in Nat /\ at = [l |-> at.l, m |-> at.m]
        /\ b.l = at.l /\ b.m = at.m + 1
    BY <1>1, NestedFacts
  <2>2. p = at <=> p.l = at.l /\ p.m = at.m
    BY <2>1
  <2>3. p.m < at.m + 1 <=> p.m < at.m \/ p.m = at.m
    BY <2>1
  <2>4. QED
    BY <2>1, <2>2, <2>3 DEF Before
<1>5. QED
  BY <1>2, <1>3, <1>4 DEF Passed

LEMMA PassListener ==
  ASSUME TypeOK, PastListener
  PROVE  Passed(cfg, [l |-> at.l + 1, m |-> 1]) = Passed(cfg, at)
<1>1. at \in [l : Nat \ {0}, m : Nat \ {0}] /\ cfg \in Configs
  BY DEF TypeOK
<1>2. /\ DOMAIN cfg.listeners[at.l].memory = 1 .. Len(cfg.listeners[at.l].memory)
      /\ Len(cfg.listeners[at.l].memory) \in Nat
      /\ at.m \notin DOMAIN cfg.listeners[at.l].memory
  BY <1>1, ConfigAssumption DEF ConfigAssumption, IsListener, PastListener
<1>3. ASSUME NEW p \in Nested(cfg)
      PROVE  Before(p, [l |-> at.l + 1, m |-> 1]) <=> Before(p, at)
  <2>1. /\ p.l \in Nat /\ p.m \in Nat \ {0} /\ at.l \in Nat /\ at.m \in Nat \ {0}
        /\ p.l = at.l => p.m \in DOMAIN cfg.listeners[at.l].memory
    BY <1>1, NestedFacts
  <2>2. p.l = at.l => p.m < at.m
    BY <1>2, <2>1
  <2>3. QED
    BY <2>1, <2>2 DEF Before
<1>4. QED
  BY <1>3 DEF Passed

LEMMA PassAll ==
  ASSUME TypeOK, PastAll
  PROVE  Passed(cfg, at) = Nested(cfg)
<1>1. at \in [l : Nat \ {0}, m : Nat \ {0}] /\ cfg \in Configs
  BY DEF TypeOK
<1>2. /\ DOMAIN cfg.listeners = 1 .. Len(cfg.listeners) /\ Len(cfg.listeners) \in Nat
      /\ at.l \notin DOMAIN cfg.listeners
  BY <1>1, ConfigAssumption DEF ConfigAssumption, PastAll
<1>3. ASSUME NEW p \in Nested(cfg)
      PROVE  p.l < at.l
  BY <1>1, <1>2, NestedFacts
<1>4. QED
  BY <1>3 DEF Passed, Before

LEMMA PassNone ==
  ASSUME NEW c \in Configs
  PROVE  Passed(c, First) = {}
<1>1. ASSUME NEW p \in Nested(c)
      PROVE  ~ Before(p, First)
  <2>1. p.l \in Nat \ {0} /\ p.m \in Nat \ {0}
    BY NestedFacts
  <2>2. QED
    BY <2>1 DEF Before, First
<1>2. QED
  BY <1>1 DEF Passed

-----------------------------------------------------------------------------
(* What a definition must have for a builder to refuse it.                 *)
Excuse(c) ==
  \/ c.legacy # <<>>
  \/ \E p \in Nested(c) :
       \/ Def(c, p).unit = 0
       \/ \E i \in DOMAIN Def(c, p).policy.rules :
            \/ Def(c, p).policy.rules[i].id = ""
            \/ \E s \in Def(c, p).policy.rules[i].items : s.kind = "zoned"

(* The end of the process restores what holds of a dead one.               *)
LEMMA DiesStep ==
  ASSUME IInv, NEW r \in Reasons, Dies(r), r \in {"store", "policies"} => Excuse(cfg)
  PROVE  IInv'
<1>1. TypeOK'
  BY DEF IInv, TypeOK, Dies, First, Phases
<1>2. Progress'
  BY DEF Progress, Dies, Building, Running
<1>3. ValidatedBuilds'
  <2>1. cfg' = cfg /\ why' = r
    BY DEF Dies
  <2>2. QED
    BY <2>1 DEF ValidatedBuilds, Excuse
<1>4. QED
  BY <1>1, <1>2, <1>3 DEF IInv

(* Under Validate, only a unit 0 makes a builder refuse a memory...        *)
LEMMA MemoryRefused ==
  ASSUME NEW c \in Configs, Valid(c), NEW p \in Nested(c), ~ MemoryBuilds(c, p)
  PROVE  Excuse(c)
<1>1. /\ DefinitionOK(Def(c, p))
      /\ p.l \in DOMAIN c.listeners /\ p.m \in DOMAIN c.listeners[p.l].memory
  BY NestedFacts DEF Valid
<1>2. c.listeners[p.l].port # 0
  <2>1. c.listeners[p.l].memory # <<>>
    <3>1. DOMAIN <<>> = {}
      OBVIOUS
    <3>2. QED
      BY <1>1, <3>1
  <2>2. QED
    BY <1>1, <2>1 DEF Valid, ListenersOK, ParsesPort
<1>3. Def(c, p).unit = 0
  BY <1>1, <1>2 DEF MemoryBuilds, DefinitionOK, IdOf
<1>4. QED
  BY <1>3 DEF Excuse

(* ... and only a rule without an id or with a zoned entry a policy: of    *)
(* the entries that one of the two parsers takes, the slash sends all but  *)
(* these to the parser that takes them.                                    *)
LEMMA RuleRefused ==
  ASSUME NEW c \in Configs, Valid(c), NEW p \in Nested(c),
         NEW i \in DOMAIN Def(c, p).policy.rules,
         ~ RuleBuilds(Def(c, p).policy.rules[i])
  PROVE  Excuse(c)
<1>1. RulesOK(Def(c, p))
  BY DEF Valid, DefinitionOK
<1>2. CASE Def(c, p).policy.rules[i].id = ""
  BY <1>2 DEF Excuse
<1>3. CASE Def(c, p).policy.rules[i].id # ""
  <2>1. PICK s \in Def(c, p).policy.rules[i].items : ~ ItemBuilds(s)
    BY <1>3 DEF RuleBuilds
  <2>2. s.kind = "blank" \/ ParsesPrefix(s) \/ ParsesAddr(s)
    BY <1>1 DEF RulesOK
  <2>3. s.kind = "zoned"
    BY <2>1, <2>2 DEF ItemBuilds, HasSlash, ParsesPrefix, ParsesAddr
  <2>4. QED
    BY <2>3 DEF Excuse
<1>4. QED
  BY <1>2, <1>3

(* Definitions have identities of their own.                               *)
LEMMA OwnId ==
  ASSUME NEW c, Valid(c), NEW p \in Nested(c), NEW q \in Nested(c), p # q
  PROVE  IdOf(c, p) # IdOf(c, q)
BY DEF Valid, IdentitiesOK

LEMMA LoadStep ==
  ASSUME IInv, Load
  PROVE  IInv'
BY DEF IInv, TypeOK, Progress, ValidatedBuilds, Load, Enter, listening, Phases,
       Building, Running, First

LEMMA ValidateStep ==
  ASSUME IInv, Validate
  PROVE  IInv'
<1>1. CASE ~ Valid(cfg) /\ Dies("validate")
  BY <1>1, DiesStep DEF Reasons
<1>2. CASE Valid(cfg) /\ Enter("store") /\ UNCHANGED <<store, policies, auth, listening>>
  <2>1. /\ phase = "validate" /\ cfg \in Configs /\ cfg' = cfg
        /\ phase' = "store" /\ at' = First
    BY <1>2 DEF Validate, IInv, TypeOK, Enter
  <2>2. TypeOK'
    BY <1>2, <2>1 DEF IInv, TypeOK, Enter, listening, Phases, First
  <2>3. /\ store' = <<>> /\ policies' = <<>>
        /\ \A g \in Gates : gate'[g] = "none"
    BY <1>2, <2>1 DEF IInv, Progress, listening, Running
  <2>4. StoreOf(cfg, {})'
    BY <2>3 DEF StoreOf
  <2>5. Passed(cfg, at)' = {}
    BY <2>1, PassNone
  <2>6. Valid(cfg)'
    BY <1>2, <2>1
  <2>7. Progress'
    BY <2>1, <2>3, <2>4, <2>5, <2>6 DEF Progress, Building, Running
  <2>8. ValidatedBuilds'
    BY <2>1 DEF ValidatedBuilds
  <2>9. QED
    BY <2>2, <2>7, <2>8 DEF IInv
<1>3. QED
  BY <1>1, <1>2 DEF Validate

LEMMA BuildOneMemoryStep ==
  ASSUME IInv, BuildOneMemory
  PROVE  IInv'
<1>0. /\ phase = "store" /\ cfg \in Configs /\ Valid(cfg) /\ at \in Nested(cfg)
      /\ at \notin Passed(cfg, at) /\ StoreOf(cfg, Passed(cfg, at))
  BY PassOne DEF BuildOneMemory, IInv, TypeOK, Progress, Building
<1>1. CASE ~ MemoryBuilds(cfg, at) /\ Dies("store")
  BY <1>0, <1>1, MemoryRefused, DiesStep DEF Reasons
<1>2. CASE /\ MemoryBuilds(cfg, at)
           /\ store' = With(store, IdOf(cfg, at), Built(cfg, at))
           /\ NextDefinition
           /\ UNCHANGED <<policies, auth, listening>>
  <2>1. cfg' = cfg /\ phase' = phase /\ at' = [at EXCEPT !.m = @ + 1]
    BY <1>2 DEF NextDefinition
  <2>2. TypeOK'
    BY <1>2, <2>1 DEF IInv, TypeOK, NextDefinition, listening
  <2>3. PICK b : b = [at EXCEPT !.m = @ + 1]
    OBVIOUS
  <2>4. Passed(cfg, b) = Passed(cfg, at) \cup {at}
    BY <2>3, PassOne DEF BuildOneMemory, IInv
  <2>5. ASSUME NEW p \in Passed(cfg, at)
        PROVE  IdOf(cfg, p) # IdOf(cfg, at)
    BY <1>0, OwnId DEF Passed
  <2>6. DOMAIN store' = {IdOf(cfg, p) : p \in Passed(cfg, at) \cup {at}}
    BY <1>0, <1>2 DEF With, StoreOf
  <2>7. store'[IdOf(cfg, at)] = Built(cfg, at)
    BY <1>2 DEF With
  <2>8. ASSUME NEW p \in Passed(cfg, at)
        PROVE  store'[IdOf(cfg, p)] = Built(cfg, p) /\ MemoryBuilds(cfg, p)
    BY <1>0, <1>2, <2>5, <2>8 DEF With, StoreOf
  <2>9. StoreOf(cfg, Passed(cfg, b))'
    BY <1>2, <2>1, <2>4, <2>6, <2>7, <2>8, b' = b DEF StoreOf
  <2>10. Progress'
    BY <1>0, <1>2, <2>1, <2>3, <2>9
       DEF IInv, Progress, Building, Running, listening
  <2>11. ValidatedBuilds'
    BY <1>0, <2>1 DEF ValidatedBuilds
  <2>12. QED
    BY <2>2, <2>10, <2>11 DEF IInv
<1>3. QED
  BY <1>1, <1>2 DEF BuildOneMemory

LEMMA NextListenerStep ==
  ASSUME IInv, NextListener
  PROVE  IInv'
<1>1. /\ cfg' = cfg /\ phase' = phase /\ at' = [l |-> at.l + 1, m |-> 1]
      /\ UNCHANGED <<why, store, policies, auth, listening>>
      /\ phase \in {"store", "policies"} /\ PastListener
  BY DEF NextListener
<1>2. TypeOK'
  BY <1>1 DEF IInv, TypeOK, listening
<1>3. PICK b : b = [l |-> at.l + 1, m |-> 1]
  OBVIOUS
<1>4. Passed(cfg, b) = Passed(cfg, at)
  BY <1>1, <1>3, PassListener DEF IInv
<1>5. Progress'
  BY <1>1, <1>3, <1>4
     DEF IInv, Progress, Building, Running, listening, StoreOf, PoliciesOf
<1>6. ValidatedBuilds'
  BY <1>1 DEF ValidatedBuilds
<1>7. QED
  BY <1>2, <1>5, <1>6 DEF IInv

LEMMA StoreBuiltStep ==
  ASSUME IInv, StoreBuilt
  PROVE  IInv'
<1>1. /\ cfg' = cfg /\ phase = "store" /\ phase' = "policies" /\ at' = First
      /\ UNCHANGED <<why, store, policies, auth, listening>>
      /\ cfg.legacy = <<>> /\ PastAll /\ cfg \in Configs
  BY DEF StoreBuilt, Enter, IInv, TypeOK
<1>2. TypeOK'
  BY <1>1 DEF IInv, TypeOK, listening, Phases, First
<1>3. Passed(cfg, at) = Nested(cfg) /\ Passed(cfg, First) = {}
  BY <1>1, PassAll, PassNone DEF IInv
<1>4. PoliciesOf(cfg, {})'
  BY <1>1 DEF IInv, Progress, PoliciesOf, WithPolicy
<1>5. Progress'
  BY <1>1, <1>3, <1>4 DEF IInv, Progress, Building, Running, listening, StoreOf
<1>6. ValidatedBuilds'
  BY <1>1 DEF ValidatedBuilds
<1>7. QED
  BY <1>2, <1>5, <1>6 DEF IInv

(* Both steps of the policies' loop are at a definition of their own.      *)
LEMMA AtPolicy ==
  ASSUME IInv, phase = "policies", AtDefinition
  PROVE  /\ cfg \in Configs /\ Valid(cfg) /\ at \in Nested(cfg)
         /\ at \notin Passed(cfg, at) /\ PoliciesOf(cfg, Passed(cfg, at))
         /\ \A b : b = [at EXCEPT !.m = @ + 1] =>
                      Passed(cfg, b) = Passed(cfg, at) \cup {at}
BY PassOne DEF IInv, TypeOK, Progress, Building

LEMMA NoPolicyHereStep ==
  ASSUME IInv, NoPolicyHere
  PROVE  IInv'
<1>1. /\ cfg' = cfg /\ phase = "policies" /\ phase' = phase
      /\ at' = [at EXCEPT !.m = @ + 1] /\ AtDefinition
      /\ UNCHANGED <<why, store, policies, auth, listening>>
      /\ ~ Def(cfg, at).policy.given
  BY DEF NoPolicyHere, NextDefinition
<1>2. TypeOK'
  BY <1>1 DEF IInv, TypeOK, listening
<1>3. PICK b : b = [at EXCEPT !.m = @ + 1]
  OBVIOUS
<1>4. PoliciesOf(cfg, Passed(cfg, at)) /\ Passed(cfg, b) = Passed(cfg, at) \cup {at}
  BY <1>1, <1>3, AtPolicy
<1>5. WithPolicy(cfg, Passed(cfg, b)) = WithPolicy(cfg, Passed(cfg, at))
  BY <1>1, <1>4 DEF WithPolicy
<1>6. Progress'
  BY <1>1, <1>3, <1>4, <1>5
     DEF IInv, Progress, Building, Running, listening, StoreOf, PoliciesOf
<1>7. ValidatedBuilds'
  BY <1>1 DEF ValidatedBuilds
<1>8. QED
  BY <1>2, <1>6, <1>7 DEF IInv

LEMMA BuildPolicyStep ==
  ASSUME IInv, BuildPolicy
  PROVE  IInv'
<1>0. /\ phase = "policies" /\ AtDefinition /\ Def(cfg, at).policy.given
      /\ cfg \in Configs /\ Valid(cfg) /\ at \in Nested(cfg)
      /\ at \notin Passed(cfg, at) /\ PoliciesOf(cfg, Passed(cfg, at))
  BY AtPolicy DEF BuildPolicy
<1>1. ASSUME NEW p \in WithPolicy(cfg, Passed(cfg, at))
      PROVE  IdOf(cfg, p) # IdOf(cfg, at)
  BY <1>0, OwnId DEF Passed, WithPolicy
<1>2. CASE ~ PolicyBuilds /\ Dies("policies")
  <2>1. IdOf(cfg, at) \notin DOMAIN policies
    BY <1>0, <1>1 DEF PoliciesOf
  <2>2. PICK i \in DOMAIN Def(cfg, at).policy.rules :
           ~ RuleBuilds(Def(cfg, at).policy.rules[i])
    BY <1>2, <2>1 DEF PolicyBuilds
  <2>3. Excuse(cfg)
    BY <1>0, <2>2, RuleRefused
  <2>4. QED
    BY <1>2, <2>3, DiesStep DEF Reasons
<1>3. CASE /\ PolicyBuilds
           /\ policies' = With(policies, IdOf(cfg, at), BuiltPolicy(Def(cfg, at)))
           /\ NextDefinition
           /\ UNCHANGED <<store, auth, listening>>
  <2>1. cfg' = cfg /\ phase' = phase /\ at' = [at EXCEPT !.m = @ + 1] /\ why' = why
    BY <1>3 DEF NextDefinition
  <2>2. TypeOK'
    BY <1>3, <2>1 DEF IInv, TypeOK, listening
  <2>3. PICK b : b = [at EXCEPT !.m = @ + 1]
    OBVIOUS
  <2>4. WithPolicy(cfg, Passed(cfg, b)) = WithPolicy(cfg, Passed(cfg, at)) \cup {at}
    BY <1>0, <2>3, AtPolicy DEF WithPolicy
  <2>5. DOMAIN policies' =
          {IdOf(cfg, p) : p \in WithPolicy(cfg, Passed(cfg, at)) \cup {at}}
    BY <1>0, <1>3 DEF With, PoliciesOf
  <2>6. policies'[IdOf(cfg, at)] = BuiltPolicy(Def(cfg, at))
    BY <1>3 DEF With
  <2>7. ASSUME NEW p \in WithPolicy(cfg, Passed(cfg, at))
        PROVE  policies'[IdOf(cfg, p)] = BuiltPolicy(Def(cfg, p))
    BY <1>0, <1>1, <1>3, <2>7 DEF With, PoliciesOf
  <2>8. PoliciesOf(cfg, Passed(cfg, b))'
    BY <2>1, <2>4, <2>5, <2>6, <2>7, b' = b DEF PoliciesOf
  <2>9. StoreOf(cfg, Nested(cfg))'
    BY <1>0, <1>3, <2>1 DEF IInv, Progress, Building, StoreOf
  <2>10. Progress'
    BY <1>0, <1>3, <2>1, <2>3, <2>8, <2>9
       DEF IInv, Progress, Building, Running, listening
  <2>11. ValidatedBuilds'
    BY <1>0, <2>1 DEF ValidatedBuilds
  <2>12. QED
    BY <2>2, <2>10, <2>11 DEF IInv
<1>4. QED
  BY <1>2, <1>3 DEF BuildPolicy

LEMMA SetPoliciesStep ==
  ASSUME IInv, SetPolicies
  PROVE  IInv'
<1>1. /\ cfg' = cfg /\ phase = "policies" /\ phase' = "listen" /\ at' = First
      /\ PastAll /\ auth' = policies
      /\ UNCHANGED <<why, store, policies, listening>>
  BY DEF SetPolicies, Enter
<1>2. TypeOK'
  BY <1>1 DEF IInv, TypeOK, listening, Phases, First
<1>3. Passed(cfg, at) = Nested(cfg)
  BY <1>1, PassAll DEF IInv
<1>4. Progress'
  BY <1>1, <1>3
     DEF IInv, Progress, Building, Running, listening, StoreOf, PoliciesOf
<1>5. ValidatedBuilds'
  BY <1>1 DEF ValidatedBuilds
<1>6. QED
  BY <1>2, <1>4, <1>5 DEF IInv

LEMMA StartListenerStep ==
  ASSUME IInv, StartListener
  PROVE  IInv'
<1>1. CASE /\ ~ PastAll
           /\ gate' = [gate EXCEPT ![at.l] = "starting"]
           /\ at' = [at EXCEPT !.l = @ + 1]
           /\ UNCHANGED <<cfg, phase, why, store, policies, auth, failing, waiting, served>>
  <2>1. phase = "listen" /\ at.l \in DOMAIN cfg.listeners /\ at.l \in Gates
    BY <1>1, ConfigAssumption DEF StartListener, PastAll, ConfigAssumption, IInv, TypeOK
  <2>2. TypeOK'
    BY <1>1, <2>1 DEF IInv, TypeOK
  <2>3. Progress'
    BY <1>1, <2>1 DEF IInv, Progress, Building, Running, StoreOf, PoliciesOf
  <2>4. ValidatedBuilds'
    BY <1>1, <2>1 DEF ValidatedBuilds
  <2>5. QED
    BY <2>2, <2>3, <2>4 DEF IInv
<1>2. CASE PastAll /\ Enter("serve") /\ UNCHANGED <<store, policies, auth, listening>>
  <2>1. /\ phase = "listen" /\ phase' = "serve" /\ cfg' = cfg /\ at' = First
        /\ why' = why
    BY <1>2 DEF StartListener, Enter
  <2>2. TypeOK'
    BY <1>2, <2>1 DEF IInv, TypeOK, listening, Phases, First
  <2>3. Progress'
    BY <1>2, <2>1 DEF IInv, Progress, Building, Running, StoreOf, PoliciesOf
  <2>4. ValidatedBuilds'
    BY <2>1 DEF ValidatedBuilds
  <2>5. QED
    BY <2>2, <2>3, <2>4 DEF IInv
<1>3. QED
  BY <1>1, <1>2 DEF StartListener

(* The other goroutines and the environment touch nothing main has built.  *)
LEMMA ListeningStep ==
  ASSUME IInv, NEW g \in Gates,
         Listen(g) \/ Accept(g) \/ AcceptFails(g) \/ Recovers(g) \/ Connect(g)
  PROVE  IInv'
<1>1. UNCHANGED <<cfg, phase, why, at, store, policies, auth>>
  BY DEF Listen, Accept, AcceptFails, Recovers, Connect
<1>2. gate[g] = "none" => gate' = gate
  BY DEF Listen, Accept, AcceptFails, Recovers, Connect
<1>3. \A h \in Gates : gate[h] = "none" => gate'[h] = "none"
  BY <1>2 DEF IInv, TypeOK, Listen, Accept, AcceptFails, Recovers, Connect
<1>4. TypeOK'
  <2>1. gate' \in [Gates -> {"none", "starting", "listening"}]
    BY DEF IInv, TypeOK, Listen, Accept, AcceptFails, Recovers, Connect
  <2>2. failing' \in [Gates -> BOOLEAN] /\ waiting' \in [Gates -> BOOLEAN]
    BY DEF IInv, TypeOK, Listen, Accept, AcceptFails, Recovers, Connect
  <2>3. served' \subseteq Gates
    BY DEF IInv, TypeOK, Listen, Accept, AcceptFails, Recovers, Connect
  <2>4. QED
    BY <1>1, <1>3, <2>1, <2>2, <2>3 DEF IInv, TypeOK
<1>5. Progress'
  BY <1>1, <1>3 DEF IInv, Progress, StoreOf, PoliciesOf
<1>6. ValidatedBuilds'
  BY <1>1 DEF IInv, ValidatedBuilds
<1>7. QED
  BY <1>4, <1>5, <1>6 DEF IInv

LEMMA RestartStep ==
  ASSUME IInv, Restart
  PROVE  IInv'
<1>1. /\ cfg' \in Configs /\ phase = "dead" /\ phase' = "load"
      /\ UNCHANGED <<why, at, store, policies, auth, listening>>
  BY DEF Restart
<1>2. /\ at = First /\ store = <<>> /\ policies = <<>>
      /\ \A g \in Gates : gate[g] = "none"
  BY <1>1 DEF IInv, Progress, Running
<1>3. TypeOK'
  BY <1>1, <1>2 DEF IInv, TypeOK, listening, Phases
<1>4. Progress'
  BY <1>1, <1>2 DEF Progress, Building, Running, listening
<1>5. ValidatedBuilds'
  BY <1>1 DEF ValidatedBuilds
<1>6. QED
  BY <1>3, <1>4, <1>5 DEF IInv

LEMMA StutterStep ==
  ASSUME IInv, UNCHANGED vars
  PROVE  IInv'
<1>1. TypeOK'
  BY DEF vars, listening, IInv, TypeOK
<1>2. Progress'
  BY DEF vars, listening, IInv, Progress, StoreOf, PoliciesOf
<1>3. ValidatedBuilds'
  BY DEF vars, listening, IInv, ValidatedBuilds
<1>4. QED
  BY <1>1, <1>2, <1>3 DEF IInv

-----------------------------------------------------------------------------
(* Main keeps to its order: what each phase relies on has been established *)
(* before it is entered, whatever the listeners and clients do meanwhile.  *)
THEOREM Invariance == Spec => []IInv
<1>1. Init => IInv
  BY DEF Init, IInv, TypeOK, Progress, ValidatedBuilds, First, Phases, Reasons,
         Building, Running
<1>2. IInv /\ [Next]_vars => IInv'
  <2> SUFFICES ASSUME IInv, [Next]_vars PROVE IInv'
    OBVIOUS
  <2>1. CASE Main
    <3>1. CASE LoadFails
      BY <3>1, DiesStep DEF LoadFails, Reasons
    <3>2. CASE RefuseLegacy
      BY <3>2, DiesStep DEF RefuseLegacy, Reasons, Excuse
    <3>3. CASE AllAsleep
      BY <3>3, DiesStep DEF AllAsleep, Reasons
    <3>4. QED
      BY <2>1, <3>1, <3>2, <3>3, LoadStep, ValidateStep, BuildOneMemoryStep,
         NextListenerStep, StoreBuiltStep, NoPolicyHereStep, BuildPolicyStep,
         SetPoliciesStep, StartListenerStep DEF Main
  <2>2. CASE Kill
    BY <2>2, DiesStep DEF Kill, Reasons
  <2>3. ASSUME NEW g \in Gates, ListenFails(g)
        PROVE  IInv'
    BY <2>3, DiesStep DEF ListenFails, Reasons
  <2>4. CASE \E g \in Gates : Gate(g) \/ AcceptFails(g) \/ Recovers(g) \/ Connect(g)
    BY <2>3, <2>4, ListeningStep DEF Gate
  <2>5. QED
    BY <2>1, <2>2, <2>4, RestartStep, StutterStep DEF Next
<1>3. QED
  BY <1>1, <1>2, PTL DEF Spec

(* The state keeps its shape, and only configured listeners run            *)
(* (main.go:69-85).                                                        *)
THEOREM TypeSafety == Spec => []TypeOK
<1>1. IInv => TypeOK
  BY DEF IInv
<1>2. QED
  BY <1>1, Invariance, PTL

(* Main builds what the configuration says, of every configuration, before *)
(* it starts the first listener: one memory per definition, under its own  *)
(* id, and its rules under the same id (build_memory_store.go:34-53,       *)
(* build_authority_policies.go:36-77).                                     *)
THEOREM Configured == Spec => []ServesConfiguration
<1>1. IInv => ServesConfiguration
  <2> SUFFICES ASSUME IInv, Up PROVE ServesConfiguration
    BY DEF ServesConfiguration
  <2>1. StoreOf(cfg, Nested(cfg)) /\ PoliciesOf(cfg, Nested(cfg)) /\ auth = policies
    BY DEF IInv, Progress, Up, Running, Building
  <2>2. QED
    BY <2>1 DEF ServesConfiguration, StoreOf, PoliciesOf, WithPolicy
<1>2. QED
  BY <1>1, Invariance, PTL

(* Gateway's assumptions about memories and policies are facts about what  *)
(* main hands to the listeners (main.go:56-84).                            *)
THEOREM GatewayEstablished == Spec => []EstablishesGateway
<1>1. IInv => EstablishesGateway
  <2> SUFFICES ASSUME IInv, Up PROVE EstablishesGateway
    BY DEF EstablishesGateway
  <2>1. /\ StoreOf(cfg, Nested(cfg)) /\ PoliciesOf(cfg, Nested(cfg)) /\ auth = policies
        /\ cfg \in Configs /\ Valid(cfg)
    BY DEF IInv, TypeOK, Progress, Up, Running, Building
  <2>2. ASSUME NEW p \in Nested(cfg)
        PROVE  LET d == Def(cfg, p)
               IN  /\ d.unit \in UInt16 \ {0}
                   /\ cfg.listeners[p.l].port \in UInt16 \ {0}
                   /\ \A a \in Areas : d.areas[a] \in LayoutType
                   /\ d.seal = NoSeal \/ d.seal.address \in UInt16
                   /\ AreasOK(d) /\ SealOK(d)
                   /\ Len(d.policy.rules) \in Nat
                   /\ DOMAIN d.policy.rules = 1 .. Len(d.policy.rules)
    BY <2>1, NestedFacts DEF IsDefinition, StoreOf, MemoryBuilds, IdOf
  <2>3. DOMAIN store \subseteq [port : UInt16 \ {0}, unit : UInt16 \ {0}]
    BY <2>1, <2>2 DEF StoreOf, IdOf
  <2>4. ASSUME NEW m \in DOMAIN store, NEW a \in Areas
        PROVE  /\ store[m].layouts[a] \in LayoutType
               /\ Defined(store[m].layouts[a]) => ValidLayout(store[m].layouts[a])
    <3>1. PICK p \in Nested(cfg) : m = IdOf(cfg, p) /\ store[m] = Built(cfg, p)
      BY <2>1 DEF StoreOf
    <3>2. store[m].layouts[a] = IF Defined(Def(cfg, p).areas[a])
                                THEN Def(cfg, p).areas[a] ELSE Undefined
      BY <3>1 DEF Built
    <3>3. Undefined \in LayoutType /\ ~ Defined(Undefined)
      BY DEF Undefined, LayoutType, Defined, UInt16, Word
    <3>4. QED
      BY <2>2, <3>2, <3>3 DEF AreasOK
  <2>5. ASSUME NEW m \in DOMAIN store, store[m].seal # NoSeal
        PROVE  /\ store[m].seal.address \in UInt16
               /\ Contains(store[m].layouts["coils"], store[m].seal.address, 1)
    <3>1. PICK p \in Nested(cfg) : m = IdOf(cfg, p) /\ store[m] = Built(cfg, p)
      BY <2>1 DEF StoreOf
    <3>2. /\ store[m].seal = Def(cfg, p).seal
          /\ Def(cfg, p).seal.address \in UInt16
          /\ Defined(Def(cfg, p).areas["coils"])
          /\ Def(cfg, p).seal.address >= Def(cfg, p).areas["coils"].start
          /\ Def(cfg, p).seal.address <
               Def(cfg, p).areas["coils"].start + Def(cfg, p).areas["coils"].size
      BY <2>2, <2>5, <3>1 DEF Built, SealOK
    <3>3. "coils" \in Areas
      BY DEF Areas, BitAreas
    <3>4. /\ store[m].layouts["coils"] = Def(cfg, p).areas["coils"]
          /\ Def(cfg, p).areas["coils"] \in LayoutType
      BY <2>2, <3>1, <3>2, <3>3 DEF Built
    <3>5. PICK s \in UInt16, z \in UInt16 :
            Def(cfg, p).areas["coils"] = [start |-> s, size |-> z]
      BY <3>4 DEF LayoutType
    <3>6. PICK x \in UInt16 : x = Def(cfg, p).seal.address
      BY <3>2
    <3>7. x >= s /\ x < s + z
      BY <3>2, <3>5, <3>6
    <3>8. x + 1 <= s + z
      BY <3>7, UInt16IsNat
    <3>9. QED
      BY <3>2, <3>4, <3>5, <3>6, <3>7, <3>8 DEF Contains
  <2>6. DOMAIN auth \subseteq DOMAIN store
    BY <2>1 DEF StoreOf, PoliciesOf, WithPolicy
  <2>7. ASSUME NEW m \in DOMAIN auth
        PROVE  Len(auth[m]) \in Nat /\ DOMAIN auth[m] = 1 .. Len(auth[m])
    <3>1. PICK p \in Nested(cfg) : auth[m] = BuiltPolicy(Def(cfg, p))
      BY <2>1 DEF PoliciesOf, WithPolicy
    <3>2. PICK n \in Nat : DOMAIN Def(cfg, p).policy.rules = 1 .. n
      BY <2>2
    <3>3. PICK S : \A i \in 1 .. n : BuiltRule(Def(cfg, p).policy.rules[i]) \in S
      <4>1. \A i \in 1 .. n : BuiltRule(Def(cfg, p).policy.rules[i])
                              \in {BuiltRule(Def(cfg, p).policy.rules[j]) : j \in 1 .. n}
        OBVIOUS
      <4>2. QED
        BY <4>1
    <3>4. auth[m] \in [1 .. n -> S]
      BY <3>1, <3>2, <3>3 DEF BuiltPolicy
    <3>5. auth[m] \in Seq(S)
      BY <3>4
    <3>6. QED
      BY <3>5
  <2>8. QED
    BY <2>3, <2>4, <2>5, <2>6, <2>7 DEF EstablishesGateway
<1>2. QED
  BY <1>1, Invariance, PTL

(* What Validate lets through and a builder refuses is one of four things  *)
(* (build_memory_store.go:24, memory_id.go:18, rules.go:20,                *)
(* ipmatch.go:25).                                                         *)
THEOREM LateRefusals == Spec => []ValidatedBuilds
<1>1. IInv => ValidatedBuilds
  BY DEF IInv
<1>2. QED
  BY <1>1, Invariance, PTL

(* No memory is built that no request could name: each has a listener on   *)
(* its port and a unit id that fits a byte (validate.go:119-136).          *)
THEOREM Reachability == Spec => []EveryMemoryReachable
<1>1. IInv => EveryMemoryReachable
  <2> SUFFICES ASSUME IInv, AllListening, NEW m \in DOMAIN store
               PROVE  /\ m.unit \in 1 .. 255
                      /\ \E g \in DOMAIN cfg.listeners :
                           gate[g] = "listening" /\ cfg.listeners[g].port = m.port
    BY DEF EveryMemoryReachable
  <2>1. StoreOf(cfg, Nested(cfg)) /\ cfg \in Configs /\ Valid(cfg)
    BY DEF IInv, TypeOK, Progress, AllListening, Building
  <2>2. PICK p \in Nested(cfg) : m = IdOf(cfg, p) /\ MemoryBuilds(cfg, p)
    BY <2>1 DEF StoreOf
  <2>3. /\ p.l \in DOMAIN cfg.listeners /\ m.port = cfg.listeners[p.l].port
        /\ m.unit = Def(cfg, p).unit /\ m.unit # 0 /\ m.unit \in UInt16
    BY <2>1, <2>2, NestedFacts DEF IdOf, MemoryBuilds, IsDefinition
  <2>4. m.unit <= 255
    BY <2>1, <2>3 DEF Valid, DefinitionOK
  <2>5. m.unit \in 1 .. 255
    <3>1. PICK u \in UInt16 : u = m.unit
      BY <2>3
    <3>2. u # 0 /\ u <= 255
      BY <2>3, <2>4, <3>1
    <3>3. u \in 1 .. 255
      BY <3>1, <3>2, UInt16IsNat
    <3>4. QED
      BY <3>1, <3>3
  <2>6. QED
    BY <2>3, <2>5 DEF AllListening
<1>2. QED
  BY <1>1, Invariance, PTL
-----------------------------------------------------------------------------
(* Once all of them listen, a step of main can only be none.               *)
LEMMA ServingStep ==
  ASSUME IInv, AllListening, [Next]_vars
  PROVE  AllListening' \/ (phase' = "dead" /\ why' = "killed")
<1>1. /\ phase = "serve" /\ Up /\ cfg \in Configs
      /\ \A g \in Gates : gate[g] # "starting"
      /\ \A g \in DOMAIN cfg.listeners : g \in Gates /\ gate[g] = "listening"
      /\ gate \in [Gates -> {"none", "starting", "listening"}]
  <2>1. /\ cfg \in Configs /\ gate \in [Gates -> {"none", "starting", "listening"}]
        /\ \A g \in Gates \ DOMAIN cfg.listeners : gate[g] = "none"
    BY DEF IInv, TypeOK
  <2>2. QED
    BY <2>1, ConfigAssumption DEF ConfigAssumption, AllListening
<1>2. ~ Main
  BY <1>1 DEF Main, Load, LoadFails, Validate, RefuseLegacy, BuildOneMemory,
              NextListener, StoreBuilt, NoPolicyHere, BuildPolicy, SetPolicies,
              StartListener, AllAsleep
<1>3. CASE Kill
  BY <1>3 DEF Kill, Dies
<1>4. ~ Restart
  BY <1>1 DEF Restart
<1>5. ASSUME NEW g \in Gates, Gate(g) \/ AcceptFails(g) \/ Recovers(g) \/ Connect(g)
      PROVE  AllListening'
  <2>1. ~ Listen(g) /\ ~ ListenFails(g)
    BY <1>1 DEF Listen, ListenFails
  <2>2. UNCHANGED <<cfg, phase, gate>>
    BY <1>5, <2>1 DEF Gate, Accept, AcceptFails, Recovers, Connect
  <2>3. QED
    BY <2>2 DEF AllListening, Up
<1>6. CASE UNCHANGED vars
  BY <1>6 DEF vars, listening, AllListening, Up
<1>7. QED
  BY <1>2, <1>3, <1>4, <1>5, <1>6 DEF Next

(* Once there are listeners and all of them listen, main.go blocks for     *)
(* ever: of every configuration that has one, the startup is the only part *)
(* of a run that can fail.                                                 *)
THEOREM StaysUp == Spec => UpUntilKilled
<1>1. IInv /\ [Next]_vars =>
        [AllListening => AllListening' \/ (phase' = "dead" /\ why' = "killed")]_vars
  BY ServingStep
<1>2. QED
  BY <1>1, Invariance, PTL DEF Spec, UpUntilKilled

(* Every configuration has the port that docs/04_CONFIGURATION.md:66 asks  *)
(* for.                                                                    *)
SomeListener == \A c \in Configs : DOMAIN c.listeners # {}

(* The goroutines main has started are there still.                        *)
StartedRun ==
  /\ phase = "listen" => \A g \in DOMAIN cfg.listeners : g < at.l => gate[g] # "none"
  /\ phase = "serve" => \A g \in DOMAIN cfg.listeners : gate[g] # "none"

LEMMA StartListenerRuns ==
  ASSUME IInv, StartedRun, StartListener
  PROVE  StartedRun'
<1>1. /\ cfg \in Configs /\ DOMAIN cfg.listeners = 1 .. Len(cfg.listeners)
      /\ Len(cfg.listeners) \in Nat /\ DOMAIN cfg.listeners \subseteq Gates
      /\ at \in [l : Nat \ {0}, m : Nat \ {0}]
      /\ gate \in [Gates -> {"none", "starting", "listening"}]
      /\ phase = "listen"
  BY ConfigAssumption DEF ConfigAssumption, IInv, TypeOK, StartListener
<1>2. CASE /\ ~ PastAll
           /\ gate' = [gate EXCEPT ![at.l] = "starting"]
           /\ at' = [at EXCEPT !.l = @ + 1]
           /\ UNCHANGED <<cfg, phase, why, store, policies, auth, failing, waiting, served>>
  <2>1. at'.l = at.l + 1
    BY <1>1, <1>2
  <2>2. ASSUME NEW g \in DOMAIN cfg.listeners, g < at'.l
        PROVE  gate'[g] # "none"
    <3>1. g = at.l \/ g < at.l
      BY <1>1, <2>1, <2>2
    <3>2. QED
      BY <1>1, <1>2, <3>1 DEF StartedRun
  <2>3. QED
    BY <1>1, <1>2, <2>2 DEF StartedRun
<1>3. CASE PastAll /\ phase' = "serve" /\ UNCHANGED <<cfg, listening>>
  <2>1. \A g \in DOMAIN cfg.listeners : g < at.l
    BY <1>1, <1>3 DEF PastAll
  <2>2. QED
    BY <1>1, <1>3, <2>1 DEF StartedRun, listening
<1>4. QED
  BY <1>2, <1>3 DEF StartListener, Enter

LEMMA StartedStep ==
  ASSUME IInv, StartedRun, [Next]_vars
  PROVE  StartedRun'
<1>1. ASSUME NEW r, Dies(r)
      PROVE  StartedRun'
  BY <1>1 DEF Dies, StartedRun
<1>2. CASE Main
  <2>1. CASE StartListener
    BY <2>1, StartListenerRuns
  <2>2. CASE SetPolicies
    <3>1. phase' = "listen" /\ at'.l = 1 /\ cfg' = cfg /\ cfg \in Configs
      BY <2>2 DEF SetPolicies, Enter, First, IInv, TypeOK
    <3>2. DOMAIN cfg.listeners = 1 .. Len(cfg.listeners) /\ Len(cfg.listeners) \in Nat
      BY <3>1, ConfigAssumption DEF ConfigAssumption
    <3>3. \A g \in DOMAIN cfg.listeners : ~ g < 1
      BY <3>2
    <3>4. QED
      BY <3>1, <3>3 DEF StartedRun
  <2>3. CASE phase' \notin Running
    BY <2>3 DEF StartedRun, Running
  <2>4. QED
    BY <1>1, <1>2, <2>1, <2>2, <2>3
       DEF Main, Load, LoadFails, Validate, RefuseLegacy, BuildOneMemory,
           NextListener, StoreBuilt, NoPolicyHere, BuildPolicy, AllAsleep,
           Enter, NextDefinition, Running
<1>3. ASSUME NEW g \in Gates, Gate(g) \/ AcceptFails(g) \/ Recovers(g) \/ Connect(g)
      PROVE  StartedRun'
  <2>1. CASE ListenFails(g)
    BY <1>1, <2>1 DEF ListenFails
  <2>2. CASE Listen(g)
    BY <2>2, ConfigAssumption DEF ConfigAssumption, Listen, StartedRun, IInv, TypeOK
  <2>3. CASE Accept(g) \/ AcceptFails(g) \/ Recovers(g) \/ Connect(g)
    BY <2>3 DEF Accept, AcceptFails, Recovers, Connect, StartedRun
  <2>4. QED
    BY <1>3, <2>1, <2>2, <2>3 DEF Gate
<1>4. CASE Restart
  BY <1>4 DEF Restart, StartedRun
<1>5. CASE UNCHANGED vars
  BY <1>5 DEF vars, listening, StartedRun
<1>6. CASE Kill
  BY <1>1, <1>6 DEF Kill
<1>7. QED
  BY <1>2, <1>3, <1>4, <1>5, <1>6 DEF Next

(* With a listener, some goroutine besides main is there as long as main   *)
(* waits.                                                                  *)
LEMMA NeverAsleep ==
  ASSUME SomeListener, IInv, StartedRun
  PROVE  ~ AllAsleep
<1> SUFFICES ASSUME phase = "serve" PROVE Up
  BY DEF AllAsleep
<1>1. cfg \in Configs /\ DOMAIN cfg.listeners \subseteq Gates
  BY ConfigAssumption DEF ConfigAssumption, IInv, TypeOK
<1>2. PICK g \in DOMAIN cfg.listeners : TRUE
  BY <1>1 DEF SomeListener
<1>3. QED
  BY <1>1, <1>2 DEF StartedRun, Up

LEMMA ServeEnds ==
  ASSUME SomeListener, IInv, StartedRun, [Next]_vars, phase = "serve", phase' = "dead"
  PROVE  why' \in {"listen", "killed"}
<1>1. ~ Main
  BY NeverAsleep DEF Main, Load, LoadFails, Validate, RefuseLegacy, BuildOneMemory,
              NextListener, StoreBuilt, NoPolicyHere, BuildPolicy, SetPolicies,
              StartListener
<1>2. CASE Kill
  BY <1>2 DEF Kill, Dies
<1>3. ~ Restart /\ ~ UNCHANGED vars
  BY DEF Restart, vars
<1>4. ASSUME NEW g \in Gates, Gate(g) \/ AcceptFails(g) \/ Recovers(g) \/ Connect(g)
      PROVE  why' = "listen"
  BY <1>4 DEF Gate, Listen, ListenFails, Accept, AcceptFails, Recovers, Connect, Dies
<1>5. QED
  BY <1>1, <1>2, <1>3, <1>4 DEF Next

(* If every configuration has a listener, main blocks until a kill or a    *)
(* log.Fatalf: main.go:90 is right of such configurations.                 *)
THEOREM BlocksWithListeners ==
  ASSUME SomeListener
  PROVE  Spec => BlocksForever
<1>1. Init => StartedRun
  BY DEF Init, StartedRun
<1>2. IInv /\ StartedRun /\ [Next]_vars => StartedRun'
  BY StartedStep
<1>3. IInv /\ StartedRun /\ [Next]_vars =>
        [(phase = "serve" /\ phase' = "dead") => why' \in {"listen", "killed"}]_vars
  BY ServeEnds
<1>4. QED
  BY <1>1, <1>2, <1>3, Invariance, PTL DEF Spec, BlocksForever

(* No configuration has a second listener to wait for.                     *)
OneListener == \A c \in Configs : \A g, h \in DOMAIN c.listeners : g = h

(* Whoever has served a client is listening still, and main has yet to     *)
(* start the listeners from its loop variable on.                          *)
ServedListen ==
  /\ \A g \in served : gate[g] = "listening"
  /\ phase = "listen" => \A g \in Gates : g >= at.l => gate[g] = "none"

LEMMA StartListenerServed ==
  ASSUME IInv, ServedListen, StartListener
  PROVE  ServedListen'
<1>1. CASE /\ ~ PastAll
           /\ gate' = [gate EXCEPT ![at.l] = "starting"]
           /\ at' = [at EXCEPT !.l = @ + 1]
           /\ UNCHANGED <<cfg, phase, why, store, policies, auth, failing, waiting, served>>
  <2>1. /\ at.l \in Gates /\ Gates \subseteq Nat /\ phase = "listen"
        /\ served \subseteq Gates /\ at \in [l : Nat \ {0}, m : Nat \ {0}]
        /\ gate \in [Gates -> {"none", "starting", "listening"}]
    BY <1>1, ConfigAssumption DEF ConfigAssumption, StartListener, PastAll, IInv, TypeOK
  <2>2. gate[at.l] = "none" /\ at'.l = at.l + 1
    BY <1>1, <2>1 DEF ServedListen
  <2>3. \A g \in served : gate'[g] = "listening"
    BY <1>1, <2>1, <2>2 DEF ServedListen
  <2>4. ASSUME NEW g \in Gates, g >= at'.l
        PROVE  gate'[g] = "none"
    BY <1>1, <2>1, <2>2, <2>4 DEF ServedListen
  <2>5. QED
    BY <1>1, <2>3, <2>4 DEF ServedListen
<1>2. CASE phase' = "serve" /\ UNCHANGED listening
  BY <1>2 DEF listening, ServedListen
<1>3. QED
  BY <1>1, <1>2 DEF StartListener, Enter

LEMMA ServedStep ==
  ASSUME IInv, ServedListen, [Next]_vars
  PROVE  ServedListen'
<1>1. ASSUME NEW r, Dies(r)
      PROVE  ServedListen'
  BY <1>1 DEF Dies, ServedListen
<1>2. CASE Main
  <2>1. CASE StartListener
    BY <2>1, StartListenerServed
  <2>2. CASE phase \in Phases \ {"listen", "serve"} /\ UNCHANGED listening
    BY <2>2 DEF listening, ServedListen, IInv, Progress, Running
  <2>3. QED
    BY <1>1, <1>2, <2>1, <2>2
       DEF Main, Load, LoadFails, Validate, RefuseLegacy, BuildOneMemory,
           NextListener, StoreBuilt, NoPolicyHere, BuildPolicy, SetPolicies,
           AllAsleep, Phases
<1>3. ASSUME NEW g \in Gates, Gate(g) \/ AcceptFails(g) \/ Recovers(g) \/ Connect(g)
      PROVE  ServedListen'
  <2>1. CASE ListenFails(g)
    BY <1>1, <2>1 DEF ListenFails
  <2>2. CASE Listen(g) \/ Accept(g)
    BY <2>2 DEF Listen, Accept, ServedListen, IInv, TypeOK
  <2>3. CASE AcceptFails(g) \/ Recovers(g) \/ Connect(g)
    BY <2>3 DEF AcceptFails, Recovers, Connect, ServedListen
  <2>4. QED
    BY <1>3, <2>1, <2>2, <2>3 DEF Gate
<1>4. CASE Restart
  BY <1>4 DEF Restart, listening, ServedListen
<1>5. CASE UNCHANGED vars
  BY <1>5 DEF vars, listening, ServedListen
<1>6. CASE Kill
  BY <1>1, <1>6 DEF Kill
<1>7. QED
  BY <1>2, <1>3, <1>4, <1>5, <1>6 DEF Next

(* A failing listener has served nobody itself, and with one per           *)
(* configuration there is no other (docs/07_FAILURE_MODEL.md:68).          *)
LEMMA ListenFailsUnserved ==
  ASSUME OneListener, IInv, ServedListen, [Next]_vars,
         phase # "dead", phase' = "dead", why' = "listen"
  PROVE  served = {}
<1>1. PICK g \in Gates : ListenFails(g)
  <2>1. ~ Main
    BY DEF Main, Load, LoadFails, Validate, RefuseLegacy, BuildOneMemory,
           NextListener, StoreBuilt, NoPolicyHere, BuildPolicy, SetPolicies,
           StartListener, AllAsleep, Dies, Enter, NextDefinition
  <2>2. ~ Kill /\ ~ Restart /\ ~ UNCHANGED vars
    BY DEF Kill, Restart, Dies, vars
  <2>3. PICK g \in Gates : Gate(g) \/ AcceptFails(g) \/ Recovers(g) \/ Connect(g)
    BY <2>1, <2>2 DEF Next
  <2>4. QED
    BY <2>3 DEF Gate, Listen, Accept, AcceptFails, Recovers, Connect
<1>2. gate[g] = "starting"
  BY <1>1 DEF ListenFails
<1>3. ASSUME NEW h \in served
      PROVE  FALSE
  <2>1. gate[h] = "listening" /\ h \in Gates
    BY DEF ServedListen, IInv, TypeOK
  <2>2. cfg \in Configs /\ g \in DOMAIN cfg.listeners /\ h \in DOMAIN cfg.listeners
    BY <1>2, <2>1 DEF IInv, TypeOK
  <2>3. g = h
    BY <2>2 DEF OneListener
  <2>4. QED
    BY <1>2, <2>1, <2>3
<1>4. QED
  BY <1>3

(* docs/07_FAILURE_MODEL.md:68 is true of the configurations with at most  *)
(* one listener, whatever their definitions.                               *)
THEOREM NoPartialOperationAlone ==
  ASSUME OneListener
  PROVE  Spec => NoPartialOperation
<1>1. Init => ServedListen
  BY DEF Init, ServedListen
<1>2. IInv /\ ServedListen /\ [Next]_vars => ServedListen'
  BY ServedStep
<1>3. IInv /\ ServedListen /\ [Next]_vars =>
        [(phase # "dead" /\ phase' = "dead" /\ why' = "listen") => served = {}]_vars
  BY ListenFailsUnserved
<1>4. QED
  BY <1>1, <1>2, <1>3, Invariance, PTL DEF Spec, NoPartialOperation
=============================================================================
