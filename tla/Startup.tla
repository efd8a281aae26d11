------------------------------ MODULE Startup ------------------------------
(***************************************************************************)
(* The process from its start to its end: main loads and validates a       *)
(* configuration, builds the memories and the policies definition by       *)
(* definition, then starts one goroutine per listener and blocks.  Every   *)
(* error before that, and every listener that cannot listen, ends the      *)
(* process with log.Fatalf, whatever the other goroutines are doing.       *)
(*                                                                         *)
(* Gateway models what follows once a connection is handed over; what it   *)
(* assumes of its memories and policies is what is established here.       *)
(***************************************************************************)
EXTENDS MemoryOps, Sequences

CONSTANTS
  Configs, \* what the configuration file may decode to
  Gates    \* the indices of listeners

(* nil pointers of the configuration.                                      *)
NoSeal   == [area |-> "nil", address |-> 0]
NoPolicy == [given |-> FALSE, rules |-> <<>>]

(* An entry of a rule's source_ip: blank, a CIDR, an address, an address   *)
(* whose zone contains a slash ("fe80::1%eth0/64"), or neither.  A CIDR or *)
(* an address stands for the set of sources it contains.                   *)
IsItem(i) == i.kind \in {"blank", "cidr", "address", "zoned", "bad"}

(* What the parsers of net/netip take: a prefix has no zone, the zone of   *)
(* an address is whatever follows the percent sign.                        *)
ParsesPrefix(i) == i.kind = "cidr"
ParsesAddr(i)   == i.kind \in {"address", "zoned"}

IsRule(r) == (\A i \in r.items : IsItem(i)) /\ r.fcs \subseteq 0 .. 255

IsDefinition(d) ==
  /\ d.port \in UInt16 /\ d.unit \in UInt16
  /\ \A a \in Areas : d.areas[a] \in LayoutType
  /\ d.seal = NoSeal \/ d.seal.address \in UInt16
  /\ d.policy = NoPolicy \/ d.policy.given
  /\ Len(d.policy.rules) \in Nat
  /\ DOMAIN d.policy.rules = 1 .. Len(d.policy.rules)
  /\ \A i \in DOMAIN d.policy.rules : IsRule(d.policy.rules[i])

(* A listener's address: host "" is a blank string, port 0 one that        *)
(* parseListenPort refuses (net.Listen may still take it, as a name).      *)
IsListener(l) ==
  /\ l.port \in UInt16
  /\ Len(l.memory) \in Nat /\ DOMAIN l.memory = 1 .. Len(l.memory)
  /\ \A m \in DOMAIN l.memory : IsDefinition(l.memory[m])

ASSUME ConfigAssumption ==
  /\ Gates \subseteq Nat
  /\ \A c \in Configs :
       /\ Len(c.listeners) \in Nat
       /\ DOMAIN c.listeners = 1 .. Len(c.listeners)
       /\ DOMAIN c.listeners \subseteq Gates
       /\ \A g \in DOMAIN c.listeners : IsListener(c.listeners[g])
       /\ \A i \in DOMAIN c.legacy : IsDefinition(c.legacy[i])

VARIABLES
  cfg,      \* the configuration
  phase,    \* how far main has come, or "dead"
  why,      \* history: what ended the process last
  at,       \* main's loop variables: a listener and one of its definitions
  store,    \* the memories built so far, by MemoryID
  policies, \* the policies built so far, by MemoryID
  auth,     \* the policies given to the authority
  gate,     \* each listener's goroutine
  failing,  \* Accept of this listener returns errors
  waiting,  \* a client waits in the listener's queue
  served    \* history: listeners that handed a client to a handler

listening == <<gate, failing, waiting, served>>
vars == <<cfg, phase, why, at, store, policies, auth, listening>>

Phases  == {"load", "validate", "store", "policies", "listen", "serve", "dead"}
Reasons == {"none", "load", "validate", "store", "policies", "listen", "asleep",
            "killed"}

First == [l |-> 1, m |-> 1]

(* A listener's goroutine has been started.                                *)
Up == \E g \in Gates : gate[g] # "none"
-----------------------------------------------------------------------------
(*--------------------------- config.Validate -----------------------------*)
ParsesPort(l) == l.port # 0

ListenersOK(c) == \A g \in DOMAIN c.listeners :
  LET l == c.listeners[g]
  IN  /\ l.id # "" /\ l.host # ""
      /\ \A h \in DOMAIN c.listeners : c.listeners[h].id = l.id => h = g
      /\ l.memory # <<>> => ParsesPort(l)

(* A bug the runs must notice: the end of the coils is still allowed.      *)
SealOKAtEnd(d) ==
  d.seal = NoSeal \/
    /\ d.seal.area = "coil" /\ Defined(d.areas["coils"])
    /\ d.seal.address >= d.areas["coils"].start
    /\ d.seal.address <= d.areas["coils"].start + d.areas["coils"].size

(* Checked by Validate, and again when the memory is built.                *)
SealOK(d) ==
  d.seal = NoSeal \/
    /\ d.seal.area = "coil" /\ Defined(d.areas["coils"])
    /\ d.seal.address >= d.areas["coils"].start
    /\ d.seal.address < d.areas["coils"].start + d.areas["coils"].size

AreasOK(d) == \A a \in Areas : Defined(d.areas[a]) => ValidLayout(d.areas[a])

(* A rule needs no id here, and an entry is what either parser takes.      *)
RulesOK(d) == \A i \in DOMAIN d.policy.rules :
  LET r == d.policy.rules[i]
  IN  /\ 0 \notin r.fcs
      /\ \A s \in r.items : s.kind = "blank" \/ ParsesPrefix(s) \/ ParsesAddr(s)

(* Unit 0 is let through.  Two bugs the runs must notice: a check left to  *)
(* the builders, and a unit id that no Modbus request can carry.           *)
DefinitionOKUnsealed(d) == d.unit <= 255 /\ AreasOK(d) /\ RulesOK(d)

DefinitionOKAnyUnit(d) == AreasOK(d) /\ SealOK(d) /\ RulesOK(d)

DefinitionOK(d) == d.unit <= 255 /\ AreasOK(d) /\ SealOK(d) /\ RulesOK(d)

(* The nested definitions, in the order of the loops.                      *)
Positions(c) == {[l |-> g, m |-> i] : g \in DOMAIN c.listeners,
                                      i \in UNION {DOMAIN c.listeners[h].memory :
                                                     h \in DOMAIN c.listeners}}
Nested(c) == {p \in Positions(c) : p.m \in DOMAIN c.listeners[p.l].memory}

Def(c, p) == c.listeners[p.l].memory[p.m]

(* The identity of a nested memory: its own port field is not looked at.   *)
IdOf(c, p) == [port |-> c.listeners[p.l].port, unit |-> Def(c, p).unit]

(* A bug the runs must notice: identities compared within a listener only. *)
IdentitiesOKPerListener(c) == \A p \in Nested(c), q \in Nested(c) :
  (p.l = q.l /\ IdOf(c, p) = IdOf(c, q)) => p = q

IdentitiesOK(c) == \A p \in Nested(c), q \in Nested(c) :
  IdOf(c, p) = IdOf(c, q) => p = q

LegacyId(d) == [port |-> d.port, unit |-> d.unit]

LegacyOK(c) == \A i \in DOMAIN c.legacy :
  /\ c.legacy[i].port # 0 /\ DefinitionOK(c.legacy[i])
  /\ \A j \in DOMAIN c.legacy : LegacyId(c.legacy[j]) = LegacyId(c.legacy[i]) => j = i
  /\ \A p \in Nested(c) : IdOf(c, p) # LegacyId(c.legacy[i])

Valid(c) ==
  /\ ListenersOK(c) /\ LegacyOK(c)
  /\ \A p \in Nested(c) : DefinitionOK(Def(c, p))
  /\ IdentitiesOK(c)

(*------------------------------ the builders -----------------------------*)
(* buildOneMemory: NewMemory, the seal, and MemoryID.Validate in Store.Add.*)
MemoryBuilds(c, p) ==
  /\ AreasOK(Def(c, p)) /\ SealOK(Def(c, p))
  /\ IdOf(c, p).port # 0 /\ IdOf(c, p).unit # 0

Built(c, p) ==
  [from    |-> p,
   layouts |-> [a \in Areas |-> IF Defined(Def(c, p).areas[a])
                                THEN Def(c, p).areas[a] ELSE Undefined],
   seal    |-> Def(c, p).seal]

(* NewIPMatcher: a slash decides which of the parsers an entry is for.  (A *)
(* bad entry may have one or not: neither parser takes it.)                *)
HasSlash(i) == i.kind \in {"cidr", "zoned"}

ItemBuilds(i) == \/ i.kind = "blank"
                 \/ HasSlash(i) /\ ParsesPrefix(i)
                 \/ ~ HasSlash(i) /\ ParsesAddr(i)

(* authority.NewRule.  Blank entries match nobody.                         *)
RuleBuilds(r) == r.id # "" /\ \A i \in r.items : ItemBuilds(i)

BuiltRule(r) ==
  [sources |-> UNION {i.sources : i \in {j \in r.items : j.kind # "blank"}},
   fcs     |-> r.fcs]

BuiltPolicy(d) ==
  [i \in DOMAIN d.policy.rules |-> BuiltRule(d.policy.rules[i])]

(* f with k mapped to v, whether k was there before or not.                *)
With(f, k, v) == [x \in DOMAIN f \cup {k} |-> IF x = k THEN v ELSE f[x]]
-----------------------------------------------------------------------------
Init ==
  /\ cfg \in Configs
  /\ phase = "load" /\ why = "none" /\ at = First
  /\ store = <<>> /\ policies = <<>> /\ auth = <<>>
  /\ gate    = [g \in Gates |-> "none"]
  /\ failing = [g \in Gates |-> FALSE]
  /\ waiting = [g \in Gates |-> FALSE]
  /\ served  = {}

(* log.Fatalf and a signal alike: all goroutines end, all is lost.         *)
Dies(reason) ==
  /\ phase' = "dead" /\ why' = reason /\ at' = First
  /\ store' = <<>> /\ policies' = <<>> /\ auth' = <<>>
  /\ gate'    = [g \in Gates |-> "none"]
  /\ failing' = [g \in Gates |-> FALSE]
  /\ waiting' = [g \in Gates |-> FALSE]
  /\ served'  = {}
  /\ UNCHANGED cfg

(* main goes on to p, with the loop variables at the start.                *)
Enter(p) == phase' = p /\ at' = First /\ UNCHANGED <<cfg, why>>

(*---------------------------------- main ---------------------------------*)
Load ==
  /\ phase = "load"
  /\ Enter("validate")
  /\ UNCHANGED <<store, policies, auth, listening>>

(* The file cannot be read or is not YAML.                                 *)
LoadFails == phase = "load" /\ Dies("load")

Validate ==
  /\ phase = "validate"
  /\ \/ /\ Valid(cfg)
        /\ Enter("store")
        /\ UNCHANGED <<store, policies, auth, listening>>
     \/ ~ Valid(cfg) /\ Dies("validate")

(* Definitions are left on this listener; on none.                         *)
AtDefinition == at.l \in DOMAIN cfg.listeners
                  /\ at.m \in DOMAIN cfg.listeners[at.l].memory
PastListener == at.l \in DOMAIN cfg.listeners
                  /\ at.m \notin DOMAIN cfg.listeners[at.l].memory
PastAll      == at.l \notin DOMAIN cfg.listeners

(* Both builders: the next listener's definitions.                         *)
NextListener ==
  /\ phase \in {"store", "policies"} /\ PastListener
  /\ phase = "store" => cfg.legacy = <<>>
  /\ at' = [l |-> at.l + 1, m |-> 1]
  /\ UNCHANGED <<cfg, phase, why, store, policies, auth, listening>>

NextDefinition == at' = [at EXCEPT !.m = @ + 1] /\ UNCHANGED <<cfg, phase, why>>

(* BuildMemoryStore: legacy memories are refused here, not by Validate.    *)
RefuseLegacy ==
  /\ phase = "store" /\ cfg.legacy # <<>>
  /\ Dies("store")

(* Store.Add replaces what has the same id.                                *)
BuildOneMemory ==
  /\ phase = "store" /\ cfg.legacy = <<>> /\ AtDefinition
  /\ \/ /\ MemoryBuilds(cfg, at)
        /\ store' = With(store, IdOf(cfg, at), Built(cfg, at))
        /\ NextDefinition
        /\ UNCHANGED <<policies, auth, listening>>
     \/ ~ MemoryBuilds(cfg, at) /\ Dies("store")

StoreBuilt ==
  /\ phase = "store" /\ cfg.legacy = <<>> /\ PastAll
  /\ Enter("policies")
  /\ UNCHANGED <<store, policies, auth, listening>>

(* BuildAuthorityPolicies.  Its legacy loop has nothing to do any more.    *)
NoPolicyHere ==
  /\ phase = "policies" /\ AtDefinition /\ ~ Def(cfg, at).policy.given
  /\ NextDefinition
  /\ UNCHANGED <<store, policies, auth, listening>>

PolicyBuilds ==
  /\ IdOf(cfg, at) \notin DOMAIN policies
  /\ \A i \in DOMAIN Def(cfg, at).policy.rules :
       RuleBuilds(Def(cfg, at).policy.rules[i])

BuildPolicy ==
  /\ phase = "policies" /\ AtDefinition /\ Def(cfg, at).policy.given
  /\ \/ /\ PolicyBuilds
        /\ policies' = With(policies, IdOf(cfg, at), BuiltPolicy(Def(cfg, at)))
        /\ NextDefinition
        /\ UNCHANGED <<store, auth, listening>>
     \/ ~ PolicyBuilds /\ Dies("policies")

(* The loop of SetMemoryPolicy.                                            *)
SetPolicies ==
  /\ phase = "policies" /\ PastAll
  /\ auth' = policies
  /\ Enter("listen")
  /\ UNCHANGED <<store, policies, listening>>

(* A bug the runs must notice: one goroutine too many.                     *)
StartListenerPastEnd ==
  /\ phase = "listen"
  /\ \/ /\ at.l \in 1 .. (Len(cfg.listeners) + 1)
        /\ gate' = [g \in Gates \cup {at.l} |-> IF g = at.l THEN "starting" ELSE gate[g]]
        /\ at' = [at EXCEPT !.l = @ + 1]
        /\ UNCHANGED <<cfg, phase, why, store, policies, auth, failing, waiting, served>>
     \/ /\ PastAll
        /\ Enter("serve")
        /\ UNCHANGED <<store, policies, auth, listening>>

(* go g.ListenAndServe for each listener.                                  *)
StartListener ==
  /\ phase = "listen"
  /\ \/ /\ ~ PastAll
        /\ gate' = [gate EXCEPT ![at.l] = "starting"]
        /\ at' = [at EXCEPT !.l = @ + 1]
        /\ UNCHANGED <<cfg, phase, why, store, policies, auth, failing, waiting, served>>
     \/ /\ PastAll
        /\ Enter("serve")
        /\ UNCHANGED <<store, policies, auth, listening>>

(* The select{} of main blocks for ever, unless no goroutine is left: then *)
(* the runtime ends the process ("all goroutines are asleep - deadlock!"). *)
AllAsleep == phase = "serve" /\ ~ Up /\ Dies("asleep")

Main == Load \/ LoadFails \/ Validate \/ RefuseLegacy \/ BuildOneMemory
          \/ NextListener \/ StoreBuilt \/ NoPolicyHere \/ BuildPolicy
          \/ SetPolicies \/ StartListener \/ AllAsleep

(*------------------------ Listener.ListenAndServe ------------------------*)
(* Two sockets on one port, of which one is for all addresses or both for  *)
(* the same (the kernel's rule).                                           *)
Conflict(g, h) ==
  LET l == cfg.listeners[g]  k == cfg.listeners[h]
  IN  l.port # 0 /\ l.port = k.port /\ (l.host = k.host \/ "*" \in {l.host, k.host})

Listen(g) ==
  /\ gate[g] = "starting"
  /\ \A h \in DOMAIN cfg.listeners : gate[h] = "listening" => ~ Conflict(g, h)
  /\ gate' = [gate EXCEPT ![g] = "listening"]
  /\ UNCHANGED <<cfg, phase, why, at, store, policies, auth, failing, waiting, served>>

(* A bug the runs must notice: the goroutine ends and nobody knows.        *)
ListenFailsQuietly(g) ==
  /\ gate[g] = "starting"
  /\ gate' = [gate EXCEPT ![g] = "none"]
  /\ UNCHANGED <<cfg, phase, why, at, store, policies, auth, failing, waiting, served>>

(* For one of those, or for a reason of the system's own.                  *)
ListenFails(g) == gate[g] = "starting" /\ Dies("listen")

Accept(g) ==
  /\ gate[g] = "listening" /\ waiting[g] /\ ~ failing[g]
  /\ waiting' = [waiting EXCEPT ![g] = FALSE]
  /\ served'  = served \cup {g}
  /\ UNCHANGED <<cfg, phase, why, at, store, policies, auth, gate, failing>>

(* A bug the runs must notice: an error ends the loop.                     *)
AcceptFailsOnce(g) ==
  /\ gate[g] = "listening" /\ ~ failing[g]
  /\ failing' = [failing EXCEPT ![g] = TRUE]
  /\ gate'    = [gate EXCEPT ![g] = "none"]
  /\ UNCHANGED <<cfg, phase, why, at, store, policies, auth, waiting, served>>

(* Another: main is told of the error, and ends the process.               *)
AcceptFailsFatally(g) == gate[g] = "listening" /\ ~ failing[g] /\ Dies("listen")

(* An error of Accept: the loop calls it again, which fails for as long as *)
(* whatever is missing (descriptors, say) is missing.                      *)
AcceptFails(g) ==
  /\ gate[g] = "listening" /\ ~ failing[g]
  /\ failing' = [failing EXCEPT ![g] = TRUE]
  /\ UNCHANGED <<cfg, phase, why, at, store, policies, auth, gate, waiting, served>>

Gate(g) == Listen(g) \/ ListenFails(g) \/ Accept(g)

(*----------------------------- the environment ---------------------------*)
Recovers(g) ==
  /\ failing[g]
  /\ failing' = [failing EXCEPT ![g] = FALSE]
  /\ UNCHANGED <<cfg, phase, why, at, store, policies, auth, gate, waiting, served>>

Connect(g) ==
  /\ gate[g] = "listening" /\ ~ waiting[g]
  /\ waiting' = [waiting EXCEPT ![g] = TRUE]
  /\ UNCHANGED <<cfg, phase, why, at, store, policies, auth, gate, failing, served>>

Kill == phase # "dead" /\ Dies("killed")

(* The process is started again, with any configuration.                   *)
Restart ==
  /\ phase = "dead"
  /\ cfg' \in Configs
  /\ phase' = "load"
  /\ UNCHANGED <<why, at, store, policies, auth, listening>>

Next == \/ Main \/ Kill \/ Restart
        \/ \E g \in Gates : Gate(g) \/ AcceptFails(g) \/ Recovers(g) \/ Connect(g)

Spec == Init /\ [][Next]_vars

(* Every goroutine is scheduled.  Nobody need connect, nor restart it.     *)
FairSpec == Spec /\ WF_vars(Main) /\ \A g \in Gates : WF_vars(Gate(g))
-----------------------------------------------------------------------------
TypeOK ==
  /\ cfg \in Configs /\ phase \in Phases /\ why \in Reasons
  /\ at \in [l : Nat \ {0}, m : Nat \ {0}]
  /\ gate \in [Gates -> {"none", "starting", "listening"}]
  /\ failing \in [Gates -> BOOLEAN] /\ waiting \in [Gates -> BOOLEAN]
  /\ served \subseteq Gates
  /\ \A g \in Gates \ DOMAIN cfg.listeners : gate[g] = "none"

(* Before the first listener starts, every definition has a memory of its  *)
(* own, made from it and from no other, with its rules and nobody else's:  *)
(* no two definitions share an id, which Store.Add would not notice, and   *)
(* no policy is lost or left to a memory without one (main.go:42-66).      *)
ServesConfiguration == Up =>
  /\ DOMAIN store = {IdOf(cfg, p) : p \in Nested(cfg)}
  /\ \A p \in Nested(cfg) : store[IdOf(cfg, p)] = Built(cfg, p)
  /\ DOMAIN auth = {IdOf(cfg, p) : p \in {q \in Nested(cfg) : Def(cfg, q).policy.given}}
  /\ \A p \in Nested(cfg) : Def(cfg, p).policy.given =>
       auth[IdOf(cfg, p)] = BuiltPolicy(Def(cfg, p))

(* What Gateway assumes of its memories and policies holds of what was     *)
(* built: layouts are valid, a sealing flag is a coil that exists, and     *)
(* policies are for memories that exist.                                   *)
EstablishesGateway == Up =>
  /\ DOMAIN store \subseteq [port : UInt16 \ {0}, unit : UInt16 \ {0}]
  /\ \A m \in DOMAIN store :
       /\ \A a \in Areas :
            /\ store[m].layouts[a] \in LayoutType
            /\ Defined(store[m].layouts[a]) => ValidLayout(store[m].layouts[a])
       /\ store[m].seal # NoSeal =>
            /\ store[m].seal.address \in UInt16
            /\ Contains(store[m].layouts["coils"], store[m].seal.address, 1)
  /\ DOMAIN auth \subseteq DOMAIN store
  /\ \A m \in DOMAIN auth : Len(auth[m]) \in Nat
                              /\ DOMAIN auth[m] = 1 .. Len(auth[m])

(* A configuration that Validate accepts and a builder refuses has legacy  *)
(* memories, a unit 0, a rule without an id, or an address whose zone      *)
(* contains a slash, which validate.go:280 takes for an address and        *)
(* ipmatch.go:25 for a CIDR: what else the builders check of layouts,      *)
(* seals, ports, entries and duplicates, Validate has ruled out.           *)
ValidatedBuilds == why \in {"store", "policies"} /\ phase = "dead" =>
  \/ cfg.legacy # <<>>
  \/ \E p \in Nested(cfg) :
       \/ Def(cfg, p).unit = 0
       \/ \E i \in DOMAIN Def(cfg, p).policy.rules :
            \/ Def(cfg, p).policy.rules[i].id = ""
            \/ \E s \in Def(cfg, p).policy.rules[i].items : s.kind = "zoned"

(* There is a listener, and each of them listens.                          *)
AllListening == /\ phase = "serve" /\ Up
                /\ \A g \in DOMAIN cfg.listeners : gate[g] = "listening"

(* When every listener listens, each memory can be asked for: some of them *)
(* listens on its port, and its unit id fits the byte of a Modbus request  *)
(* (parser.go:21).                                                         *)
EveryMemoryReachable == AllListening => \A m \in DOMAIN store :
  /\ m.unit \in 1 .. 255
  /\ \E g \in DOMAIN cfg.listeners : gate[g] = "listening" /\ cfg.listeners[g].port = m.port

(* Once there is a listener and every one listens, each goes on to until   *)
(* the process is killed: from there on no path leads to the log.Fatalf of *)
(* main.go:82 or leaves the select{} of :93 alone, whatever Accept returns *)
(* (listener.go:45-48) and whoever connects.                               *)
UpUntilKilled == [][
  AllListening => AllListening' \/ (phase' = "dead" /\ why' = "killed")]_vars

(* Startup ends: with listeners, all listening, or with no process at all, *)
(* as it does when there is none (main.go:68-93).                          *)
StartsOrDies == phase = "listen" ~> (AllListening \/ phase = "dead")

(* A listener survives errors of Accept: once they stop, whoever waits is  *)
(* handed to a handler (listener.go:45-48).                                *)
AcceptsAgain == \A g \in Gates :
  <>[](~ failing[g]) => (waiting[g] ~> ~ waiting[g])

(* "Startup must not degrade into partial operation"                       *)
(* (docs/07_FAILURE_MODEL.md:68): a startup that fails because a port      *)
(* cannot be bound has served nobody.                                      *)
NoPartialOperation == [][
  (phase # "dead" /\ phase' = "dead" /\ why' = "listen") => served = {}]_vars

(* "Block forever" (main.go:90): a process that has started its listeners  *)
(* ends by a kill or by a listener that cannot listen.                     *)
BlocksForever == [][
  (phase = "serve" /\ phase' = "dead") => why' \in {"listen", "killed"}]_vars
=============================================================================
