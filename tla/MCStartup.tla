----------------------------- MODULE MCStartup -----------------------------
(* Configurations for TLC: good ones, and one for each check.              *)
EXTENDS Startup

Area(start, size) == [start |-> start, size |-> size]
Only(area, l) == [a \in Areas |-> IF a = area THEN l ELSE Undefined]
Coils == Only("coils", Area(0, 8))

Prefix(sources)  == [kind |-> "cidr", sources |-> sources]
Address(sources) == [kind |-> "address", sources |-> sources]
Zoned == [kind |-> "zoned", sources |-> {}]
Blank == [kind |-> "blank", sources |-> {}]
Bad   == [kind |-> "bad", sources |-> {}]
Rule(id, items, fcs) == [id |-> id, items |-> items, fcs |-> fcs]
Rules(r) == [given |-> TRUE, rules |-> <<r, Rule("rest", {Address({"plc"})}, {3})>>]
Reads == Rules(Rule("reads", {Prefix({"viewer"}), Blank}, {3, 4}))

Memory(unit) == [port |-> 0, unit |-> unit, areas |-> Coils, seal |-> NoSeal,
                 policy |-> NoPolicy]
Sealed(unit) == [Memory(unit) EXCEPT !.seal = [area |-> "coil", address |-> 7],
                                     !.policy = Reads]

Gate2(id, host, port, memory) ==
  [id |-> id, host |-> host, port |-> port, memory |-> memory]
One(memory)    == <<Gate2("a", "*", 502, memory)>>
Config(ls)     == [listeners |-> ls, legacy |-> <<>>]
Single(def)    == Config(One(<<def>>))
Legacy(def)    == [listeners |-> One(<<Memory(1)>>), legacy |-> <<def>>]

(* Two ports with one unit id, two addresses of one port, a port that is   *)
(* taken already, listeners without memories, no listener at all.          *)
Good == {
  Config(<<Gate2("a", "*", 502, <<Sealed(1), Memory(2)>>), Gate2("b", "*", 503, <<Sealed(1)>>)>>),
  Config(<<Gate2("a", "eth0", 502, <<Memory(1)>>), Gate2("b", "lo", 502, <<Sealed(2)>>)>>),
  Config(<<Gate2("a", "*", 502, <<Memory(1)>>), Gate2("b", "lo", 502, <<Sealed(2)>>)>>),
  Config(<<Gate2("a", "*", 0, <<>>), Gate2("b", "lo", 502, <<[Memory(255) EXCEPT !.port = 503]>>)>>),
  Config(<<>>)}

(* Refused by Validate: identities, listeners, areas, seals, rules.        *)
Refused == {
  Config(<<Gate2("a", "eth0", 502, <<Memory(1)>>), Gate2("b", "lo", 502, <<Memory(1)>>)>>),
  Single([Memory(1) EXCEPT !.unit = 256]),
  Single([Memory(1) EXCEPT !.areas = Only("coils", Area(65535, 2))]),
  Single([Sealed(1) EXCEPT !.seal.address = 8]),
  Single([Sealed(1) EXCEPT !.seal.area = "discrete_inputs"]),
  Single([Sealed(1) EXCEPT !.areas = Only("input_registers", Area(0, 8))]),
  Single([Memory(1) EXCEPT !.policy = Rules(Rule("bad", {Bad}, {3}))]),
  Single([Memory(1) EXCEPT !.policy = Rules(Rule("zero", {}, {0}))]),
  Config(<<Gate2("a", "*", 502, <<>>), Gate2("a", "*", 503, <<>>)>>),
  Config(<<Gate2("", "*", 502, <<>>)>>),
  Config(<<Gate2("a", "", 502, <<>>)>>),
  Config(<<Gate2("a", "*", 0, <<Memory(1)>>)>>),
  Legacy([Memory(1) EXCEPT !.port = 502]),
  Legacy(Memory(9))}

(* Accepted by Validate and refused by a builder.                          *)
RefusedLater == {
  Legacy([Memory(9) EXCEPT !.port = 502]),
  Single(Memory(0)),
  Single([Memory(1) EXCEPT !.policy = Rules(Rule("", {}, {3}))]),
  Single([Memory(1) EXCEPT !.policy = Rules(Rule("zone", {Zoned}, {3}))])}

AllConfigs == Good \cup Refused \cup RefusedLater
TwoGates   == {1, 2}
=============================================================================
