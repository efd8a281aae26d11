# MMA2 in TLA+

MMA2 is a Modbus memory appliance: a process that holds named register and coil
memories, lets *raw ingest* clients write them and *Modbus TCP* clients read
and, where rules allow it, write them.  These modules model the program of
`src/cmd/mma2` and `src/internal`: `Startup` the process until its listeners
listen, `Gateway` its connections, `MemoryCore` one memory under its lock, and
`Wire` the bytes of one connection.  TLC checks them on small instances, and
TLAPS proves the safety theorems for every instance.

## The system

| Component | Source (`src/internal/...`) | State | Operations | Talks to |
|---|---|---|---|---|
| Memory | `memorycore/memory.go`, `bits.go`, `layout.go`, `area.go` | four optional areas, each a layout and a backing slice (bits packed, LSB first); one `sync.RWMutex` | `ReadBits WriteBits ReadRegs WriteRegs` | called by both transports and by the sealing check |
| Store | `memorycore/store.go`, `memory_id.go` | map from (port, unit) to memory | `Add` (startup), `Get`, `MustGet` | transports |
| State sealing | `memorycore/state_sealing.go`, `transport/modbus/handle_conn.go` | the address of a flag *coil of the memory itself* | checked before each Modbus request | Modbus handler reads it, anyone may write it |
| Authority | `authority/` | rules per memory; (unused) sealing flags | `SetMemoryPolicy` (startup), `Evaluate` | Modbus handler only |
| Ingress | `ingress/` | listening sockets, one goroutine per connection | accept, peek two bytes, hand over | calls one of the two handlers |
| Modbus transport | `transport/modbus/` | the request at hand | read, check the seal, authorize, dispatch, answer | Store, Authority |
| Raw ingest | `transport/rawingest/` | the packet at hand | decode, write, one answer byte | Store |
| Configuration | `config/` | the decoded file; none once built | load, validate, build store and policies | `main` |
| Process | `cmd/mma2/main.go` | a goroutine per listener | start everything, then block; any listener's error ends it | all |
| Legacy raw transport | `transport/raw/` | the frame at hand | `Run`: read a frame, write, one status byte | nobody imports it |

Everything after startup runs in one goroutine per connection; they share the
memories, the store and the rules, and nothing else.  A connection is handled
one message at a time, in order.

### What is hard here

* **Shared memories.**  Many connections read and write several elements of
  one memory; each call must look instantaneous.  Register loops index the
  slice without a check and in `uint16`.
* **The seal is checked and the request runs in two separate memory calls**
  (`handle_conn.go:64` and `:100`), so whatever other connections do in the gap
  counts; and the seal's state is a coil, not a state machine.
* **Byte counts in `uint16`** (`bits.go:10`, `decoder.go:19`) wrap for the
  largest counts.
* **Clients** send ahead, stop reading, close one side, disappear in the
  middle of a message; no socket has a deadline.
* **Streams** are cut anywhere: a header, a length computed from it and a body
  are read by separate calls, each of which may find the end, and a length that
  wraps makes the handler read a body as the next header.
* **Startup** checks most things twice, in `Validate` and in the builders;
  `Store.Add` overwrites in silence; listeners start one by one, serve at once,
  and any of them may end the process.
* **Restarts** lose everything, by design.

`PROJECT.json` lists each hazard at its line with the properties that cover it,
or the reason why none does.

### What makes each component correct

* Memory: race free, in bounds, atomic, complete, and free of lost wake-ups.
* Sealing: until an ingest write sets the flag, every Modbus request to the
  memory is answered Device Busy, and only ingest can be the first to set it.
* Authority: the first rule that matches decides; no match, no access.
* Transports: one answer per message, in order, with its ids and telling the
  truth; memories change only through the port and unit they are known by.
* Scheduling: a client that does not read delays nobody else, and the
  goroutine of a client that is gone ends.
* Configuration: what serves is what was configured, each definition with its
  own memory and policy; flags lie within coils; every memory can be reached.
* Framing: the handler takes the client's messages, whole and in order, and
  says nothing that was not asked.
* Process: startup ends, with all listeners listening or no process; a listener
  survives the errors of `Accept`.

## The modules

| Module | Models |
|---|---|
| `MemoryOps` | the pure part of `memorycore`: areas, layouts, `Contains`, `Offset`, `bytesForBits` with its wrap, the checks of the four calls |
| `AtomicMemory` | the abstract specification, from `docs/05_MEMORY_MODEL.md`: a call happens at one instant, or is refused and changes nothing.  Unbounded integers, no lock, no bytes |
| `MemoryCore` | one memory and its callers, element by element under the RWMutex |
| `MemoryCoreProofs` | the theorems about `MemoryCore` |
| `AtomicityProofs` | the theorem that `MemoryCore` implements `AtomicMemory` |
| `Gateway` | connections, classifier, both handlers, rules, sealing, restarts; a memory call is one step |
| `GatewayProofs` | the theorems about `Gateway` |
| `AnswerProofs` | the theorems about `Gateway`'s answers: their order, what they say of a call, and that handlers come to a rest |
| `SealContract` | the abstract specification of state sealing, from `docs/01_STATE_SEALING.md`: phases, and who is let in to a memory.  No messages, handlers, rules or answers |
| `SealingProofs` | the theorem that `Gateway` implements `SealContract`, and what has to be true of clients and rules for the rest of that document |
| `Startup` | `main`, `Load`, `Validate`, `BuildMemoryStore`, `BuildAuthorityPolicies`, `ListenAndServe`; kills and restarts |
| `StartupProofs` | the theorems about `Startup` |
| `Exchange` | the abstract specification of a framing: whole messages, taken in order, each answered before the next.  No bytes, headers or lengths |
| `Wire` | the byte stream of one connection, for Modbus TCP, raw ingest and the legacy `raw.Run` |
| `WireProofs` | the theorems about `Wire` |
| `MCMemoryCore`, `MCGateway`, `MCStartup`, `MCWire` | instances for TLC |

How they fit: `Startup` ends where `Gateway` begins, and `EstablishesGateway`
is what `Gateway` assumes of its memories and policies; a memory call is one
step in `Gateway` because `MemoryCore` implements `AtomicMemory`; a message is
one element of a queue in `Gateway` because `Wire` implements `Exchange`.
`CallsAreWhole` checks the middle joint from the other side: what `Gateway`
makes of a memory, and tells the client about it, is what `AtomicMemory` makes
of the same call.

### MemoryCore

`pc[t]` is the place of goroutine `t` in its call:

    idle --Call--> check --Refuse--> done
                   check --Admit--> lock --RLock--> copy (or parked)     read
                                    lock --Announce--> drain --Enter--> copy   write
                                    copy --CopyOut/CopyIn--> copy --RUnlock/Unlock--> done
    done --Return--> idle

`cells[a]` is the backing slice of area `a` (an element is a bit or a
register), `idx`, `buf`, `err` the local variables of the call.  `readers`,
`parked` and `writer` are the RWMutex as Go documents it: an announced writer
stops later readers, waits for earlier ones, and when it leaves lets in every
reader that parked before the next writer.  `Refuse` is every early return of
the four functions; which error it was is not kept, because every caller gives
the same answer to all of them.

`Abstract` maps it to `AtomicMemory`: a write happens when it gets the lock
(the abstract content is the slices overlaid with the data of the write in
progress), a read when it gives the lock back.

### Gateway

`pc[c]` is the place of the goroutine of connection `c`:

    free --Connect--> classify --Classify--> read
    read --ReadRequest--> seal --SealCheck--> authorize --Authorize--> dispatch
         --Dispatch--> answer_or_close --Write--> read                  Modbus
    read --DecodeOne--> apply --Apply--> answer --Write--> read         raw ingest
    read --DecodeOneFails--> farewell --Write--> closed                 raw ingest

`in[c]` and `out[c]` are the two directions of the socket, `link[c]` the
client's side of it.  The answers of refusals (`answer`) ignore a write error,
that of a dispatch (`answer_or_close`) closes on it, as the code does.  A
message is a whole request or packet; everything else that a client may send
is one of `Malformations`, told apart exactly as far as the handlers' framing
tells them apart.  `fits` stands for the payload having the length and byte
count that its function code demands.  A request carries its elements as a
function, a source address is a member of the `sources` of a rule.

`asked` and `everRun` are history: the messages a client waits for, and the
memories whose seal has been open since the last start.

`Contract` maps it to `SealContract`.  A memory is in RUN when its flag has been
set since the start (`everRun`), whatever the flag says now: that is the reading
under which the code keeps the document.  A client's access has been let in
(`LetIn`) from the seal check to the dispatch, or from the decoding of a packet
to its write; an authority's refusal and an answer that needs no memory are
`Drop`, a dispatch is `Modbus`, an applied packet `Ingest`, and a packet that
opens the seal is the only step to RUN.  Reading, answering and clients are
stutters.

### Startup

`phase` is the place of `main`:

    load --Load--> validate --Validate--> store --BuildOneMemory*--> policies
         --BuildPolicy*, SetPolicies--> listen --StartListener*--> serve
    any --LoadFails, Validate, RefuseLegacy, BuildOneMemory, BuildPolicy,
          ListenFails, Kill--> dead --Restart--> load
    serve --AllAsleep--> dead      (no listener was configured)

`at` is the pair of loop variables of both builders, and `at.l` that of the
loop that starts listeners.  `gate[g]` is the goroutine of a listener: it
starts, listens, and accepts who waits; `failing[g]` says that `Accept`
returns errors.  `Dies` is the end of the process, whatever ends it:
`log.Fatalf`, from `main` or from a listener, a signal, or Go's runtime, which
finds in `AllAsleep` that nobody can ever wake the `select {}` of `main.go:93`
("all goroutines are asleep - deadlock!").  It does so in a program without
cgo, which is what `Dockerfile:22` builds; with cgo the process would stay,
serving nobody.  `store`, `policies` and `auth` are the maps of the code, from
(port, unit) to a memory's layouts and seal, or to a policy's rules.

A configuration is what the YAML decodes to, as far as any check or builder
looks at it: a listen string is a host and a port (0 when it does not parse), an
entry of `source_ip` is blank, a CIDR, an address, an address whose zone
contains a slash, or nothing that `net/netip` parses, and stands for a set of
sources.  `RulesOK` and `RuleBuilds` read an entry each with its own parser, as
`validate.go:276-284` and `ipmatch.go:25-37` do.
`Conflict` is the kernel's rule for two sockets on one port; a bind may also
fail for reasons of the system's own.

### Wire

A byte is a position in the client's stream.  `sent` holds the frames with
their first position and the one after their last, `arrived` says how much has
reached the handler, `pos` how much it has read.

    header --ReadHeader--> body --ReadBody--> handle --Answer...--> header
    header, body --HeaderEnds, BodyEnds, ReadHeader--> closed

`Payload` is the length as the client means it, `BodyLen` as the handler
computes it, in `uint16` where the code does.  When the handler reads at a
position where no frame begins, any header can be there (`HeadersHere`).
`EndOfFile` and `Unexpected` are the two errors of `io.ReadFull`; which of them
it was decides whether raw ingest answers.  A write error is `Gateway`'s
subject (`WriteLost`): here the client stays to read.

`Abstract` maps it to `Exchange`: a message is posted when it is sent, taken
when its body has been read, answered when the answer is written.  `Ambiguous`
are the packets whose length wraps.  After the first of these `Exchange` lets
the handler take anything; before it, only what was posted.

## The runs

| Run | Instance | Shows |
|---|---|---|
| `memory_safe` | 3 goroutines, 2 areas of 2 elements (one ending at address 65535), 11 calls: whole, partial, and one for each early return | `TypeOK`, `IndexSafe`, `NoRace`, `WaitsForSomebody`, `CompleteCall`, `CallsMoveOn`, and `Atomic`: `MemoryCore` implements `AtomicMemory` |
| `memory_live` | 3 goroutines, overlapping reads and writes, fair | every call ends |
| `memory_huge` | a write of one coil in a coil area of 65530 bits | *violated*: `CompleteCall` |
| `gateway_seal` | 2 connections, 2 memories with one unit id on two ports, one of them sealed, flag set, cleared and read by both protocols, restarts | `BusyUntilIngest`, `IngestUnseals`, and `KeepsContract`: `Gateway` implements `SealContract` |
| `gateway_requests` | 1 connection, 6 kinds of client, 9 requests, 4 packets, all malformations | `TypeOK`, `AnswersMatch`, `ChangesAreAuthorized`, `CallsAreWhole`, `HandlersGetOn` |
| `gateway_live` | 2 connections, one client reads, the other need not, fair | `PatientServed`, `GoroutineEnds` |
| `gateway_unlock` | as `gateway_seal` | *violated*: `ModbusNeverUnseals` |
| `gateway_oneway` | as `gateway_seal` | *violated*: `RunUntilRestart` |
| `gateway_txid` | a first transaction id of 0x5249 | *violated*: `ModbusStaysModbus` |
| `startup` | 23 configurations, 5 of them good, 14 that `Validate` refuses, 4 that a builder refuses; up to 2 listeners; kills and restarts with any other configuration; fair | `TypeOK`, `ServesConfiguration`, `EstablishesGateway`, `ValidatedBuilds`, `EveryMemoryReachable`, `UpUntilKilled`, `StartsOrDies`, `AcceptsAgain` |
| `startup_partial` | the same | *violated*: `NoPartialOperation` |
| `wire` | each framing, 2 frames of 6 kinds, short, longest, wrapping and broken; the stream pauses or ends within headers, between header and body, and within bodies; fair | `TypeOK`, `InStep`, `NothingUnasked`, `OnePerPacket`, `ClientInStep`, `TakesWhatWasSent` (`Wire` implements `Exchange`), `Answered` |

**Bounds.**  Two elements show a torn call; three goroutines give a writer in,
one waiting and a reader parked, which is every configuration of the lock.  In
`Gateway` the interference is between one handler's seal check and its
dispatch, and one other connection suffices to reach everything another can do
to the flag; two memories with one unit id on two ports show that nothing
leaks between them.  `InCap` and `OutCap` (1) are the messages a client may
have sent ahead and the answers it may leave unread: together with the message
in the handler's hands up to three are outstanding, enough to get answers out
of order.  One connection is enough for `gateway_requests`, whose properties
are about a connection and its own messages.

In `Startup` a check is about one definition or about two, so two listeners
with up to two definitions each reach every comparison the code makes; each
refusal has its configuration in `MCStartup`.  A restart starts the process
from nothing, so one after another adds no new states.  In `Wire`, two frames
(`MaxFrames`) are enough for bytes of one to be taken for the other's: whatever
goes wrong at the boundary of two messages goes wrong at the first boundary.
`MaxTaken` (3) is one more than were sent, so that the handler may take garbage
once the framing is lost.  `Pauses` has a position before, at and after each
header's end, and one byte, which the classifier cannot tell a protocol from.
`MaxPacketBytes` (8206) lets the longest bit frame through `raw.Run`'s limit
and not 5000 registers.  The run passes with three frames as well, in a
hundred times as many seconds.

**Fairness.**  `MemoryCore`: goroutines are scheduled (weak fairness of each
step within a call); Go's mutex hands itself to a waiter that has waited a
millisecond, hence strong fairness of `Announce`.  Nobody is made to call, nor
to come back for a result.  `Gateway`: weak fairness of each handler goroutine,
and of `Receive` for the clients in `Patient` only; no client is made to
connect, send, or close.  `Startup`: weak fairness of `main` and of each
listener's goroutine; nobody is made to connect, to recover, or to start the
process again.  `Wire`: weak fairness of the handler; bytes need never arrive.
All of it is what Go's scheduler gives a runnable goroutine.

**Mutants.**  Each property of a passing run comes with a wrong form of a
definition, named for the bug it makes (`RLockPastWriter`, `WriteRetried`,
...), that TLC must find to break it.  They stand just before the definitions
they replace, and are not part of the specifications.

## What the violated runs say

* `memory_huge` (bug): `bytesForBits` returns 0 for 65529 bits and more.  Such
  a coil area has no storage.  In the run a `WriteBits` of one coil returns
  without an error and has stored nothing; a read of it returns zeros.
* `gateway_unlock`, `gateway_oneway` (document and code differ):
  `docs/01_STATE_SEALING.md` describes PRE-RUN and RUN as states with a one-way
  step made by ingest only; the code evaluates a coil for each request.  What
  does hold is `BusyUntilIngest` and `IngestUnseals`, the *first* unsealing
  since the start is by ingest, and `KeepsContract`.  The document is right
  of the coil itself as long as no write clears a flag (`DocumentedLifecycle`,
  `RunLastsUntilRestart`), and right that Modbus never unseals if besides that,
  or instead, the rules let no Modbus write set one (`ModbusKeepsSeals`).
* `gateway_txid` (comment and code differ): a transaction id that spells `RI`
  makes a Modbus client a raw ingest client; nothing else does
  (`ClassifiedRight`).
* `startup_partial` (document and code differ): `docs/07_FAILURE_MODEL.md:68`
  has no partial operation; a listener serves as soon as it listens, and a
  later one that cannot bind ends the process (`main.go:80-84`).  With one
  listener it holds (`NoPartialOperationAlone`), and once every listener
  listens nothing but a kill ends the process (`UpUntilKilled`).

Met on the way, without a run because no behaviour of a model is needed to see
them:

* `docs/07_FAILURE_MODEL.md:40-48` has a wrong configuration refused before any
  memory is allocated.  Four kinds are accepted by `Validate` and refused by a
  builder: legacy memories (which `config.go:20` calls supported), a unit 0, a
  rule without an id, and an address like `fe80::1%eth0/64`, which
  `validate.go:280` takes for an address with a zone and `ipmatch.go:25`, for
  its slash, for a CIDR.  All but the first are found when memories have been
  allocated already.  There is no fifth (`ValidatedBuilds`).
* `docs/01_STATE_SEALING.md:59-77` configures sealing with `enable` and a
  `flag_location` in the discrete inputs; `config.go:69-72` has `area` and
  `address`, the area can only be `coil`, and what enables sealing is that the
  section is there.  The document's own two examples, even the one with `enable:
  false`, decode to a seal with a blank area, which `Validate` refuses.
* `docs/04_CONFIGURATION.md:64-69` requires a port, a unit id for each port, and
  an area for each unit id; `Validate` requires none of them, and a memory
  without areas refuses every call.
* `main.go:90` says "Block forever"; without a listener, which `validate.go:22`
  allows, the runtime ends the process at once.  With one, the comment is right
  (`BlocksWithListeners`).
* `docs/example.yaml` has fields (`allow`) that no code reads.
* `raw/conn_reader.go:20` speaks of a header of 12 bytes, which has 14;
  `raw/ingest_loop.go:28` calls malformed what may be the clean end of a stream.

## What is proved

`MemoryCoreProofs`, for any number of goroutines, any valid layouts, any set of
calls, from the named assumptions of `MemoryCore`:

| Theorem | States |
|---|---|
| `Invariance` | `Spec => []IInv` |
| `TypeSafety` | `Spec => []TypeOK` |
| `IndexSafety` | `Spec => []IndexSafe` |
| `RaceFreedom` | `Spec => []NoRace` |
| `NoLostWakeup` | `Spec => []WaitsForSomebody` |
| `CallsAreFinite` | `Spec => CallsMoveOn` |
| `Completeness` | `NoWrap => (Spec => []CompleteCall)` |

`IInv` strengthens `TypeOK` by what the program counter says of a call and of
the lock: a goroutine past `check` makes an accepted call; the readers are
exactly the goroutines that copy for a read; whoever drains or copies for a
write is the `writer`; a writer copies only when there are no readers; parked
goroutines are the `parked` ones, and only while there is a writer.  None of
the listed invariants is inductive without these: `NoRace`, for one, follows
from "a copying writer excludes readers" and "there is one writer", which are
statements about `readers` and `writer` that `NoRace` does not mention.
`IndexSafe` needs in addition that for an accepted call the `uint16` offset
does not wrap, which is `ValidLayout` and `Contains`.  `NoWrap` bounds each bit
area by 65528 bits; `memory_huge` shows that `Completeness` needs it.
`CallsMoveOn` is the part of "every call ends" that is a safety property: each
step of a call leaves it fewer (`StepsLeft`), and no other goroutine, not even
one whose `Unlock` moves the parked readers, gives it more.  With
`WaitsForSomebody` it leaves a scheduler nothing to do but let them finish,
which is `EveryCallEnds`.

`AtomicityProofs`, in the same generality:

| Theorem | States |
|---|---|
| `Atomicity` | `NoWrap => (Spec => Atomic)` |

Two things carry it.  `ChecksAgree` shows that the checks of `memory.go`, with
their `uint16` byte count, accept the calls that the integers of `AtomicMemory`
call in bounds.  `BufOK`, added to `IInv` and `DoneOK`, says what the loops have
done so far: a read's buffer holds what the slice still holds, and the elements
a write has passed are in the slice.  So `Enter` is the abstract write, all at
once, and the stores that follow it change nothing of the overlaid content
(`CopyInShowsNothing`, `UnlockShowsNothing`); `RUnlock` is the abstract read,
of a content that no one has written since the lock was given.  All other steps
map to `Call`, `Refuse`, `Return` or a stutter.

`GatewayProofs`, for any number of connections, clients, memories, policies and
messages, from the named assumptions of `Gateway` (which state what the
configuration's validation and builders establish):

| Theorem | States |
|---|---|
| `Invariance` | `Spec => []IInv` |
| `TypeSafety` | `Spec => []TypeOK` |
| `SealingHolds` | `Spec => []BusyUntilIngest` |
| `OnlyIngestUnseals` | `Spec => IngestUnseals` |
| `AuthorizedChanges` | `Spec => ChangesAreAuthorized` |

`IInv` is `TypeOK`, `BusyUntilIngest`, and for each connection `Local` (what
its program counter says of its protocol, its request, the permission it was
given and the answer it holds) and `Owed` (its client waits for at least as
many answers as there are messages in the socket, the handler and the answers
on their way, so that `Receive` always has a question to go with the answer).
Steps of one connection leave the rest alone (`OthersLocal`, `OthersBusy`), so
each action is shown to keep what concerns its own connection: `QuietStep` for
those that add no Modbus answer and pass no check, `ReplyStep` for those that
decide on an answer.  A memory not yet unsealed is not touched by `Dispatch`,
because nothing aimed at it can have passed the check; hence the two action
properties.

`AnswerProofs`, in the same generality:

| Theorem | States |
|---|---|
| `AnswersInOrder` | `Spec => []AnswersMatch` |
| `HandlersAreFinite` | `Spec => HandlersGetOn` |
| `CallsWhole` | `ASSUME NoWrap PROVE Spec => CallsAreWhole` |

`AnswersMatch` relates answers already written to the messages they are for, and
says nothing of the next one.  `Queue` does: at any time the unanswered messages
of a client are those whose answers are given (written, or in `ans`) followed by
those still wanted (the one in the handler's hands, then those in the socket),
and each given answer fits its message (`Lined`).  Only three moves change that
split, and each has its lemma over sequences alone: a message is asked
(`LinedAsk`), the first wanted message is answered (`LinedAnswer`), the first
answer is read (`LinedRead`).  Taking a message off the stream and writing an
answer move nothing between the two parts.

`HandlersGetOn` is to `GoroutineEnds` and `PatientServed` what `CallsMoveOn` is
to `EveryCallEnds`: `ToDo` counts a connection's stage and five for each message
in its stream, and only a message sent or a new connection adds to it.
`CallsWhole` rests on `ChecksAgree`, which for the calls the handlers make
(`WellFormed`) equates the `uint16` checks with the bounds of `AtomicMemory`;
the same `NoWrap` is needed as for `Completeness`, in every memory.

`SealingProofs`, in the same generality:

| Theorem | States |
|---|---|
| `SealingRefinement` | `Spec => KeepsContract` |
| `DocumentedLifecycle` | `ASSUME NobodyClears PROVE Spec => Lifecycle!Spec` |
| `RunLastsUntilRestart` | `ASSUME NobodyClears PROVE Spec => RunUntilRestart` |
| `ModbusKeepsSeals` | `ASSUME NobodyClears \/ ModbusNeverSets PROVE Spec => ModbusNeverUnseals` |
| `ClassifiedRight` | `ASSUME NoneSaysRI PROVE Spec => []ModbusStaysModbus` |

The refinement uses `IInv` of `GatewayProofs`: what it says of `BusyFor` is that
an access in hand is to a memory in RUN, and what `Local` says of the protocol
is that a packet's write is ingest.  The other four say when the statements of
the violated runs are true, so each has a hypothesis about the clients and the
rules, which the code does not enforce and a site may: `NobodyClears`, that no
write that covers a flag, of those that the rules let Modbus clients send or
that raw clients send, writes a 0 there; `ModbusNeverSets`, that no such Modbus
write puts anything but a 0 there; `NoneSaysRI`, that no Modbus transaction id
is 0x5249.  The instances of the violated runs break them, and clients that
write around the flag coil satisfy them.  Under `NobodyClears` the
history variable is redundant: `RunIsUnsealed` (RUN exactly when the flag is
set) is an invariant, so `Lifecycle`, which is `SealContract` with the flag
itself for the phase, is implemented too.

`StartupProofs`, for any set of configurations and any number of listeners,
from `ConfigAssumption`, which says what a decoded file looks like (its integers
have their width, its lists are lists) and nothing of its being right:

| Theorem | States |
|---|---|
| `Invariance` | `Spec => []IInv` |
| `TypeSafety` | `Spec => []TypeOK` |
| `Configured` | `Spec => []ServesConfiguration` |
| `GatewayEstablished` | `Spec => []EstablishesGateway` |
| `LateRefusals` | `Spec => []ValidatedBuilds` |
| `Reachability` | `Spec => []EveryMemoryReachable` |
| `StaysUp` | `Spec => UpUntilKilled` |
| `BlocksWithListeners` | `ASSUME SomeListener PROVE Spec => BlocksForever` |
| `NoPartialOperationAlone` | `ASSUME OneListener PROVE Spec => NoPartialOperation` |

`IInv` says what `phase` and `at` mean: past `validate` the configuration is
`Valid`; during the two loops the maps hold exactly the definitions the loop
has passed, each built from its own; past a loop, all of them.  The step that
matters is `Store.Add`: it overwrites, and only `IdentitiesOK` keeps the memory
it would overwrite from being another definition's.  `LateRefusals` compares
the two readings of an entry of `source_ip`, whose only difference is the zone
with a slash.  `StaysUp` is about a process with a listener, and needs that
gates outside the configuration stay closed.  `BlocksWithListeners` adds
`StartedRun`: the goroutines that `main` has started are there still, so with
`SomeListener` (every configuration has one) it never waits alone.  `NoPartialOperationAlone` adds
`ServedListen`, that who has served a client is listening still and the gates
`main` has not come to are closed, so that a gate that fails to listen is one
that has served nobody; `OneListener` says that there is no other.

`WireProofs`, for any frames, pauses and bounds, from `WireAssumption`:

| Theorem | States |
|---|---|
| `Invariance` | `Spec => []IInv` |
| `TypeSafety` | `Spec => []TypeOK` |
| `StaysInStep` | `Spec => []InStep` |
| `Refinement` | `Spec => TakesWhatWasSent` |
| `OnlyAnswers` | `Spec => []NothingUnasked` |
| `AnswersEachPacket` | `Spec => []OnePerPacket` |
| `ClientKeepsStep` | `Spec => []ClientInStep` |

`IInv` is `TypeOK`; `Chain`, that frames lie end to end; `Hands`, what the
program counter says of the header in hand and of the number of answers, in
step or not; and `Sync`, that until an ambiguous packet has been taken the
handler reads where the frame after the last one taken begins, or just behind
its header.  `NextFrame` is the heart of it: at such a position one frame of
the client begins, and no other, so what is read there is its header.  The
refinement maps each step to `Post`, `Take`, `Answer`, `Stop` or a stutter.
The last three theorems add what a refusal, a clean end and an announced length
say (`NoRefusalYet`, `Clean`, `Honest`).

Only model-checked: what holds under fairness (`EveryCallEnds`,
`PatientServed`, `GoroutineEnds`, `StartsOrDies`, `AcceptsAgain`, `Answered`),
which is out of the prover's reach.  Of `EveryCallEnds`, `PatientServed` and
`GoroutineEnds` the safety half is proved, as said above.

## Not modelled

* The wording of errors and logs.
* Parsing of YAML, of addresses and of listen strings: what a text decodes to
  is an input of `Startup`.
* The contents of headers other than what decides a length or a refusal, and
  the one-byte count of a read answer (`pdu_encode.go:10`), which wraps for
  more than 255 bytes and which no code of the program reads.
* `authority/sealing.go`, whose flags nothing sets; `modbus/mbap.go` and
  `pdu.go`, which nothing calls; `domain`, which is empty; the tools.
* Of `transport/raw`: `memory_adapter.go` and `resolver.go`, which are behind a
  build tag and import a package that is not there, and `conn_writer.go`, which
  nothing calls.  What the memory answers to `raw.Run` is any answer.
* The map locks of `Store` and `Authority`: both are written by `main` alone,
  before the first connection exists, so readers never meet a writer.

## What could come next

The conversion of elements to bytes (`WriteBits` packs them, `ReadRegs` puts
them in network order) as operators with proofs: `MemoryCore` has elements
where the code has bits of a byte.
