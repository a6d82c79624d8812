# go-LIN in TLA+

A verification project for go-LIN: an in-process LIN bus with master and slave
nodes, end-to-end protection, an LDF database and an adapter to RELAY. It
consists of TLA+ modules translated from the Go source, TLC configurations for
small instances, and TLAPS proofs for any instance. Source paths are relative to
the root of the repository. `PROJECT.json` maps every definition to its lines
and lists runs, mutants, hazards, findings and theorems.

    tlc -workers 2 -config BusTraffic.cfg MCVirtualBus   # a run
    tlapm VirtualBusProofs.tla                           # the proofs of a module

## 1. The system

| Part | State | Operations | Talks to |
| --- | --- | --- | --- |
| `lin.go` frames | none | `ProtectID`, `VerifyPID`, `CalcChecksum`, `ValidateFrame`, `Filter.Matches`, `ToMessage`, `FromMessage` | used by all |
| `diagnostic.go` | none | `packDiag`, `unpackDiag`, `ToFrame`, `Parse...Frame` | master, slaves |
| `virtual/bus.go` | responses, schedule, subscriptions and their channels, closed flag, six atomic counters, an `RWMutex` | `Publish`, `PublishClassic`, `PublishFrame`, `SendHeader`, `Subscribe`, `SetSchedule`, `Close`, `CloseWithDrain`, `Health`, `Metrics` | called by any goroutine; sends on subscriber channels |
| `slave/slave.go` | list of identifiers, a mutex | `SetResponse`, `RegisteredIDs`, `Subscribe` | `Bus.Publish` |
| `master/master.go` | schedule (unguarded), sporadic groups and pending marks (a mutex), callbacks | `SetSchedule`, `SetSporadicGroup`, `SetPending`, `Run`, `SendHeader`, `Diagnostics` | `Bus.SendHeader`, `Bus.PublishFrame`; calls `OnFrame`, `OnError` |
| `safety/e2e.go` | `Protector`: an atomic counter; `Receiver`: last counter, first flag, a mutex | `Protect`, `Unwrap` | carried over any medium |
| `adapt.go` | a forwarding goroutine and channel per subscription | `Send`, `Subscribe`, `Close` | bus subscription in, RELAY messages out |
| `ldf/parser.go` | the database; while parsing, lines and a cursor | `Parse`, `Decode`, `Encode`, accessors | schedules go to the master |
| `stats/stats.go` | counters under a mutex | `Observe`, `Reset`, `Watch`, readers | a bus subscription |
| `cmd/`, `mock`, `examples` | none of their own | command line, streams | the bus |

What is hard here: broadcasts, subscriptions and two kinds of close overlap on
one `RWMutex` while consumers empty the channels outside of it; `SendHeader`
uses what it read under a lock it has released; `CloseWithDrain` decides on
lengths that may have changed; `SetResponse` writes two places under two locks;
`Run` races marks, withdrawals, cancellation and its own timers; the forwarder of
the adapter shares both ends of its channel with its consumer; the receiver of
protected frames sees losses, repetitions and wrap-around through one counter;
the parser recovers from bad lines with nested loops over one cursor; `Metrics` and the
readers of the collector ask several questions while the counters move; two callers of
`Diagnostics` share two identifiers; a message crosses from bus to bus through several
channels, each of which may lose it or end first.

What makes each part correct:

- bus: no panic, frames in order, to all who asked and to nobody else, loss only at a
  full channel, honest counters, a final close, calls that return; to its clients it is
  the contract of `lin.Bus` and `lin.MasterBus`;
- slave: the list agrees with the bus;
- master: no marked update is forgotten, the first candidate of a slot does not starve,
  a cancelled loop falls silent and returns;
- diagnostics: the request is on the wire before an answer counts, the answer is one a
  target gave, what was packed goes out with the classic checksum;
- protection: counters are unique, only the successor of a frame passes, a repetition is
  reported, a changed bit is noticed;
- adapter and commands: order, the loss the policy allows and no other, the newest
  frame at the far end, a count that is exact, an end of the stream; every way to say
  the same thing does the same;
- statistics: every frame is counted once, the parts add up to the total;
- LDF: what is encoded is decoded, what a file declares is what is in the
  database, no text leads to an unusable database or an endless loop.

## 2. The modules

| Module | Models | Correspondence |
| --- | --- | --- |
| `LinFrame` | `lin.go` constants and functions | one operator per function; bytes are 0..255, bits by `\div` and `%` |
| `VirtualBus` | `virtual/bus.go` | see below |
| `BusContract` | `lin.Bus` and `lin.MasterBus` in `lin.go` | the abstract specification: a register, exchanges in flight, streams |
| `SlaveNode` | `slave/slave.go` | `Publish` and `UpdateList` are the two locked sections of `SetResponse` |
| `MasterNode` | `master/master.go` | one step per check, choice, header and sleep of `Run`; application, slaves and bus move between any two |
| `Diagnostics`, `DiagFrame` | `Node.Diagnostics`, `diagnostic.go` | three bus calls in sequence, of any number of callers; codec as operators |
| `E2EChannel` | `safety/e2e.go` | a step per `Protect` and `Unwrap`; the medium keeps every frame, so loss, repetition and order are free |
| `E2EFrame` | the bytes of a protected payload | header, CRC and the checks of `Unwrap` as operators |
| `RelayAdapter` | `adapt.go` `Subscribe` | a step per channel operation of the forwarder |
| `RelayMessage` | `ToMessage`, `FromMessage`, `linNode.Send`, a line of `cmdSendStream`, `cmdConvert` | operators; decimal texts as sequences of digits |
| `Collector` | `stats/stats.go` | a step per method, two for a turn of `Watch` |
| `Crossbar` | `runSubscribe`, `cmdSendStream`, and the route they or the adapter make | composes `RelayAdapter`, `RelayMessage` and `Collector` |
| `CliArgs` | `send`, `pid`, `cs` of `cmd/go-lin` and `cmd/lintool` | operators; an argument is what the parsers make of it |
| `LdfCodec` | `Encode`, `Decode`, `packBits`, `extractBits` | a payload is its length and the set of its bits that are 1, a value the set of its bits |
| `CodecChecks` | | `LinFrame`, `DiagFrame`, `LdfCodec`, `E2EFrame`, `RelayMessage` and `CliArgs` against reference definitions, over inputs that grow step by step (`InputSpec`) |
| `LdfParser`, `LdfParserChecks` | `ldf/parser.go` `Parse` | a step per turn of a loop over lines classified as the string tests do |
| `Tallies` | | the sum of a function's values as a number of pairs, which proofs can count |
| `MC*` | | instances |
| `VirtualBusProofs`, `BusDeliveryProofs`, `MasterNodeProofs`, `SlaveNodeProofs`, `DiagnosticsProofs`, `E2EChannelProofs`, `CrossbarProofs`, `CodecProofs` | | theorems |

`Diagnostics` composes the master's exchange, the bus's registrations and a
target node, using `DiagFrame` and `LinFrame`. The target registers its responses with
`PublishFrame` or through `slave.Node.SetResponse` (`via`).

**VirtualBus.** A section under `mu.Lock` is one step. A section under `mu.RLock`
is a step per access to a channel, since other readers and consumers run inside
of it. `writer` is set from the moment a writer waits, and holds back new
readers, as `sync.RWMutex` does. `PublishClassic` and `PublishFrame` are `Publish`
with the other checksum kind. `chans` holds every channel ever made, with what its consumer
received, so closed subscriptions can still be spoken about. Each atomic counter moves in
a step of its own, and `Metrics` is six loads; this is what `SnapshotLag` is about.

**BusContract.** `VirtualBus!ImplementsContract` states the refinement. The register is
`responses`; the bus is open until `closed`; a frame is in flight from the moment
`SendHeader` has read its response until it returns; a stream is what its channel has
taken. So an exchange takes effect when the response is read, each delivery when the
channel takes the frame, and taking the lock, moving counters, polling, dropping and
receiving are stuttering steps. The contract lets a stream miss frames, as a full channel
makes it; when it may is `LossNeedsFullChannel`.

**Crossbar.** The frames of bus A go to a source and to a collector; the source is the
adapter's forwarder or `runSubscribe`, the sink `linNode.Send` or `cmdSendStream`, whose
bus B is its register of responses. For the subscribe command the channel between them is
the pipe, a write to which waits for room. Other spokes send to the sink too: an empty
payload, one that is too long, an identifier out of range.

**MasterNode.** `ver`, `marked`, `sent` and `failed` are history: the version of the
data published, marked, sent, and reported through `OnError`. The schedule is
replaced only between runs, as the documentation of `SetSchedule` demands.

**LdfParser.** A line is its kind, a name, up to two numbers and where its
brace is; this is all that the prefix, suffix and split tests tell apart. A
line of one kind in a section of another is handled as that section's tests
would handle it.

Definitions marked *mutant* are plausible bugs; substituted for the
definition after them, each one makes a property fail, which shows that the
property depends on that code.

## 3. The runs

Passing:

| Run | Shows | Bounds |
| --- | --- | --- |
| bus_traffic | `LockInv`, `NoPanic`, `CountersMatchChannels`, `SnapshotLag`, `SenderOrder`, `BroadcastReachesAll`, `LossNeedsFullChannel`, `ClosedIsFinal`, and the refinement `ImplementsContract` | three goroutines, two calls each, one-place channels: two broadcasts, a subscription, a snapshot and a close overlap, and channels fill |
| bus_calls | `TypeOK` with every argument check on both sides of its limit; `CallsReturn` though nobody reads; `ConsumersSeeClose` for those who do | two goroutines, three calls: a registration, its withdrawal, sends into a full channel and both closes |
| slave_disjoint | `ListMatchesBus`, the list free of repetitions, for goroutines with identifiers of their own, failures included | two goroutines, three calls |
| master_run | `TypeOK`, `UpdateAccounted`, `QuietAfterCancel`, `CancelStops`, `TopPendingServed` | two candidates, data published before or after the mark, two runs, three tables and three groups, one of each refused |
| crossbar | `OrderKept`, `PolicyKept`, `RouteFaithful`, `CollectorExact`, and `RouteEnds` except for `DropOldest` | both sources and both sinks, two places and one place, three frames, two of one identifier with a diagnostic one between them: both channels fill and empty; `--count` absent, 0 and 2; a signal, a foreign message and a `Reset` at any point. The forwarder may stop for good under `DropOldest` (adapter_stuck), so deadlock is allowed |
| e2e_verdicts | `VerdictRight`, `CountersUnique` | counters modulo 3, so five frames wrap around; four frames unwrapped, any of them again |
| diag_exchange | `AskedFirst`, `AnswerIsReal`, `PackedIsValid` | two callers, a request that does not fit, raw frames of other nodes with bad PCI and length and with either checksum |
| formats, codecs | `ParityDetects`, `ChecksumIsSum`, `PackUnpack`, `DecodeEncode`, `StaysInPayload`, `ProtectedArrives`, `MessageRoundTrip`, `SinksAgree`, `SendFormsAgree` | all identifiers, payloads up to 3 bytes of values that carry; all strings up to 8 bytes over five boundary values; two signal references, 6-bit words, offsets and widths on both sides of every limit; two identities and boundary counters, every bit of a protected payload flipped and every byte complemented; all texts up to the length of "255" over boundary digits and a letter, five payloads; up to four arguments out of seven texts and two flags |
| formats, files | `ParsesMeaning`, `Usable`, `ParseEnds` | up to three of five declarations (valid, colliding, out of range), each with its body on lines of its own, two schedule entries, both brace styles; every part of a file with all sections, and that file with any two lines replaced by any of 14 others |

One run, `formats`, goes over the inputs of `CodecChecks` and, as one more kind of input, the
files of `LdfParserChecks` (`MCFormats`).

The word size 6 in `LdfCodec` stands for 64 and the modulus of `E2EChannel` for
2^32: both are constants that the code uses only as limits, and the instances
lie on both sides of them. One-place channels stand for the 64 places of
`defaultChanSize`; full, empty and in between are all that `select` tells apart.

Refuted: each of these runs checks a sentence of the repository against the code.

| Run | Sentence | What happens |
| --- | --- | --- |
| bus_drain_empty | `CloseWithDrain` waits until all channels are drained | a broadcast between the last poll and `Close` is closed over, and the call returns nil |
| slave_shared | `RegisteredIDs` is exactly the set of registered identifiers | two goroutines with one identifier leave list and bus different |
| adapter_stuck | one message per received frame | under `DropOldest` the forwarder waits for ever on `<-ch` when its consumer was faster |
| e2e_replay | a replayed frame yields `ErrSequenceGap` (REQ-SEC-003, `SEOOC.md` 53, `SAFETY_MANUAL.md` 58 and 92) | frame 1, then frame 0 late, then frame 1 again: the gap at 0 moves `lastSeq` there, and the repetition of 1 passes, with no wrap-around involved |

Read off the code while modelling it, and not the subject of a run:

- an expired `CloseWithDrain` takes its count under a lock it releases before it
  closes (`virtual/bus.go` 294-301), so `DropCount` may differ from what the close
  leaves buffered;
- `Subscribe` never reads `opts` (`virtual/bus.go` 222), though its comment says they
  configure depth and back-pressure;
- `slave.Node.SetResponse` always selects the enhanced checksum (`slave/slave.go` 66), so a
  diagnostic target that answers "as any slave would" (`master/master_test.go` 343) sends a
  frame that `ValidateFrame` rejects, where the test demands the classic one (386). Such a
  target is among those of `Diagnostics`; `PackedIsValid` makes no claim about its frames;
- `Parse` returns a nil database with every error (`ldf/parser.go` 115), and not an
  "empty or partial DB" (lines 99-100);
- the sinks of relay messages, too, always publish with the enhanced
  checksum, so a diagnostic frame that is routed loses its classic one
  (`adapt.go` 47, `cmd/go-lin/main.go` 260);
- an empty payload that is not nil is an error for `linNode.Send` and a withdrawal in the
  send stream, since `FromMessage` copies it to nil (`lin.go` 342); `SinksAgree` says so;
- `FromMessage` takes a checksum text out of range for 255 and one with other characters
  for 0 (`lin.go` 338), without an error;
- the package comment of `safety/e2e.go` (17) has the CRC over bytes 0 to 7 and the
  payload; the code takes the whole header with its CRC slot zeroed, as REQ-SAFETY-005 says;
- a protected payload has at least ten bytes and `Publish` refuses more than eight, so
  what REQ-SEOOC-004 describes, publishing one on the virtual bus, always fails;
- `Filter{}` matches identifier 0 (`lin.go` 124), while its comment (110) says that the
  zero value matches no frames;
- `broadcast` hands one `Data` slice to every subscriber and to the caller
  (`virtual/bus.go` 210, 338), while REQ-VIRT-014 speaks of independent copies;
- `OnFrame` and `OnError` write fields that `Run` reads without a lock
  (`master/master.go` 97, 105), and the comments do not ask for them to be set first;
- `Metrics` may show a delivery without its write (`virtual/bus.go` 321-330);
- the streams of `cmd/go-lin` run on a bus of their own process, to which nothing else
  publishes;
- the skip after an invalid frame header looks for a line that is exactly `}`
  (`ldf/parser.go` 449): an invalid frame with its body on the header's line takes the next
  frame with it, against the comment above the loop (444-447);
- `Diagnostics` sends the response header right after the request's (`master/master.go` 138)
  and does not compare the answer with the request: a slow target's earlier answer, or the
  answer to another caller, is returned. `AnswerIsReal` says what is left: it answers a
  request that was on the wire.

## 4. Fairness

- `VirtualBus!FairSpec`: weak fairness of every goroutine's steps, which the Go
  scheduler gives and the writer preference of `RWMutex` carries over to the
  lock; strong fairness of `CtxDone`, because the drain loop comes back to a `select` in
  which an expired context stays ready, and `select` chooses at random. It assumes a context
  that expires. No fairness of consumers.
  `ConsumersSeeClose` assumes a consumer that keeps reading, as its own premise.
- `MasterNode!FairSpec`: weak fairness of `Run`; its timers fire. Nothing obliges the
  application to do anything.
- `RelayAdapter!FairSpec`: weak fairness of the forwarder and of the consumer's loop.
- `Crossbar!RouteSpec`: weak fairness of the source, a goroutine or a process that is
  scheduled, and of the sink's loop. Bus A need not carry frames or close, no signal need
  come, and `RouteEnds` has the close or the signal as its premise.
- `MCFormats!FormatsSpec`: weak fairness of the one goroutine that parses.

## 5. What is proved

Each theorem holds for every value of the constants that satisfies the named
assumptions of its modules. Most of these say only that a bound is a number and an input
has its type. The others, and why the code justifies them:

| Assumption | Says |
| --- | --- |
| `FiniteAssumption`, `NoProcAssumption` (bus) | there are finitely many goroutines, and "nobody" is none of them |
| `MenuAssumption` (bus) | calls have arguments of the parameters' Go types; bad values are among them |
| `DiagnosticsAssumption` | what other nodes put on 0x3D has passed `PublishFrame`: 1 to 8 bytes, with any checksum |
| `RouteAssumption` (crossbar) | the frames of bus A are frames a bus carries, with the checksum it computes |
| `ErrAssumption`, `NilAssumption` | an error is no message, nil is no payload |
| `CliAssumption` | a text that does not parse, and a missing flag, prefix or registration, is not taken for a value |
| `CodecAssumption` | offsets are not negative, which `Parse` checks; widths may be, which it does not; a value fits the machine word, which has at least the three bits that the initial values of the inputs use |

Two theorems have a premise on top. `DisjointOwners`: each identifier is set by one
goroutine; slave_shared shows that `ListMatchesBus` fails without it. `OthersUnfit`: the
other spokes that send to the route's sink publish nothing of their own; what they may do
is withdraw a response or be refused. A spoke that publishes on an identifier of the route
would be the newest there, which `RouteFaithful` does not speak of.

| Theorem | States |
| --- | --- |
| `VirtualBusProofs`: `TypeCorrect`, `LockDiscipline`, `Safety`, `Finality` | `TypeOK`, `LockInv`, `NoPanic`, `ClosedIsFinal` |
| `BusDeliveryProofs`: `SendersInOrder`, `LossIsOverflow`, `BroadcastComplete` | `SenderOrder`, `LossNeedsFullChannel`, `BroadcastReachesAll` |
| `BusDeliveryProofs`: `Refinement` | `ImplementsContract` |
| `BusDeliveryProofs`: `SnapshotsLag`, `CountersExact` | `SnapshotLag`, `CountersMatchChannels` |
| `MasterNodeProofs`: `TypeCorrect`, `Accounted`, `Quiet` | `TypeOK`, `UpdateAccounted`, `QuietAfterCancel` |
| `SlaveNodeProofs`: `ListFollowsBus` | `ListMatchesBus`, from `DisjointOwners` |
| `DiagnosticsProofs`: `RequestBeforeResponse`, `AnswersReal`, `PackedFramesValid` | `AskedFirst`, `AnswerIsReal`, `PackedIsValid` |
| `DiagnosticsProofs`: `DiagRoundTrip` | a message that fits survives `packDiag` and `unpackDiag`, one that does not is refused |
| `DiagnosticsProofs`: `PacksUnpack` | `PackUnpack` |
| `E2EChannelProofs`: `VerdictsRight`, `CountersApart` | `VerdictRight`, `CountersUnique` |
| `CrossbarProofs`: `OrderPreserved`, `PoliciesKept`, `StatisticsExact` | `OrderKept`, `PolicyKept`, `CollectorExact` |
| `CrossbarProofs`: `RouteRight` | `RouteFaithful`, from `OthersUnfit` |
| `CodecProofs`: `ExtractPack`, `PackElsewhere`, `PackInside` | a field reads back what was written, cut to width, payload and word; fields with no bit in common keep theirs; nothing outside of the payload is written |
| `CodecProofs`: `DecodeEncoded`, `EncodeInside` | the same of `Encode` and `Decode`, for every frame: a reference that no later one overwrites reads back, and no bit outside of payload and signals is set |
| `CodecProofs`: `EncodedDecodes`, `EncodedStays` | `DecodeEncode`, `StaysInPayload` |
| `CodecProofs`: `ParityDetected`, `ChecksumSums` | `ParityDetects`, `ChecksumIsSum` |
| `CodecProofs`: `MessagesRoundTrip`, `SinksDoAgree`, `SendForms` | `MessageRoundTrip`, `SinksAgree`, `SendFormsAgree` |
| `CodecProofs`: `ParsedUsable` | `Usable` |

How the arguments go, and why the invariants are what they are:

- **Lock discipline.** `IInv == TypeOK /\ LockInv` is inductive; `NoPanic` alone is not.
  That a sender finds its channel open needs that a reader of a closed bus has
  nothing left to visit, which needs that writer and readers exclude each other and that
  an open bus has no closed channel. `TypeOK` needs `LockInv` in turn, because what a
  writer stores is well-formed only as it passed its argument checks before it took the
  lock.
- **Delivery.** The 23 actions differ little in what they deliver: lemma `Classified`
  reduces a step to one of four kinds (nothing moves, a goroutine moves, a frame is sent, a
  stream is added). `SenderOrder` is not inductive: a send keeps it only if the stream at
  the sender's cursor holds nothing of the present call. `OrderInv` says so for every
  channel the cursor has not passed, `SubsInv` that `b.subs` names no channel twice.
  `BroadcastReachesAll` speaks of a goroutine between two sends; `ReachInv` adds what holds
  between a send and its counting, and that a cursor is a suffix of `b.subs` as it is now,
  which only the lock guarantees.
- **Refinement.** The mapping is the one of section 2. Lookup, send, return, subscription,
  registration and close are the six actions of the contract, everything else a
  stutter. `OrderInv` provides that a delivered frame is newer than the sender's others in
  the stream, `SubsInv` that a close ends all streams.
- **Counters.** A sum is the number of tally marks (`Tallies`), so that a step adds or
  removes a known set of pairs. Lemma `Accounts` reduces a step to one that touches no
  account or one of six that do. `DrainInv` is needed for `DropCount`: what an expired
  `CloseWithDrain` wrote off stays on record in its local `undelivered`, because a second
  drain finds the bus closed and its list empty, and never counts again. For `SnapshotLag`,
  `LagInv` bounds how far a count is ahead of its bytes by the goroutines between the two,
  `CallInv` says these are in `SendHeader`, and `SnapInv` compares what is loaded with what
  is loaded later or still grows.
- **Master.** `IInv` adds to `TypeOK` that a mark never exceeds what was published,
  `UpdateAccounted` itself, and `QuietInv`, which ties the number of headers sent after a
  cancellation to where `Run` is.
- **Slave.** Between its two locked sections `SetResponse` has written the bus and not yet
  the list. `WrittenInv` says that what it wrote still stands, `MatchInv` that list and bus
  agree on every identifier nobody is between sections with. The loop of `removeID` is shown
  to remove one element and no other, by induction over its index.
- **Diagnostics.** `Sourced` follows a payload from the request asked, through the target's
  codec, to the response registered; `WireInv` keeps, for each caller, its request in front
  of its response while others register, withdraw and broadcast. `Summed` says whose
  checksum a registration has: the one `ToFrame` chose, if the target used `PublishFrame` and
  the payload is not another node's.
- **Protection.** The protector's counter is the number of calls modulo its width, whatever
  the width; the receiver remembers the frame it unwrapped last, whatever it said about it.
  `Verdicts` states the comparison it makes in terms of the frames. `RepeatReported` speaks of
  two places of the log any distance apart, so `Runs` carries along that between them, as long
  as every frame passes, the counter has moved by exactly that distance. What fails is the
  stronger `ReplayRefused`, the subject of e2e_replay.
- **Route.** `ForwardInv` numbers what is in the bus channel, in hand and in the
  output channel consecutively; `OrderInv` and `PolicyInv` follow from it. `RegInv` says of
  every identifier that bus B has the newest frame that came through. It needs what the two
  sinks do to a message of the route, so the decimal text of an identifier is shown to read
  back as the identifier (`ParseItoa`), digit by digit.
- **Codecs.** The theorems on `InputSpec` hold for inputs over any bytes, digits, offsets,
  widths, values and word size, of any length; `InputInv` types the six kinds of input.
  *Parity*: a byte is written by its eight bits, `ProtectID` sets two of them to parities, and
  a flipped bit makes one of the two equations odd. *Checksum*: `Carried` says that the plain
  sum and the one with the carry added back differ by a multiple of 255 and are 0 together,
  which a turn of the loop keeps. *Encode*: `RoundsInside` keeps every intermediate payload
  in its length and in the bits of the signals; `RoundsKeep` says that what is packed for a
  reference survives every later turn that overwrites neither its bits nor its name; widths
  of 0 and less pack nothing. *Messages*: any text of a number reads as a byte and a verdict
  (`ParseInByte`), and what `Itoa` writes reads back. *Commands*: `flagValue` finds a flag
  that is mentioned once, in either of its spellings.
- **Parser.** `Usable` speaks of what is stored. `ParseInv` adds that the frame and the table
  under construction already meet what storing them demands, because the checks are made on
  the line of the header and the frame is stored lines later, and that a table's slots name
  frames that are stored when the slot is read.

TLC has checked every one of these invariants on the runs' instances.

Loops. An invariant that mentions the result of a loop needs an induction; the provers
cannot use the library's induction theorems, which take an operator as a parameter. Lemmas
`SetInduction` and `NumberInduction` state induction over a set instead (a set that contains 0
and successors contains all numbers), proved from the well-foundedness of `<`. A fold or a
recursive function is treated as an equation: a function over the places read so far that
satisfies it exists (`EncodingExists`, `LoopExists`, by that induction), so the definition's
choice satisfies it too, and one turn after the other can be read off it (`EncodeRounds`,
`FoldTurns`). `removeID`, `Encode`, `CalcChecksum` and `ParseUint8` are treated so.

Only model-checked:

- liveness, which rests on fairness: `CallsReturn`, `ConsumersSeeClose`, `CancelStops`,
  `TopPendingServed`, `RouteEnds`, `ParseEnds`;
- `ProtectedArrives`: that a CRC notices a changed byte is polynomial arithmetic over bits,
  for which the provers have no theory; TLC flips every bit and complements every byte of
  protected payloads, and does not try the other values of a byte;
- `ParsesMeaning`, whose reference definition is a recursive operator.

## 6. What is not modelled

- Wall-clock time: timers fire at any moment after they were set, and `FrameRate` and
  `BusLoad`, quotients over elapsed time, are left out.
- The aliasing of payload slices, and memory that is written while it is read:
  `SetSchedule`, `OnFrame` and `OnError` during `Run` are outside of what the node
  promises, and the model does not call them then.
- In `cmd/go-lin`: JSON, the flags of `convert`, read errors of standard input, and
  `version`, `capabilities`, `status` and `usage`, which print constants. `dump`, in both
  programs, is the loop of `subscribe` without a count.
- In `ldf/parser.go`: publishers, subscribers, encodings and units of signals, and the
  accessors, which copy.
- `mock`, a call of `virtual.New`; examples and packaging.

## 7. Plan

Done, in this order: frames; bus with its first proofs; slave; master with its proofs;
adapter; protection; diagnostics; codec with its proofs; parser; counters and snapshots
of the bus; the contract and its refinement; concurrent diagnostics; header and CRC of
protected frames; relay messages, commands and routes; statistics; the proofs of delivery,
refinement and counters, and of slave, diagnostics, protection and route; the proofs of
the pure functions and of the parser's invariant.

Left, as said in sections 5 and 6: liveness, the detection of changed bytes by the CRC and
the meaning of a whole LDF file stay with TLC; time, aliasing and the commands that only
print are not modelled.
