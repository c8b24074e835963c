# TLA+ models of dns-sd

dns-sd is a DNS Service Discovery library (RFC 6762/6763) in TypeScript, with an
engine of its own over UDP (Node, Deno) and adapters to native discovery (a Tauri
plug-in for desktop, Android and iOS). These modules model its core, TLC checks
them on small instances, and TLAPS proves the main results for any values of the
constants.

`PROJECT.json` holds the map from every definition to the lines it translates, the
runs, the mutants that break each property, the findings, the hazards and the
theorems. Paths below are relative to `src/packages/`, with *S* short for
`dns-sd-shared/src`.

## 1. Inventory

| Component | State | Operations | Talks to |
|---|---|---|---|
| Responder, *S*/engine/responder.ts | current name and records, pending timers, `probeConflict`, `announcing`, aggregation window, the promise of `start()` | `start`, probe and announce timers, `onQuery`, `onResponse`, `rename`, `reprobe`, `stop`, `close` | engine (`send`, dispatch), the handle of `advertise` |
| Record comparison, *S*/engine/records.ts | none | `recordKey`, `recordSort`, `isConflicting` | responder, cache |
| Browser, *S*/engine/query.ts | instances, targets (addresses, members), `suppressNextQuery`, query timers | `onResponse`, `onQuery`, cache events, queries, `close` | cache (callbacks), engine, event queue |
| Record cache, *S*/engine/cache.ts | entries with their timers | `add` (flush, refresh, cap), goodbye, expiry, re-query, `close` | browser |
| Event queue, *S*/fast_fifo.ts | chain of rings, one waiting promise, `closed` | `push`, `close`, `fail`, iteration | browser, consumer |
| Engine, *S*/engine/engine.ts | registered responders and browsers, receive loop, `closed` | `browse`, `advertise`, dispatch, `send`, `close` | transport |
| Public API, *S*/api.ts | per browse: timeout, abort listener, started/stopped | `withStop`, `dnsSdOverAdapter`, `makeAdvertiseHandle` | engine or adapter |
| Echo suppression, *S*/echo.ts | fingerprints of sent packets, with credits and age | `remember`, `consume` | transports |
| Node and Deno transports, dns-sd-node, dns-sd-deno | sockets, queue of packets and of waiting receivers | `send`, `receive`, `close` | engine |
| Wire codec, *S*/wire | none | encode, decode | all of the engine |
| Naming and TXT helpers, *S*/naming.ts, *S*/txt.ts | none | names from their parts and back, TXT input | responder, browser, adapters |
| Tauri guest adapter, dns-sd-tauri/guest-js | subscription of a session | start, event, stop | plug-in, API |
| Tauri desktop plug-in, dns-sd-tauri/src/desktop | sessions, tasks, one shared daemon, each behind a mutex of its own | `browse_start/stop`, `advertise_start/stop`, timeout and receiver tasks | mdns-sd daemon |
| Tauri Android and iOS plug-ins | sessions, resolutions in flight | platform callbacks, start and stop | NsdManager, Network framework |

How they interact. The engine's receive loop gives each decoded message to every
responder and browser, one after the other, on one event loop: handlers run to
completion, and what interleaves is messages, timers and the caller's calls. A
browser hands each record to its cache, which calls back once per record added or
removed; the browser derives instances and targets from those callbacks and pushes
announcements into a queue the consumer iterates. A responder schedules its own next
step with a timer and sends through the engine. The plug-ins are the
multi-threaded part: tokio tasks on the desktop, two threads on Android, a serial queue
and the main loop on iOS. Below the engine, each transport hears its own packets back
and tells them from a peer's by fingerprint.

What is hard, and what correctness means:

- *Responder.* A conflict may arrive between any two timers, while answers wait in
  the window and while a second announcement is due. Correct: one chain of timers,
  none lost; nothing of an old name is sent after a rename; no contested name is
  announced; nothing is exposed before the promise resolves; the promise settles;
  what was announced is withdrawn.
- *Browser and cache.* Records come in any order and are superseded, refreshed,
  withdrawn or expired at any moment, and part of a service may be known while the
  rest is not. Correct: derived state is backed by records, its two directions agree,
  nobody waits for what is known, the consumer's picture is the browser's, events
  keep the contract of *S*/types.ts, and floods respect the caps.
- *Event queue.* A push races the consumer's waiting promise; rings fill, wrap and
  are left behind. Correct: a FIFO queue that loses no item and no wake-up and ends.
- *Two responders.* Probes cross, packets are lost, and each side decides alone.
  Correct: one of them keeps the name, and they never share it for long.
- *Discovery.* Lifetimes, re-queries, goodbyes and lost messages of a browse and a service
  meet. Correct: what is up stays known, what has gone is forgotten, what was missed is
  found at the next query.
- *API.* Timeout, signal, the consumer's return, a rejected and a late answer race.
  Correct: one stop per start, an end that is explained, nothing left running.
- *Transports.* A bind fails late, a packet arrives while a receiver waits, a credit is
  taken by a peer's identical packet. Correct: every waiter is settled, order is kept,
  no host hears itself.
- *Desktop plug-in.* Commands, timeouts and receivers interleave between locks.
  Correct: a daemon exactly as long as there is work, no silent session, one Stopped
  message, no query without a session.
- *Mobile plug-ins.* Callbacks are late and services come back before they are handled.
  Correct: the consumer ends up believing what the system sees.
- *Wire codec and names.* Pointers, limits and damaged input; instance names with dots,
  labels that look like the protocol's. Correct: the reader ends and stays inside the
  message, what is encoded is decoded, what is damaged is rejected, and what is advertised
  is what is found.

`PROJECT.json` lists each hazard at its line, with the properties that cover it or the
reason why none does.

## 2. Modules

| Module | Models |
|---|---|
| `DnsRecords` | conflict and tie-break of records whose RDATA is a number |
| `RecordOrder` | `compareRdata` and `recordSort`, octet by octet |
| `Responder`, `NameClaim` | one responder, with the peers as its environment; two that want one name, and the link between them |
| `ResponderProofs` | the proofs about both |
| `ServiceLifecycle` | abstract: what any backend promises the consumer of a browse |
| `Browser`, `MCBrowser` | one browse over its cache; the symmetry of its instance |
| `BrowserTimers` | `Browser` with the grace timers of goodbyes |
| `Discovery` | a browse and the service it discovers, over a link and in time |
| `BrowserProofs` | the proofs about `Browser` and `Discovery`, with the refinement of `ServiceLifecycle` |
| `Fifo`, `FastFifo`, `FastFifoProofs` | abstract: the queue between producer and consumer; the chain of rings that implements it; the proof that it does |
| `BrowseStream`, `BrowseStreamProofs` | browse() and advertise() over an adapter; the proofs about them |
| `EchoSuppressor` | credits for packets sent, their age and capacity |
| `Multicast` | external: the group both transports send to and hear |
| `NodeTransport`, `DenoTransport`, `Transports`, `TransportsProofs` | the transports, each with the engine's receive loop; both on one machine; the proofs about them |
| `DomainNames` | the reader of names, octet by octet, and their writer with its table of suffixes |
| `WireProofs` | the proofs about `DomainNames`, `RecordOrder` and `DnsRecords` |
| `WireCodec` | encoder and decoder of messages |
| `ServiceNames`, `TxtRecords` | names built from their parts and taken apart; TXT attributes from the caller to the codec |
| `ServiceMessages` | the message that announces a service, and what a browse makes of one |
| `Wire`, `MCWire` | a datagram's way, whole or damaged; the messages, services and datagrams of its instance |
| `DesktopPlugin`, `MCDesktop`, `DesktopProofs` | the desktop commands and tasks; the symmetry of its instance; the proofs about them |
| `NativeBrowse` | the system's services, and the guest adapter that turns records into events |
| `AndroidPlugin`, `IosPlugin`, `MobilePlugins`, `MobileProofs` | the mobile browses; both against one consumer; the proofs about them |

`Discovery` extends `Browser` with the clock, the questions and the answers that it leaves
open; `NameClaim` composes two `Responder`s (one by EXTENDS, one by INSTANCE); `Transports`
composes the two transports over `EchoSuppressor` and `Multicast`; `MobilePlugins`
composes each plug-in with `NativeBrowse` and checks it against `ServiceLifecycle`;
`Wire` joins reader, codec and `ServiceMessages`, which extends the codec with the names, the TXT
attributes and the order of records.

Operators whose names end in `_` and a word, each under a comment that begins with
"Mutant", are faulty variants of the definition after them. No specification uses
them; they show that each property can fail.

### Responder

`control`, `naming` and `window` are fields of the class. `timers` holds the pending
timers, each with the closure it runs and how many probes or announcements precede
it. The history variables (`probes`, `contested`, `claimed`, `exposed`, `stopped`)
record what the peers and the caller observe and guard nothing but a second
`stop()`.

| Action | Code |
|---|---|
| `Start` | `start` with `rebuildRecords` and `beginProbe` |
| `SendProbe` | the probe timer, down to scheduling the next or `onProbeDone` |
| `ClaimName`, `LoseName` | `onProbeDone` without and with a conflict |
| `Announce` | the announce timer |
| `OnRivalProbe`, `OnLateProbe` | `onQuery` of a probe before and after `announcing`: tie-break, immediate defence |
| `OnQuery`, `FlushAnswers` | a plain question joining the window; the window's timer |
| `OnConflict` | `onResponse` with a contradicting record: set the flag, or `reprobe` |
| `Stop`, `EngineClose` | `handle.stop()`; `MdnsEngine.close()`, flag first |

`Rename` and `Reprobe` are the code's `rename` and `reprobe`, each with the branch
where the names are used up. `reprobe` cancels the timers and empties the window but
leaves `announcing` set, and so does the model. A name is the number of the rename
that made it, RDATA a number so that it is ordered, a message a set of records or a
question. Delays are left out: a pending timer may fire at any time. The tie-break
is stated by the least record only one side has, not by a walk over two sorted lists;
`LoopIsTieBreak` in `WireProofs` proves that the walk (`LosesInOrder`) is the same.

### Browser

One step is one record reaching the cache. `onResponse` handles a message record by
record, so that a message is a run of steps; between them the model allows other
steps too, which adds behaviours and removes none. `Learn` and `Refresh` are `add` with
a new and with a known record, `Goodbye` is TTL 0, `Expire` the end of a
lifetime or of a goodbye's grace. Each action carries the callbacks it causes through
to the events: `Discover`, `RemoveInstance`, `SetEndpoint`, `LoseEndpoint`, `SetTxt`
and `SetAddresses` are the branches of `onCacheEvent`. Where the code removes the
flushed siblings and then adds the record, the step shows the net effect; the events
it merges differ only in addresses and TXT attributes, which are not part of an event
here. `Close` leaves the instances as they are, as the code does. A PTR that carries the cache-flush
bit, which `add` would honour, is left out (`FlushBits`): no responder may send one.

`BrowserTimers` adds what a repeated goodbye does: `scheduleGoodbye` clears the record's timers and
sets a new one (`Restart`), so that what fires (`GraceOver`) is always the latest. `turn` makes
such a restart a step of its own, which `Browser`, where nothing changes, does not show.

### Discovery

The actions of `Browser` stay what they are; `Handle` runs them for the records of one
response, in the passes of `onResponse`, with nothing in between, and adds the timers of
the record (`left`, the ticks to its removal, and `due`, re-queries whose time has come) and
the questions that follow (`FollowUp`). `PtrQuery` is the periodic query with its backoff,
`Requery` a timer of `scheduleLifetime`, `TimeIsUp` the removal. On the other side `Answers` and
`Additionals` are `answersFor` and `additionalsFor`, `SendAnswers` ends the aggregation window,
`ServiceStops` withdraws, `ServiceCrashes` does not. `Tick` is the clock: it waits for all
that is due or under way, so a tick is longer than a delivery, a window or the second between two
announcements. The four re-queries are `Requeries` of the last ticks of a lifetime.
`ServiceAssumption` fixes what is discovered: one instance, on one host, at one port, with at
most one TXT record, and a cap that lets it in. The number of addresses is open.

### FastFifo

Rings are records with the code's `buffer`, `top` and `btm`; the chain is a sequence
from tail to head. `Take` runs the iterator up to its next `yield` or `await`,
`Resume` what follows a settled promise. `Wrap` is the code's `& mask`. Items are numbered in
the order pushed; the history `log` has every slot enqueued, the end or the failure among
them, and `Queue` is what of it the consumer has not been given. `ImplementsFifo` maps that
to the queue of `Fifo`.

### NameClaim

Both responders run the code of `Responder`; packets go over a queue that keeps order
and may lose `MaxLosses`. `OurTimer`, `RivalTimer` fire one timer and send what it sends,
`OursReceives`, `RivalReceives` hand a packet to `onQuery` or `onResponse` as
`runReceiveLoop` does, `CallerActs` is `advertise` and `stop`. Two assumptions about time
are built in, since delays are not modelled otherwise: a packet arrives before its
sender's next timer fires (a link is faster than 250 ms), and while one host's probe
timer is pending the other's fires at most twice (the intervals are equal). The rival has
other RDATA, and the same host name or another (`RivalHost`).

The receive loop first drops what comes from one of `transport.localAddresses()` (`DropOwn`). By default
these are the machine's own, so that two processes on one machine (`SameMachine`) hear nothing of each
other and both keep the name, as docs/architecture.md:124 says; with `localAddresses: []`
(`undeclared`) they do hear each other. `FromOwnAddress` tells the two apart, and the properties speak
of responders that hear each other.

### BrowseStream

`gen` is the generator `withStop` is, `queue` and `closed` the FIFO under it, `stopped`
and `calls` the stop closure with the promise continuations it left, `handle` and
`native` the adapter's promise and what it started. `FirstNext`, `NextItem`, `Deliver`,
`Return`, `ReturnFresh` and `ReturnWhilePending` are the consumer's calls, `TimerFires`
and `Abort` the other two reasons to stop, `BrowseStarted`, `BrowseRejected`,
`NativeEvent`, `NativeStops` and `NativeDies` the adapter's side. `StopHandle` is the continuation
that stops what was started after all. The `Advert...` actions are
`makeAdvertiseHandle`, whose signal counts only once there is a handle.

### Transports

`NodeSend`, `Bound` and `BindFails` are `send` and `ready`, which share one lazy bind;
`NodeReceive`, `NodeResume` and `OnMessage` the receive loop, its promise and the socket's
callback; `Close` and `NodeEngineClose` the two ways down. `DenoSend`, `DenoReceive`,
`DenoReceiveEnds` and `DenoClose` are the Deno methods, whose socket is there from the
start. `Remember` and `Consume` are the suppressor's methods; time is `Tick`, which ages
entries and packets alike. `missing` is a history variable: it counts own copies whose
credit was taken by an identical packet, came too late, or was evicted.

### DomainNames, WireCodec, names and Wire

`NameStep` is one turn of the loop in `Reader.name`, with the code's locals as a record;
`Jump` follows a pointer, `TakeLabel` reads a label. The writer is `Writer` with
`Writer.name`: `WriteLabel` writes a label and may `Remember` the offset of the suffix that begins with
it, `WriteName` writes labels up to the first suffix the table has and then `PointerTo` it. The table's keys
are sequences of labels; the code joins them with NUL and does not check that a label holds none, so
labels with a NUL are left out. `WireCodec` writes and reads messages as functions of octet
sequences: `EncodeRecord`, `EncodeMessage`, `DecodeRecord`, `DecodeMessage` with `SectionCount`
(`checkSectionFits`), and the formats of TXT, SRV, NSEC and IPv6. The limits (jumps, label
and name length, the last offset a pointer can name) are constants, so that a small
instance meets them.

`ServiceNames` and `TxtRecords` are naming.ts and txt.ts, `ServiceMessages` joins them at both
ends: `Announcement` is what `rebuildRecords` makes of an advertisement, `Heard` what `onResponse`
and `emit` tell a browse of a message. A text is its octets; the words of the protocol ("tcp",
"services", ...) are constants, one octet each in the run, so that names are short. A service type
called like a protocol is left out: the code does not refuse it, and takes its label for the
protocol's. In `Wire` a datagram is one of three: octets a peer made up (`ReadAnyName`), a message
given as such, or the announcement of a service (`Advertise`, which refuses TXT keys that could not
be read back).

### DesktopPlugin

A step is what a tokio task does between two awaits. `call` and `stop` are program
counters of the start and stop commands. `BrowseStart`, `BrowseInsert`, `BrowseTypes`,
`BrowseType`, `RegisterTask` and `BrowseFails` are `browse_start_impl`; `BrowseStop`,
`TimeoutFires`, `StopTasks`, `StopTypes`, `StopEnds` are `stop_browse_session` called by a
command or by the timeout task; `TimeoutCutOff` is that task ended by the abort it gave
itself; `ReceiverCancelled` and `ReceiverCloses` the receiver tasks; the `Advertise...`
actions the other two commands. A stop copies the known types before it awaits the daemon, so
`StopTasks` puts them in the stop's own record and `StopTypes` stops those; what a start browses
in between is not among them (`early`, see `Leaked`). The mdns-sd daemon is external: `running`,
`listeners` and `registered` are what the code uses of it.

### Mobile plug-ins

`NativeBrowse` has the system's services and `createBrowseMessageHandler` (`PhaseAfter`,
`KindsOf`). On Android, `AndroidRunNsd` is what NsdManager's thread does next: a callback of the
discovery listener, the answer to a resolve (`OnResolveAnswered`, before SDK 34), or handing a service-info callback to
the main thread, where `AndroidRunMain` runs it. Either thread may be behind by any number of events.
`StartInfoCallback` registers a callback, which may be refused; `HandleLost` is the removal both threads
share; `OnServiceUpdated` does not look whether its callback is still registered, and `late` remembers the instances
last told of by one that is not. A callback's own steps are not interleaved with those of the other thread. Answers
come with and without a host. On iOS, `Results` are
posted to the session queue (`RunStart`, `RunResults`, `RunResolution`, `RunStop` run it),
and `ResolverSettles` is a resolver on the main loop; `ApplyResolution` is
`applyResolution`, which looks whether the instance is still there, not whether the
resolver is still the one wanted.

## 3. Runs

| Run | Checks | Bounds | Result |
|---|---|---|---|
| `responder` | six invariants, `ClaimsAreUncontested`, liveness `ReadySettles` | 2 renames, 3 probes, 2 announcements; peers' RDATA below, equal to and above ours | holds |
| `name_claim` | `NeverBothHold`, `OneKeepsTheName`, liveness `SharedNameIsGivenUp` | 3 renames, 3 probes, 2 announcements, two losses, one machine, own addresses declared or not | holds |
| `browser` | five invariants and the contract `KeepsContract` | 3 instances, 2 hosts, 2 addresses, caps of 2 instances and 5 records | holds |
| `browser_goodbye` | liveness `GoodbyeTakesEffect` | 1 instance, 1 host, 1 port, 1 address, 2 TXT records, caps of 1 and 4 | holds |
| `browser_null_endpoint` | `NonNullEndpoint` | 1 of everything | violated |
| `discovery` | `GoneIsForgotten`, `FoundWithinInterval`, action property `RenewedWhileUp` | 2 starts, 2 losses, lifetimes of 3 and 6 ticks, 2 re-queries, queries up to 4 ticks apart | holds |
| `fast_fifo` | `NoLostWakeup`, the refinement `ImplementsFifo`, liveness `Ends` | 8 items, first ring of 1 slot | holds |
| `browse_stream` | `StopsOnce`, liveness `StopsEverything` | 3 events of the native browse | holds |
| `transports` | `OwnEchoesHaveCredit`, `NoLostWakeup`, action property `InOrder` | 2 sends, 2 datagrams, echoes of 1 tick, 1 entry | holds |
| `wire` | `RoundTrips`, `ServiceIsReadBack`, `DamagedIsRejected`, `StaysInside`, action property `MakesProgress` | see below | holds |
| `desktop` | `DaemonLifetime`, `NoSilentSession`, `StopIsToldOnce`, `NoStrayListener` | 2 browses of 2 types, 1 advertisement, 2 daemons | holds |
| `mobile` | `AgreesWithSystem`, action property `LifecycleKept` | 2 instances, 2 versions, 4 changes, 3 callbacks or resolvers, answers with and without a host | holds |

Eight more configurations reproduce findings of section 6: `ResponderGoodbyes` (module
`Responder`), `NameClaimHosts` (`NameClaim`), `BrowserFoundAgain`
(`Browser`), `DiscoveryRenewal`, `DiscoveryAddresses` (`Discovery`), `AndroidCallbacks`
(`MobilePlugins`), `NameForward` (`MCWire`) and `BrowseUnstarted` (`BrowseStream`). Every
property of each is violated; `ResponderGoodbyes` has two and `AndroidCallbacks` three, which
TLC's option `-continue` shows.

Why the bounds are enough. *Responder:* two renames give a first, a middle and a last
name, so a conflict can hit a name never claimed, one claimed after a conflict, and
the last one allowed; 3 and 2 are the code's own numbers of probes and announcements.
Three values of RDATA decide the tie-break either way and leave it tied.
*Browser:* three instances over a cap of two refuse one; two hosts let an instance
move and let instances share a host; two addresses let one go while the other stays;
five records are fewer than the thirteen in play, so that the cache cap bites, and as
many as two services that share a host with one address need. The TXT attributes,
which multiply the states without touching the rest, have a run of their own, in
which two competing TXT records flush each other and expire. *FastFifo:* eight
items pass through rings of 1, 2 and 4 slots, each of which fills and wraps, into one of 8.

*NameClaim:* a pair that hears each other and one that does not, both orders of starting,
probes that cross at any of the three, a loss of a probe and of an announcement; three renames leave a name after each loss has
caused one. *BrowseStream:* one event to be delivered, one to be buffered, one to arrive
too late. *Transports:* one entry of capacity evicts at the second datagram; one tick is a window
that can end before or after the echo; two identical datagrams from two hosts share
a fingerprint. *Wire:* every datagram of up to four octets that are a length, the end,
a pointer or a reserved prefix, and longer ones of fewer kinds, under limits of two jumps,
two octets a label and sixteen a name, so that each limit is met and passed; messages with
each kind of record, with suffixes shared on both sides of offset 20, the last a pointer
may name, and every cut and overclaim of each; services whose instance name holds a dot or a
protocol's label, in either case, with and without subtypes, a host of their own and each form
of TXT value, and browses that match them or differ in one part. *Desktop:* two browses of the same two types
share and outlive each other's daemon, and start while the other stops; a second daemon can
follow the first. *Mobile:* an
instance can come, go, come back and go again while its first resolution is under way, and a
callback registered for its first appearance can be heard of in its second, or after it has gone.

*Discovery:* the order of the code's numbers is kept (goodbye's grace < TTL of the host's records <
longest interval < TTL of the PTR), at a length where each expires and is found again; as many
messages may be lost as there are re-queries, so that renewal succeeds at the last one and
fails; the second start follows a goodbye or a crash. TXT records, which are handled as SRV
records are, have no lifetime of their own here.

`MaxItems`, `MaxStarts`, `MaxLosses`, `MaxEvents`, `MaxSends`, `MaxDaemons`, `MaxChanges`, `MaxCallbacks` and
`MaxResolvers` are bounded for TLC's sake; `MaxRename`, `ProbeCount`, `AnnounceCount`, the
caps and the codec's limits are constants of the code, made small.

The symmetry of `browser` permutes instances, hosts and addresses, that of `desktop`
browses and types, none of which is named by the specification; both runs
check safety only. Deadlock is
checked in `discovery`; elsewhere what is closed has nothing left to do.

## 4. Fairness

- `Responder!FairSpec`: weak fairness of each kind of timer. JavaScript's event loop
  runs a timer that stays pending; one that is cancelled owes nothing. Peers,
  callers and the engine owe nothing either: conflicts may go on for ever, and
  `ReadySettles` still holds since the names run out.
- `BrowserTimers!FairSpec`: weak fairness, per record, of the timer a goodbye set: it fires or
  another takes its place. So a goodbye repeated for ever may put the removal off for ever,
  and `GoodbyeTakesEffect` says no more. Expiry at the end of an ordinary lifetime is not fair; no property needs it.
- `FastFifo!FairSpec`: weak fairness of `Take` and `Resume`. A settled promise
  resumes its awaiter; `Take` is the consumer of a `for await` loop asking for the
  next item. A consumer that leaves is covered by `Return`, which ends the iteration.
- `BrowseStream!FairSpec`: every call to the native side is answered, the timer fires,
  promises settle, and a consumer that was given an item asks for the next or leaves.
  Nothing obliges a signal to abort or a consumer to begin.
- `NameClaim!ClaimSpec`: weak fairness of each host's timers and of the link, which
  delivers what it does not lose, to a receiver that may drop it. Callers and losses owe nothing; losses are finite.

The other modules state safety only.

## 5. Proofs

`ResponderProofs` proves, for any number of renames, at least one probe and one
announcement, and any sets of RDATA: type correctness, `WindowHasTimer`,
`PendingAnswersAreCurrent`, `OneChain`, `SilentUntilReady`, `ContestedIsGivenUp`,
`StopWithdrawsLastName` and the action property `ClaimsAreUncontested`. Assumptions:
`MaxRenameAssumption`, `ProbeAssumption`, `AnnounceAssumption`, `DataAssumption`.

The inductive invariant is `RInv`. None of the properties is inductive alone. That
nothing is sent before the promise resolves needs the flags to agree (`announcing`
exactly when the promise has resolved, an open window only then); that a contested
name is never kept needs the conflict to be remembered for as long as the name is
held, and names to be taken in order, so that a name contested long ago is not met
again; that probing was complete at a claim needs each pending timer to
say how many probes have gone. Each action has one lemma, and the fragments
`ProbeNextName` and `GiveUp` one that `LoseName` and `OnConflict` share.

It also proves, about two responders of `NameClaim` that hear each other, `NeverBothHold`
(`OneHolderOfAName`) for any host names, and `OneKeepsTheName` (`OneOfThemKeepsTheName`) for two
processes of one host; any number of renames and losses, any RDATA. Both properties speak of what
happens while nothing is lost. Assumptions: those
above, `RivalAssumption`, the two about time that the model builds in (section 2), and two hypotheses TLC shows to be
needed:

- `ThreeProbes`: at least three probes. With two, TLC finds two holders of one name.
- `OneAddressPerHost`: two processes of one host have one address between them. They hear each
  other only with `localAddresses: []`, and then a responder has the loopback address (Deno) or none
  (Node). With several, each record of one would contradict each of the other's, for `onResponse`
  (responder.ts:416) compares each with each. Different hosts may have any addresses.

The invariant `ClaimInv` looks at each host through its view (off, probing, holding or gone; its name, the
probes it has sent, whether it has heard a conflict), which is all the other can tell by. `Pair` says of the two
views and the link, in both directions: a packet says only what its sender still means (`PacketsOf`); of two that
probe for one name, the one that would lose and has not heard so is not so far ahead of the other's
next probe, or of the one under way, that it would claim the name first (`Lags`, where three
probes are needed); one that probes for a name the other holds has the announcement under way, or is early
enough for its own probe to be answered (`Learns`); and of two holders one has left (`Undisputed`).
One lemma per kind of step says what it does to a pair of views, and serves both hosts
(`PairIsSymmetric`). `KeepInv` adds that only one of two on a host ever concedes: the one with the
lesser RDATA, or the one that came after the claim.

`BrowserProofs` proves, for any instances, hosts, ports, addresses, TXT records and
caps: type correctness, `DerivedFromCache`, `MembersMatch`, `NoneLeftWaiting`,
`ConsumerKnowsEndpoint`, `WithinCaps`, and `KeepsContract`: `Browser` implements
`ServiceLifecycle` under the mapping `Progress`. Assumptions: `NoneAssumption` (null
is no instance, host, port or TXT record) and `CapAssumption`.

The invariant `BInv` adds to the properties that an endpoint is known as a whole or
not at all (`EndpointWhole`) and that a closed cache is empty. Without the first,
an address could leave an instance waiting whose host is known and whose port is not. The derived state
is touched by six operators only; each has one lemma, that it keeps `Shape` and is a
step of the contract, and the actions add what happens to the cache. The caps need
finite sets, and so have an induction of their own (`Caps`).

`BrowseStreamProofs` proves, for any number of native events, `StopsOnce` and the action property
`EndIsExplained`: a stream that is being read ends only because the timeout fired, the signal was aborted or
the start was rejected, and only once all that was queued has been read. Assumption: `SlotAssumption`. The
invariant `BSInv` adds the types, that
nothing is stopped or about to be before the stop closure has set its flag (`StopInv`),
that a failure is queued only when the start was rejected (`FailInv`), and that the advertisement's
flag counts its stops (`AdvertInv`). `EndInv` goes with it for `EndIsExplained`: what ends the queue is its last slot,
an end comes from the stop closure, and while the stream is read that was called by the timer or
the signal. Neither property is inductive alone: that a stream ends for a
reason needs what is still in its queue, and that there is one stop needs the flag that
keeps a second one away.

`FastFifoProofs` proves, for any first ring and any number of items, `NoLostWakeup` and the
refinement `ImplementsFifo`. Assumptions: `HwmAssumption`, `ItemsAssumption`, `SlotAssumption`. That the
rings behave as a queue says nothing inductive about a ring by itself, so `FInv` numbers the slots
of the history `log` and says where each is: a ring `Holds` the slots from one number to another,
in the places that `Distance` and `Place` count up and around from `btm`, and no other place
is taken; the rings of the chain hold consecutive slots, all but the newest having been full
when they were left. Lemmas about one ring (what a push and a shift do to what it holds) carry
the lemmas about the chain, and these the two steps of the queue: a slot enqueued is the last
of what is left, a slot delivered the first.

`DesktopProofs` proves, for any browses, types, advertisements and number of daemons,
`DaemonLifetime`, `NoSilentSession`, `StopIsToldOnce` and `NoStrayListener`. Assumptions:
`CallAssumption`, `DaemonAssumption`. The invariant `DInv` says which calls need the daemon at
which of their steps (`DaemonInv`, `Needs`: a start only up to its lock of the sessions), that a session is
removed once, by its stop, only after it was inserted, and that a stop which did not overtake its
start has copied all the types (`CallInv`), that types are recorded
before they are browsed and no receiver of a session ends without a word (`TypesInv`), and that every
listener belongs to the present daemon and to a call whose end has not been notified, but for an
early one (`ListenerInv`). None of the four properties is part of it; each follows.

`TransportsProofs` proves, for any datagrams, echo lifetimes and capacities, all three properties of
`Transports`. Assumptions: `NullAssumption` (null and undefined are no datagram), `HostAssumption` (a Node host
and a Deno host), `EchoAssumption` (room for one entry at least). For `NoLostWakeup` and the action property
`InOrder`, `TInv` adds to the first that what is queued or handed over is a datagram, for which the
network has to carry nothing else; without it a datagram could be taken for the null that ends a
`receive()`. For `OwnEchoesHaveCredit`, `EchoInv` adds three things:

- what is remembered stays in its bound, with one entry a datagram (`Remembered`), so that `Entry` finds the
  one there is before and after entries are pruned, renewed, evicted or used up;
- every copy under way has at most its window left (`InWindow`);
- an entry outlives the copies it is for (`Covered`), so that what expires or is pruned takes no credit
  that a copy in time needs. This holds because a second send renews the whole entry.

The copies are counted as pairs of a packet and its number in the bag, so that sending adds one pair
and hearing takes one away (`EmitCopies`, `ArriveCopies`), while ageing maps pairs into pairs (`AgedCount`).

`BrowserProofs` goes on to prove, for any lifetimes, intervals, numbers of re-queries, announcements, starts
and losses, all three properties of `Discovery`, and that the browse in it is one of
`Browser`, so that what is proved of a browse holds in it. Assumptions: `TimeAssumption` (the order of the
code's lifetimes), `ServiceAssumption` (one service), `NoneAssumption`, `CapAssumption`. Everything turns on
one record, the PTR, which the browse has exactly when it has the instance (`Browsing`):

- `GoneIsForgotten` by `GoneInv`: a service that has gone says nothing more, and from the first tick on
  the ticks since and those its PTR has left add up to no more than its lifetime; if it withdrew and
  nothing was lost, the goodbye is still the last message under way, or is being handled, or the PTR has no
  more than the grace left.
- `FoundWithinInterval` by `FoundInv`: while the PTR is missing it is on its way (asked for, about to be
  sent, sent, being handled), or the next query comes within the patience that the messages lost allow.
- `RenewedWhileUp` by `RenewInv`, for hosts with one address (`OneAddress`; finding 11 is what happens to
  others): a lifetime that began when the service was up has cost one message for each
  of its re-queries so far, the present one excepted while it is still under way (`Retried`). That needs
  withdrawals to be over with the first tick (`WithdrawalInv`), a PTR never to come without the
  rest (`WholeInv`: an instance found anew has what is cached of it renewed by the same message), and
  addresses to be cached for known targets only (`TargetInv`: a message about one is not ignored).

`MobileProofs` proves, for any instances, versions, endpoints and numbers of changes, callbacks and
resolvers, and however far the two threads of Android are apart, `AgreesWithSystem`
(`ConsumerAgrees`) and the action property `LifecycleKept` (`LifecycleIsKept`). Assumptions:
`EndpointAssumption` (Absent is no endpoint and no snapshot, Nowhere an endpoint) and
`InstanceAssumption` (finitely many instances). What `AgreesWithSystem` excepts on Android it names:
`failed` and `late`.

- On iOS everything runs on one queue, and `IosInv` says that what the consumer was told is what the
  session keeps (`Kept`: known exactly with a snapshot; resolved only with an answer applied, and always with
  one that had a host and a port), and that of the results posted the last are the system's of now
  (`ResultsAreCurrent`). From `Kept` each step is one of `ServiceLifecycle`; a late resolution of an
  instance that went and came back does no harm, since it tells of an endpoint.
- On Android nothing the session keeps is current: two threads handle what happened, and a loss is told twice.
  `AndroidInv` looks, per instance, at where the events about it stand in the queue of NsdManager's thread
  and in that of the main one (`View`). An instance the system does not have is `Withdrawn`: its loss is
  still to come and no find after it, or it is lost and has no callback; the consumer has `Heard` of that, is about
  to, or holds it from a late update; and each update of a callback still registered has that callback's
  loss behind it (`Outlived`). One it has is `Announced`: it is
  still to be found with no loss after, or it was found, and has failed, or is known, or is `Promised` by
  an update or an answer with no loss behind. Neither is
  inductive without `Alternates`: an instance is lost before it is found again, and a callback that
  is registered is lost before the next find. Each kind of event has a lemma about the view
  whose first event it is, each event the system adds one about what comes last.

`WireProofs` proves, for every datagram and any limits, `StaysInside` and
`MakesProgress` under `DatagramAssumption` and `LimitAssumption`. `NameInv` adds to
`StaysInside` the types and `CursorInv`: before the first jump the position has not gone back behind
the start, after it the frozen cursor is beyond it. Without that, nothing says that the
caller's cursor has moved on when the name ends. `MakesProgress` gives the reader a measure
that decreases (the lowest pointer, then what the name may still grow by), which is why
the loop ends.

It proves for names what `RoundTrips` checks of messages: a name that was written is read back
(`NamesComeBack`), under `PointerAssumption` (an offset that may be pointed at fits in 14 bits). The
two sides meet in `Way`: a name is at an offset of a datagram if there are places, one for each label and
one for the end, each of which follows the one before at once or is pointed to from there and is
below all before it. Only octets at given offsets count, so that what is written elsewhere does not matter.

- The reader (`NamesAreRead`): for every such name, after each turn of the loop the reader is
  behind the label it took last or at the target of the pointer there (`OnTheWay`), with no more jumps than
  labels, and the lowest target so far is one of the places, which is why the pointer rule never rejects it.
- The writer (`NamesAreWritten`): its table is `Sound` when each suffix in it is at its
  offset. `Wrote` is what holds after each label; the places of a new name are those of its own labels, and then
  those of the suffix it points to (`PointsBack`), which is below it because the table is sound.
  A suffix of a name has the name's places from there on (`SuffixWay`), so the table is sound again.
- The rest of a message (`TableStaysTrue`): a new writer's table is sound, and stays so when other
  octets are put or a record's length is filled in.

The names are those of non-empty labels without a NUL, no longer than the limit, whose total is within the name's (`Legal`).
The encoder itself checks only the labels, so a name beyond 255 octets is written and then rejected by readers.

It also proves what the tie-break rests on, for RDATA of any length: `CompareRdata` and
`RecordSort` are total orders (`RivalsDisagree`, `RecordSortIsAnOrder`); the loop over two sorted
lists decides by the least record only one side has (`LoopIsTieBreak`); of two hosts whose
records share names and types exactly one loses unless they are the same
(`TieBreakHasOneLoser`); and two hosts whose address records are not compared both lose
(`StrangersBothLose`, finding 2).

Model-checked only, and why:

- the liveness properties (`ReadySettles`, `GoodbyeTakesEffect`, `Ends`, `StopsEverything`,
  `SharedNameIsGivenUp`), which are out of the prover's reach;
- `RoundTrips`, `ServiceIsReadBack` and `DamagedIsRejected`: `WireCodec` is recursive, and what a recursive
  definition computes for every input takes an induction over data. Of `RoundTrips` the part
  about names is proved (`NamesComeBack`), for they are written by a recursive function and read step by step.

## 6. Findings

With the run `browser_null_endpoint`:

1. *An update without an endpoint.* After its SRV record has
   expired an instance is still `resolved` (query.ts:296), and a change of TXT is
   reported as an update with null host and port, which types.ts:151 rules out.

Reproduced by a configuration, or seen while modelling:

2. *Two hosts lose the tie-break against each other* (`NameClaimHosts`).
   `losesTieBreak` (responder.ts:475) compares all our unique records, the host's address
   among them, with only those of the peer's whose name and type we share. On different
   hosts our address record meets the peer's TXT or SRV, type 1 is the lesser, and both
   lose; both rename to the same next name, until both have used up their attempts.
   Two processes on a host with one address share the address record and are not affected (`name_claim`).
   `WireProofs` proves both halves: `StrangersBothLose` for any two hosts whose address records are not
   compared, `TieBreakHasOneLoser` for hosts whose records share names and types.

3. *A PTR is never renewed* (`DiscoveryRenewal`). The re-query for an expiring PTR (cache.ts:149)
   names that PTR as a known answer, with the lifetime it was received with (query.ts:166);
   the responder suppresses what is known with half its lifetime left (responder.ts:449). A service that
   is up is reported removed every 75 minutes, and found again at the next query, up to an hour
   later. With the lifetime that is left in the known answer the property holds.

4. *A rename after the first claim leaves the old name behind* (`ResponderGoodbyes`).
   `reprobe` (responder.ts:493) sends no goodbye for the old name, and `stop()`
   withdraws the current one only.
5. *Closing the engine drops the goodbyes* (`ResponderGoodbyes`). `close()` sets its
   flag (engine.ts:142) before it stops the responders, and `send()` then drops what
   they send.
6. *A service found again is not resolved* (`BrowserFoundAgain`). If the PTR goes and
   returns while the SRV is still cached, the answer to the new SRV question is a
   refresh and no event (cache.ts:98), and the instance stays unresolved until the
   cached record expires or a different one arrives.
7. *A callback is forgotten* (`AndroidCallbacks`). A late `onServiceInfoCallbackUnregistered`
   removes whatever callback the key has by then, which is never unregistered.
8. *A pointer may point forward* (`NameForward`). `minJumpTarget` starts at the end of
   the message (reader.ts:138), so that the first pointer is not held to point backwards, as
   the comment says. The reader still ends, inside the message.
9. *A timeout that stops itself* (commands.rs:284). `stop_browse_session` aborts the
   timeout task it may be running in, which ends at the next lock it has to wait for:
   the daemon and the queries may stay. `DaemonLifetime` and `NoStrayListener` (`Leaked`) except
   it by name.
10. *The guest adapter drops Stopped messages* (adapter-core.ts:173), also those the
   desktop plug-in sends when a receiver closes: the consumer's stream goes on, silent.
11. *A cache-flush has no grace* (cache.ts:119). Of a host's addresses, each announced
    with the flush bit (responder.ts:133), the last in a message removes the others
    (`DiscoveryAddresses`).
12. *A stream nobody began is never stopped* (`BrowseUnstarted`). `withStop` cleans up in
    the `finally` of an async generator (api.ts:131), which does not run when `return()`
    comes before the first `next()`; the browse the adapter has started runs on. The
    comment says it always cleans up.
13. Comments: labels are said to be read as Latin-1 (reader.ts:125) and are read as UTF-8;
    the encoder, said to round-trip losslessly (encode.ts:5), writes empty labels and names
    over 255 octets that its decoder misreads or rejects.
14. *A service is announced without its subtypes* (query.ts:265). A found service's subtypes are read
    from the name of its instance, which never holds one, so that they are always empty; and of
    the subtypes asked for only the first is browsed (query.ts:101). `ServiceIsReadBack` leaves subtypes aside.
15. *A start that fails leaves its browse behind* (commands.rs:164). The error of `daemon.browse` is
    returned with the session registered and the earlier types browsed; the caller has no handle to stop
    it, and the guest adapter sets no timeout. A timeout that fires before its start has ended leaves behind
    what the start goes on to browse. `NoStrayListener` excepts both by name (`Leaked`).
16. *A lost service comes back* (`AndroidCallbacks`, `LostStaysLost`). `onServiceUpdated`
    (DnsSdPlugin.kt:234) does not ask whether its callback is still the session's: an update that waits on
    the main executor while `onServiceLost` removes the service tells of it again, and no loss follows.
17. *An update without a host* (`AndroidCallbacks`, `UpdatesHaveEndpoint`; on iOS too). Of an
    instance already resolved, a record without host or port is passed on as an update
    (adapter-core.ts:206), which the comment above it rules out.

## 7. Not modelled, and the plan

Not modelled: a PTR with the cache-flush bit; the errors `encodeIpv6` throws for addresses that are
none (encode.ts:255); exact delays (any pending timer may fire, with the two assumptions of `NameClaim`;
`Discovery` counts ticks); the wording of messages and logs; the
enumeration of interfaces; the mobile advertise commands, which are one call of the
platform each; and the platforms' own discovery services. The test support and the
examples are not part of the program.

Next:

1. A rename in `Discovery`: what a browse makes of a service whose name changes while it is
   announced.
