# TLA+ verification of zenoh-plugin-lcm

The repository bridges LCM (messages over UDP multicast) and Zenoh. This
directory holds a TLA+ model of its core, the TLC instances that check it and
theorems about it that TLAPS proves. Paths below are relative to the
repository's root.

## 1. The system

| Part | Source | State it keeps | Operations |
|---|---|---|---|
| Zenoh -> LCM task | `zenoh-plugin-lcm/src/zenoh_to_lcm.rs` | its place in the loop, the message in hand | declare the subscriber, receive a sample, map and filter its key, send, record the number, prune |
| LCM -> Zenoh task | `zenoh-plugin-lcm/src/lcm_to_zenoh.rs` | its place in the loop, the message in hand | receive, check the number, filter and map the channel, put |
| Loop prevention | both of the above | `sent_sequences`, a `HashSet<u32>` behind an async `RwLock` | insert, `prune_sent_sequences`, remove |
| LCM transport | `lcm-transport/src/multicast.rs` | `sequence_counter` (atomic u32), the socket, the reassembler | `send`, `send_fragmented`, `recv`, socket set-up |
| Reassembler | `lcm-transport/src/fragment.rs` | `pending`: fragment sets by (sender, number) | `process`, `expire_stale` |
| Wire protocol | `lcm-transport/src/protocol.rs` | none | encode and parse short messages and fragments |
| Types | `lcm-transport/src/types.rs` | none | `LcmMessage`, `LcmUrl::parse` |
| Mapping | `zenoh-plugin-lcm/src/mapping.rs` | none | channel to key expression and back |
| Configuration | `zenoh-plugin-lcm/src/config.rs` | none | defaults, (de)serialisation, `is_allowed` |
| Plugin | `zenoh-plugin-lcm/src/lib.rs` | the running plugin's config and shutdown channel; the statics with the thread numbers and the runtime | `start`, `run`, admin space, drop |
| Stand-alone bridge | `zenoh-bridge-lcm/src/main.rs` | none | command line and file to configuration, then the Zenoh runtime |
| External | Zenoh, the kernel, the network, other LCM programs | the subscriber's FIFO, the socket's buffer, datagrams on their way | publish, deliver, lose, reorder, duplicate |

How they interact. `run` in `lib.rs` spawns the two tasks on a multi-threaded
tokio runtime and gives both the same transport and the same
`sent_sequences`. A sample from Zenoh is multicast with the next sequence
number, and the number is then inserted in the set. Since
`IP_MULTICAST_LOOP` is on, the message comes back to the bridge's own socket;
the other task looks every received number up in the set, and skips and
removes what it finds. In the other direction Zenoh's locality
(`allowed_origin` and `allowed_destination` `Remote`) does the same job. Below
this level the transport cuts a payload into datagrams, and the reassembler of
every receiver puts them together again.

Two such bridges join two LCM groups over Zenoh (`README.md:34-44`): what one
puts is a sample of the other one's subscriber, on a key that the two may map
to different channels. The plugin runs in the stand-alone bridge, which starts
it once, or in a Zenoh router, which may drop it and start it again; `start`
returns before `run` has opened anything, and `run` and the tasks go on by
themselves until the returned object is dropped.

What is hard about it:

* `send` and the insertion are separate steps with awaits between them, and the
  task that reads the loopback runs in parallel;
* the set knows numbers only, and every LCM program counts from its own start;
* loopbacks get lost, so numbers stay in the set; pruning relies on the order
  of numbers, and the u32 counter wraps;
* a send may fail when some of the fragments are out already;
* datagrams get lost, duplicated and reordered, and sets time out only when
  some fragment arrives;
* a reassembler must cope with any combination of header fields, and `recv` with
  any datagram;
* a program may die inside `send` and count from 0 again afterwards;
* `run` may fail after `start` has succeeded, or be dropped while it still opens
  its session; an aborted task goes on to its next await;
* the runtime of a router's plugin is a static that is made once.

What makes each part correct: nothing the bridge sent is published back and
nothing else is skipped (loop prevention); records are neither lost while they
are needed nor kept for ever (pruning); a task goes on whatever fails (tasks);
what is delivered is what was sent, and is delivered if nothing is lost
(transport); a set's counter, mask and buffer agree, and sets leave for the
right reason only (reassembler); a message passes two bridges once, in order and
not back (sites); settings reach the plugin as asked, a start settles and a stop
leaves nothing behind (process). Section 8 lists the parts without a model.
`PROJECT.json` lists every hazard at its line.

## 2. The modules

| Module | What it is |
|---|---|
| `Bridge` | the two tasks, `sent_sequences`, the counter and the two queues they read |
| `BridgeLedger` | `Bridge` with history variables that book what happens to its numbers |
| `FragmentReassembler` | `process`, `expire_stale` and time, for any fragments |
| `LcmTransport` | senders, the network and one receiver, which uses the operators of `FragmentReassembler` through `INSTANCE` |
| `LcmProtocol` | the encoders and `parse_datagram`, used by `LcmTransport` |
| `MessageChannel` | the abstract specification `LcmTransport` implements |
| `ChannelMapping` | channel names to keys and back, and what a subscription matches |
| `BridgedSites` | two instances of `Bridge`, with `ChannelMapping` between them |
| `Relay` | the abstract specification `BridgedSites` implements |
| `PluginConfig` | the configuration, `LcmUrl::parse` and the socket made of them |
| `BridgeProcess` | `main`, `start`, `run` and its stop, over `PluginConfig` |
| `BridgeProofs`, `BridgeLedgerProofs`, `FragmentReassemblerProofs`, `LcmTransportProofs`, `LcmChannelProofs`, `BridgeProcessProofs`, `BridgeConfigProofs`, `RelayProofs` | the theorems |
| `MCBridge`, `MCBridgeLedger`, `MCFragmentReassembler`, `MCLcmTransport`, `MCBridgedSites`, `MCBridgeProcess` | small instances for TLC |

### Bridge

One action is what a task does between two points where it can be interleaved.

| Code | Model |
|---|---|
| `declare_subscriber` and its `?` | `Z2lDeclare` |
| `recv_async` failing | `Z2lRecvFails` |
| a sample without a channel, or filtered out | `Z2lSkip` |
| a sample to relay, up to the first `send_to` of `send`, `fetch_add` included | `Z2lTake` |
| the datagram (the last one, if fragmented) leaves | `Z2lTransmit`: the loopback enters `socket`, or is lost |
| `send` returns an error | `Z2lSendFails`: the number is used and not recorded |
| the critical section with `insert` and `prune_sent_sequences` | `Z2lRecord` |
| `transport.recv` returns | `L2zRecv` |
| the critical section with `remove` | `L2zSuppress`, or `L2zSkip` / `L2zPass` if there is nothing to remove |
| `put` (or its logged failure) | `L2zPublish` |
| Zenoh queues a sample; another LCM program multicasts | `SampleArrives`, `AppSends` |

A short message and a fragmented one are the same here: what matters is when
the last datagram leaves, and an error before it. A message carries a ghost
field `src`, its real origin, which no action's guard reads. The channel is an
element of a set; the filter is the sets `Allow` and `Deny` of channels the
regular expressions match, and `Unmappable` are the channels whose mapping to a
key expression fails. The lock needs no variable of its own, because each
critical section is one step and contains no await.

`Spec` leaves the schedule and the environment free. Loop prevention relies on
three circumstances that the code does not enforce (`Timely`):

* `LoopbackRecorded`: a loopback is not read while its number is still to be
  recorded;
* `NumbersApart`: no other program's message to be checked carries a number the
  bridge has on record or is about to record;
* `KeepsUp`: the loopbacks to be checked are at most a window old.

Each of them is needed: without any one of the three, TLC finds a message of the
bridge published back to Zenoh. No specification is restricted to them. A history
variable `timely` notes whether they have held so far, and a property that needs
them says so.

### BridgeLedger

It adds history variables to every action of `Bridge` and restricts nothing:
`timely`; `taken`, the count of numbers taken, which stops above `SeqMod`; and
`unsettled`, one number that goes up with each loopback that is lost or checked
without its record and down with each record that is pruned, renewed or spent on
another program's message. Its actions translate no code beyond that of `Bridge`,
so they are not in the map.

### FragmentReassembler

`process(sender, f)` has one disjunct per way the function returns: too large,
refused after the entry was made (inconsistent, out of range, duplicate, beyond
the buffer), stored, completed. All start with `expire_stale`. As in the code,
a refused fragment leaves an entry behind, and a first fragment writes its
channel before it is validated. `created_at` is kept as an age that stops one
past the timeout. `Tick` lets time pass.

### LcmProtocol, LcmTransport and MessageChannel

A datagram is a sequence of cells: one for each header field, and one for each
byte of the name and of the data. `parse_datagram` looks for the end of the name
in the cells as the code does in the bytes, so a name that does not end, or that
is not UTF-8, makes it return `NoPacket`.

`SendShort`, `SendRefused`, `SendFragmented`, `SendFragment` and `SendFails` are
`send`; each turn of the fragment loop is one step, so that the fragments of
several programs interleave. The capacities, the rounded-up division, the casts
to u16 and u32 and the slices are the code's arithmetic, with the MTU as a
constant and the header sizes in cells. A payload byte is known by its program,
its message and its position, so a byte in the wrong place shows.

`recv` is a turn of the receiving loop, taken on the last copy of a datagram on
its way (`Receive`), on another copy (`ReceiveCopy`), or on what some other
program sent (`ReceiveStray`). Datagrams come in any order; a lost one is one
never received. `Crash` ends a program at any moment after its first send, inside
`send_fragmented` or not; `Restart` gives it a new transport, whose counter is 0, at
any time: old datagrams may be on the wire and old sets in the receiver.

`Spec` therefore lets two messages meet under one address and number, in three ways:
programs share an address (finding 4), a program is started again within the timeout
(finding 5), or the counter wraps. `FreshSpec` is `Spec` with one assumption, named
`FreshNumbers`: a call of `send_fragmented` starts only when no fragment by its
address and number is on the wire, in a set that has not timed out, or being sent
(`KeyUnused`). Short messages and everything after the first moment of a call are
free, and so are restarts, shared addresses and the wrap in all other cases. The
code does not see to `FreshNumbers`; it holds of programs that have addresses of their
own, do not wrap, and do not start again before what they sent has arrived or is
lost, and the sets it left have timed out.

`MessageChannel` says that what is delivered was offered whole, and that a
message whose `send` returned an error, or never returned, is not delivered,
before or after. It tells a sending by the program and its place in the workload, so
that two equal messages, one of which failed, are two.

### ChannelMapping, BridgedSites and Relay

A channel name and a prefix are sequences of the chunks between slashes, so that
the mapping can strip a prefix, nest, and refuse reserved characters. Each site
of `BridgedSites` is an `INSTANCE` of `Bridge` with variables of its own. A put
of one (`L2zPublish`) is at the same time an arrival at the other
(`SampleArrives`), if the other one's subscription matches the key, or else it is
lost; losing it is also allowed when it matches. The LCM programs of a site
follow a script, which never uses a body twice: a body names a message.

`Relay` is what the two promise together: a site hears a message of the other
site on the channel that has the same key, past both filters, at most once, in
the order of posting, and nothing of its own. Its `upto` is computed from the
histories `posted` and `heard`. The promise is made for as long as the circumstances
of the loop prevention last (its variable `lasting`, which is `timely` of
`BridgedSites`: `Timely` of both bridges so far), and afterwards anything may be
heard, as findings 1 and 2 have it.

`Spec` of `BridgedSites` has none of these assumptions: messages come back, and
`HeardWasPosted` and `NeverMultiplied` say what is left. Here a multicast reaches a
bridge's own socket once or not at all; duplicated datagrams are a matter of
`LcmTransport`. Once messages come back they may go round for ever, so the run has a
bound, `MaxHeard`, which applies from the moment `timely` is lost.

The last sections of `BridgedSites` are the inductive invariants behind both. The
*line* of a site is the way its posts take: its bridge's socket and LCM -> Zenoh
task, then the other bridge's subscriber and Zenoh -> LCM task. `Socket`, `L2zPc`
and the like give the two bridges' variables by line, so that each fact is said
once for both directions.

### PluginConfig and BridgeProcess

A JSON object is a function from field names to values, a regular expression the
set of channels it matches, a URL a record. The JSON types of the fields, the
files and the command lines are constants, with named assumptions on what serde
and clap accept. `from_value` and `to_value` are what serde makes of `Config`'s
declarations; `LcmUrl_parse`, `interface_of` and
`socket_of` lead from there to the socket's options.

| Code | Model |
|---|---|
| `parse_args`, its `unwrap`s included | `ParseArgs`, `parse_args` |
| building and starting the Zenoh runtime | `Build`, which starts the plugin, and `RuntimeStart` |
| `LcmPlugin::start` | `Start`: refuse, panic, or store the statics and spawn `run` |
| `spawn_runtime`, `TOKIO_RUNTIME` | `spawn_runtime`, `FirstUse` |
| the router starts and drops the plugin | `RouterStarts`, `RouterDrops` |
| `zenoh::session::init` | `RunSession` |
| `LcmUrl::parse` and `LcmTransport::new`, which do not await | `RunOpen` |
| the two spawns | `RunSpawn` |
| `recv_async` returns; both tasks aborted | `RunStops` |
| a task returns, or is cancelled | `Z2lReturns`, `TaskCancelled` |

`session` and `transport` are the holders of the two `Arc`s; a future that ends
lets go of them, and the socket closes with the last one. Main's own runtime
serves the plugin in the bridge. A router's plugin is a library that does not see
the router's runtime, so it makes `TOKIO_RUNTIME` on its first start.

## 3. Properties

* `NoEcho` (Bridge): nothing the bridge sent is published back. This fails
  (section 6). `NoEchoWhileTimely` and `OnRecordWhileTimely` (BridgeLedger): it holds
  while the three circumstances last, because each message on its way back is on
  record.
* `NoSwallow`: loop prevention skips own messages only. This fails (section 6).
* `PruneSparesRecent`: a number is pruned only when it is more than a window
  behind, across the wrap included.
* `RecordsDrain`, `QueuesDrain`: a record whose loopback is under way goes in the
  end, and full queues empty. The record of a lost loopback may stay.
* `AccountsBalance` (BridgeLedger): the numbers in the set or about to be
  recorded, plus those spent on other programs' messages, pruned or renewed, equal
  the loopbacks under way, lost or checked without a record. It holds of every
  schedule, so it bounds the damage of findings 1 and 2: each loopback that did not
  settle its record costs at most one foreign message.
* `SentSetBounded`: at most `PruneAt` numbers until the counter wraps. After
  the wrap it is no longer true: `saturating_sub` makes the cutoff small, so the
  old, large numbers stay for ever and new records come on top of them.
* `SetsSound`, `NoneStale`, `SetsLeaveProperly` (FragmentReassembler).
* `FragmentsCoverPayload`, `ImplementsChannel`, `EventuallyDelivered`
  (LcmTransport). The abstract specification is where malformed datagrams,
  duplicates, crashes and restarts have to be harmless, given `FreshNumbers`.
* `DeliveredIntact`: what `recv` returns was sent. Without `FreshNumbers`, or with a
  truncated count, this fails (section 6).
* `ImplementsRelay`, `EventuallyRelayed` (BridgedSites): what two bridges do for
  a message from posting to hearing, for safety and for liveness.
* `HeardWasPosted`, `NeverMultiplied` (BridgedSites, in all circumstances): what
  findings 1 and 2 cannot do. What a site hears was posted, on a channel with the
  same key, past both filters, and a site hears its own message only after the
  other one has; and no site hears more copies of a message than have been
  multicast at the other one. So an echo may go round, and it goes round alone.
* `ConfiguredAsAsked` (BridgeProcess): an option wins over the file and the file
  over the default, clap's defaults included.
* `ServedAsRelayed`: the configuration the admin space serves relays the channels
  that the plugin relays. This fails (section 6).
* `RuntimeAsFirstAsked`: the thread numbers in use are those of the first start,
  in spite of the static that is stored before the runtime is made.
* `NoOrphans`, `StopReleases`, `StartSettles`: a start that returned `Ok` ends
  with both tasks spawned or with nothing held; while a task relays, `run` waits
  for the drop; after the drop, whenever it comes, all is released.

Each property of a passing run has a mutant in `PROJECT.json`: an altered copy
of one definition (the `Mutant:` operators in the modules), such as an
off-by-one in the cutoff, recording after pruning, a division that is not
rounded up. With the mutant in place TLC finds the property violated.

## 4. Runs

| Run | Instance | Distinct states | Shows |
|---|---|---|---|
| `bridge_ledger` | counter modulo 3, prune above 2, window 1, two-place socket, a channel that passes and one that does not | 572 162 | the accounts, the bound, pruning, and what drains, of every schedule; no echo while `Timely` |
| `bridge_race` | counter modulo 5, prune above 2, window 1 | violation | finding 1 |
| `bridge_swallow` | as `bridge_race` | violation | finding 2 |
| `fragment_reassembler` | 2 senders, 1 number, 2 channels, all small header fields | 30 436 | the reassembler's bookkeeping |
| `fragment_inconsistent` | well-formed fragments of 1 and 2 parts | violation | finding 3 |
| `lcm_transport` | 2 programs, messages of 1 to 3 datagrams, empty ones too, 7 malformed datagrams, loss, order, duplication, one program crashes and starts again; `FreshNumbers` | 128 635 | refinement, coverage, delivery |
| `lcm_shared_address` | 2 programs, one address | violation | finding 4 |
| `lcm_restart` | a program that crashes between the two fragments of its first message and starts again, `Spec` | violation | finding 5 |
| `lcm_truncated` | fragment count modulo 2, three fragments | violation | finding 6 |
| `bridged_sites` | prefixes `lcm` and `lcm/r`, different filters, 4 scripts of 3 or 4 messages, up to 2 heard per site once `timely` is lost | 375 394 | refinement of `Relay`, delivery, origin and number of what is heard |
| `bridge_process` | 9 files, 9 command lines, 3 starts | 46 323 | configuration, start, stop, restart |
| `bridge_served` | the same, 1 start | violation | finding 7 |

Bounds and why they suffice.

* `SeqMod` 3 exceeds `PruneAt` 2, and that exceeds `Window` 1: the counter
  wraps, pruning discards some and keeps some, and the cutoff saturates. The run has
  no end, so all three happen, in any order and again after the wrap. The code's
  values are 2^32, 10 000 and 5 000. `bridged_sites` has the smallest values the
  assumptions allow, and the channels without a Zenoh key.
* `SocketCap` 2 lets one loopback wait while another is checked and one more is
  on its way; a full socket loses the next one. `SubscriberCap` 1 is enough,
  since samples do not interact. One other program is enough as well: all that
  is read of its messages is their number, and it can send every number.
* The reassembler's instance has `n_fragments` 0, 1 and 3 against fragment
  numbers 0 to 3, sizes on both sides of `MaxMessageSize` 1, offsets inside and
  beyond the buffer, and a timeout of 1 unit. One number is enough because
  entries are independent; the second sender shows that keys are not mixed up.
* The transport's instance has an MTU of 11 cells, of which the headers take 2
  and 6: one message fits, one takes two fragments, one takes three (its last one
  partly filled), and one name leaves no room. `MaxTicks` 1 and `Timeout` 0 let
  sets expire once. The program that may crash has several messages, so after a
  start it reuses numbers that were received, lost, half sent or have expired; two of
  them are equal in all but their place. There is a malformed datagram for each way
  `parse_datagram` has to return `None`.
* `BridgedSites` has prune above 1 with window 0 and a counter modulo 3, so three
  messages make it prune, and its own counter wraps. Each script is one case:
  a series in one direction, both directions at once, and channels that are
  filtered, reserved, or below the prefix of one site only. `MaxHeard` 2 lets a
  message come back to its own site, and be heard twice at one site, once `timely`
  is lost. As long as it is not, nothing is bounded but by the scripts.
* `BridgeProcess` has, for each setting that something depends on, a value that
  works and one for each way to fail: an unreadable file, an unknown field, a
  null, a bad regular expression, a bad number, a TTL above 255, a group that is
  no multicast group, an interface that is not the host's or no address, and 0
  threads. Three starts let a panicked or refused start come before, between and
  after good ones.

Deadlock. The transport's four runs switch the check off because their programs have
finitely many messages, and the end of them is the end of the run; `bridged_sites`
for the same reason and because of its bound, and `bridge_process` and `bridge_served`
because the process may exit and the starts are finitely many. All other runs check
for deadlock.

## 5. Fairness

`Bridge!Fairness`, which `LedgerFairSpec` adds to the ledger, has weak fairness for
each task's next step, since the runtime polls a task that is ready. `Z2lTransmit` and
`Z2lSendFails` share one fairness condition: `send` ends, but nothing says how. There
is none for the environment, for `Z2lDeclare` (a task that has not subscribed has an
empty FIFO) or for `Z2lRecvFails`.

`LcmTransport!FairSpec`, over `FreshSpec`, says that programs go on and that as long as datagrams
are on their way, the last copy of one of them comes to be received
(`WF_wire(Arrives)`). This is "no loss", and it is needed for
`EventuallyDelivered` only; the safety properties are checked of the same run
without using it. A failed send, a crash, an oversized payload or time enough for
a set to expire excuse a delivery. Nothing makes a program start again.

`BridgedSites!Fairness` is that of `Bridge` for both bridges, with the sends and
the puts taken together with what they cause at the other site. A put may be lost
for ever; `dropped` records it, and `EventuallyRelayed` excuses it, as it does
everything once `timely` is lost. So the run's bound, which applies only then, takes
nothing away from it.

`BridgeProcess!FairSpec` lets `run` go on and lets an aborted task end: both
loops await in every round, with Tokio's budget even when the socket is always
ready. Nothing is assumed of `main`, the router, or a task that returns by
itself.

## 6. Findings

1. `bridge_race`. A number is recorded after `send` returns
   (`zenoh_to_lcm.rs:108-112`); the loopback can be checked before, is then
   published back to Zenoh, and its record stays behind.
2. `bridge_swallow`. The check compares numbers alone (`lcm_to_zenoh.rs:46`), so
   another program's message with a recorded number is dropped.
3. `fragment_inconsistent`. A first fragment that is refused has already given
   its channel to the pending set (`fragment.rs:88-103`).
4. `lcm_shared_address`. Programs of one host that use this transport send from
   the same address and port, so that (sender, number) does not tell their
   messages apart (`fragment.rs:69`, `multicast.rs:69-83`).
5. `lcm_restart`. A transport starts with counter 0 on the same port
   (`multicast.rs:69-83`, `113`), so a program that is started again within the
   timeout gives a new message the address and number of one it died in, and the
   receiver puts the fragments of both together.
6. `lcm_truncated`. The fragment count is cast to u16 (`multicast.rs:205`), and
   a payload that needs more fragments arrives with a tail of zeros.
7. `bridge_served`. The admin space serves a `deny` that is not set as `""`
   (`config.rs:104-107`), which denies every channel, while the plugin denies none
   (`README.md:208`, `README.md:279`).

## 7. Proofs

TLAPS proves these for all values of the constants, from the named assumptions
of the modules only. Those are: numbers in their ranges, `Window < PruneAt` and
`Window < SeqMod` (of `BridgedSites`, for both bridges); prefixes and channel
names that are sequences of chunks; scripts that use no body twice; two different
magic numbers; names without a zero byte; well-formed parsed fragments;
defaults, files and command lines of the declared JSON types; and at least one
start. A theorem that needs more states it: `Untruncated`, `Regular`, or
`FreshSpec` in the place of `Spec`. The instances of section 4 satisfy the assumptions
on the constants (`lcm_truncated` excepted, which is about what `Untruncated`
excludes), and each inductive invariant below held when TLC checked it on the
instance of its module (with unbounded quantifiers taken over the instance's
addresses, numbers and sendings).

Loop prevention.

* `BridgeProofs!TypeCorrect`: `TypeOK` is inductive as it stands.
* `BridgeProofs!PruneSafe`: arithmetic of `Cutoff` and `Age`, with `TypeOK`. A
  number above the latest is never pruned, and one below the cutoff is more
  than a window behind.
* `BridgeLedgerProofs!NeverEchoesWhileTimely` and `AlwaysOnRecordWhileTimely`.
  Neither property is inductive. `TimelyInv` adds what keeps the records in place:
  two loopbacks under way never carry the same number (`LoopbacksDistinct`),
  otherwise the first would remove the record of the second; and the number in hand
  is the last one taken and not one still on its way back from an earlier cycle
  (`NumberFresh`), which follows from `KeepsUp` and `Window < SeqMod`. Then a
  loopback finds its record: recording adds, pruning spares what is within the
  window (`KeepsUp`), and a removal takes only the message's own number
  (`NumbersApart`, `LoopbacksDistinct`). `BridgeProofs!TimelyNext` is the step;
  it is also what the two bridges of `RelayProofs` rest on.
* `BridgeLedgerProofs!AccountsAlwaysBalance`. The balance is nearly inductive;
  `AccountsInv` adds the types and the finiteness of the set. The lemmas
  `PlacesAppend` and `PlacesTail` say how the number of own messages in a queue
  changes at its two ends.
* `BridgeLedgerProofs!SentSetStaysBounded`. Before the wrap `taken` is the
  counter, records are below it, and the number in hand is the last one
  (`NumbersInOrder`). So a pruned set lies between the cutoff and the latest
  number and has at most `Window + 1 <= PruneAt` elements (`PrunedSetSmall`).

Transport.

* `FragmentReassemblerProofs`: `TypeCorrect`, `SetsAreSound`, `NoneStaleLeft`
  and `SetsOnlyLeaveProperly`, from the invariant `TypeOK /\ SetsSound`. Neither
  conjunct stands alone: that a set is left by its last missing fragment needs
  the counter to equal the mask's cardinality (`SetsSound`). The bounds of the
  mask give `fragments_received <= n_fragments` (`NumbersBelow`).
* `LcmTransportProofs!FragmentsAlwaysCover`. `FragmentsCoverPayload` speaks of one
  fragment; `CallInv` says where in the payload it must be: `offset` is
  `FirstCapacity + (frag_num - 1) * SubsequentCapacity`, and `n_fragments` is the
  count before the cast. `Monotone` and `RoundedUp` are the arithmetic: the
  division rounded up gives the least number of parts that hold the rest. `Slice`
  concludes that each slice is in bounds, not empty, and the last exactly at the
  end. The theorem assumes `Untruncated`: every payload needs fewer than `U16`
  fragments. Where it fails the last slice stops short of the end, which run
  `lcm_truncated` shows from the receiver's side.
* `LcmTransportProofs!ShortRoundTrip` and `FragmentRoundTrip`: `parse_datagram`
  gives back what the encoders wrote, for every name without a zero byte and
  every payload, zero bytes in the payload included. The search for the end of the
  name finds the byte the encoder put there, because it is the first zero.
* `LcmChannelProofs!ChannelImplemented`, `AlwaysIntact` and `TypeCorrect`. The first two
  are of `FreshSpec`, the third is of `Spec`. All assume `Regular`: `Untruncated`
  (finding 6), `SizesFit` (a payload's size fits its header field of 32 bits) and
  `StraysMalformed` (what else is sent to the group is not LCM; a program that sends
  LCM is one of the senders). Empty payloads, shared addresses, the wrap and restarts
  at any time are included, as far as `FreshNumbers` goes.

  `BaseInv` holds of `Spec`. `SendersOK`: a call sends the last message its program has
  taken, from its next fragment on. `HistoryOK`: a sending is of a place in the workload
  that has been passed, which is why a new one is not yet among them. `WireOK`: a
  datagram is an encoded short message, or fragment, of a sending. `Left(o, j)` is the
  heart of the partial failures: the last fragment of a sending that is withdrawn is
  neither under way nor received.

  `FreshInv` adds what `FreshNumbers` is for: whatever goes by one address and number,
  on the wire, in a set that has not timed out or in a call, is of one sending
  (`Holder`), and each marked fragment of the set has its bytes in place (`SetOf`).
  A new call may take over an address and number because nothing goes by it
  (`KeyUnused`), and no other step brings in a second sending. A completed set has
  received all its fragments (`CompleteOf`, by cardinality), so it is of a sending
  that was not withdrawn, and its bytes are the payload, because the fragments cover
  it.

Process.

* `BridgeProcessProofs!NoOrphansAlways`. `NoOrphans` is preserved by every step of
  a run and of a task, but `start` would put a run that serves back to its
  beginning if it could be made twice: `Unstarted` says that a start that was not
  made has no run, and `Started` that `main` goes on only with the plugin
  started, so that its exit ends a run that exists.
* `BridgeConfigProofs!TypeCorrect`, `ConfiguredAlways` and
  `RuntimeAlwaysAsFirstAsked`, from `CInv`, which adds to that invariant what main
  made of its input (`MainOK`), what a start that returned `Ok` was given
  (`ConfigOK`), the statics (`RuntimeOK`) and the socket (`SocketsOK`).
  `ConfiguredAsAsked` rests on `LcmSection` and `ZenohSection`, which say of each
  field of the configuration main builds where it comes from, and on `ReadAsAsked`,
  that `from_value` keeps it. `RuntimeAsFirstAsked` alone says nothing of the step
  that makes the first start; `RuntimeOK` adds that a router's starts are made in
  order, and that a runtime exists if and only if one of them was accepted.
  `TypeOK` follows from `FromValueTyped` and `RunSockets`.

Two sites.

* `RelayProofs!RelayImplemented`: `Spec => ImplementsRelay`, which is the safety half
  of what `bridged_sites` checks. `WhileTimely` is the invariant: as long as `timely`
  holds, so does `RelayInv`; and once it does not, `Relay` demands nothing of a step.
  `BridgeProofs` is used by `INSTANCE` for each of the two bridges (`StepsA`, `StepsB`:
  a step of the sites is a step of each bridge or none), so `TimelyInv` is kept by
  both; from it comes that what a bridge publishes is a program's message and no
  loopback.
  `RelayInv` adds, for each line: the programs have followed the script and what
  is heard was posted (`HistoryOK`); what is in the first bridge are posts
  (`FrontOK`), and what is in the second stands for posts that the first has let
  through, on a channel with the same key (`BackOK`); and the numbers of the posts
  increase along the line (`FrontOK`, `BackOK`, `BackFirst`), those already heard
  being less than all others. So what is multicast next has not been heard yet and
  comes after all that has, which is the guard of `Relay!Hear`. Without the order
  in all the places the order at the end is not inductive. `Moves` reduces the
  steps of the two sites to ten effects on a line, and each is shown to keep it
  (`LinePosts` to `LineIsHeard`); `KeyOfChannel` is the mapping: stripping the
  other site's prefix from a key and putting it back gives the key.

* `RelayProofs!OnlyPostsAreHeard` and `CopiesDoNotMultiply`: two bridges in all
  circumstances, with no assumption on the schedule, on other programs' numbers or
  on pruning. The order along the line is gone, and what a bridge publishes may be a
  loopback. `OriginsInv` therefore asks of each place on a line less than `RelayInv`:
  what is in the first bridge was multicast at its site, by whomever (`OnAir`), and
  what is in the second is carried over from there (`CarriedOver`). A put
  (`PutCarriesOver`) has two cases. Of a post the keys are equal by `SameKey`. Of
  what the first bridge has multicast itself, `HeardWasPosted` of the first site
  gives the post, which is why the two sites' invariants have to be shown together.
  `NeverMultiplied` speaks of the two ends of a line; `CopiesOK` counts the copies at
  every place between them. Each step but a post and a multicast moves a copy or
  loses it (`FrontCopies`, `BackCopies`, `PutCopies`), and a loopback that enters a
  socket is matched by the message heard with it. `CopiesAppend` and `CopiesTail` are
  the lemmas on queues.

Checked by TLC only: liveness (`RecordsDrain`, `QueuesDrain`,
`EventuallyDelivered`, `EventuallyRelayed`, `StopReleases`, `StartSettles`), which
the proof system does not cover. Every invariant, action property and refinement
of a passing run is the property of a theorem. No recursive operator is used.

## 8. Not modelled

* Characters: a key is a sequence of chunks, a channel name one of chunks or of
  bytes, a URL is taken apart already. A regular expression is what it matches.
* Two bridges on one LCM group. Each takes the other's loopback for a program's
  message and republishes it: the code keeps no record that could tell, and
  promises nothing about it.
* A channel name with a zero byte, which is cut short on the wire.
* What Zenoh does apart from the subscriber's queue, the put and the start and
  drop of plugins; the REST plugin; refusals of the operating system other than
  "may fail".
* A socket error that makes `recv` loop without a pause.
* The admin space's version entry, logging, `from_url`, and the accessors.
* Build files, packaging, sample configuration and tests.

## 9. Plan

What is left to prove is the accounts of `BridgeLedger` for each of two bridged
sites, which would bound how often a message goes round once the circumstances of the
loop prevention have not lasted.
