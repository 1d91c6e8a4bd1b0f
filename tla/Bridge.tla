------------------------------- MODULE Bridge -------------------------------
(***************************************************************************)
(* One running LCM bridge: the Zenoh -> LCM task (zenoh_to_lcm.rs), the    *)
(* LCM -> Zenoh task (lcm_to_zenoh.rs) and the set of sequence numbers the *)
(* two share for loop prevention.                                          *)
(*                                                                         *)
(* The tasks run on a multi-threaded runtime and interleave at every       *)
(* await. The transport is seen here at the level of complete messages: a  *)
(* message the bridge multicasts also comes back to the bridge's own       *)
(* socket (IP_MULTICAST_LOOP is on), unless the socket's buffer is full or *)
(* a datagram is lost, or the reassembler finds it too large. LcmTransport *)
(* and FragmentReassembler model what happens below that level.            *)
(*                                                                         *)
(* A message carries a ghost field src, the real origin of the message.    *)
(* The code never reads it; only properties do.                            *)
(***************************************************************************)
EXTENDS Integers, Sequences, FiniteSets

CONSTANTS
  Self,           \* this bridge, as the origin of an LCM message
  Apps,           \* the other programs of the LCM multicast group
  Channels,       \* LCM channel names
  Unmappable,     \* channels that make no valid Zenoh key expression (* # $)
  NoChannel,      \* a key the subscription matches without a "prefix/" head
  Allow, Deny,    \* the optional regex, {} or {the channels it matches}
  Bodies,         \* payloads, relayed opaquely
  NoMessage,      \* what a task holds between two messages
  SeqMod,         \* sequence numbers are u32: 2^32 in the code
  PruneAt,        \* 10_000: sent_sequences is pruned above this size
  Window,         \* 5_000: how far back a pruned set reaches
  SubscriberCap,  \* capacity of the Zenoh subscriber's FIFO
  SocketCap       \* complete messages the socket's receive buffer holds

SeqNumbers == 0 .. SeqMod - 1
Messages   == [src : {Self} \cup Apps, seq : SeqNumbers,
               chan : Channels, body : Bodies]
Samples    == [key : Channels \cup {NoChannel}, body : Bodies]

ASSUME OriginsAssumption == Self \notin Apps
ASSUME ChannelsAssumption ==
  /\ NoChannel \notin Channels
  /\ Unmappable \subseteq Channels
  /\ {Allow, Deny} \subseteq SUBSET SUBSET Channels
ASSUME SeqModAssumption == SeqMod \in Nat \ {0}
ASSUME WindowAssumption ==
  /\ PruneAt \in Nat
  /\ Window \in Nat
  /\ Window < PruneAt
  /\ Window < SeqMod
ASSUME CapsAssumption == {SubscriberCap, SocketCap} \subseteq Nat \ {0}
ASSUME NoMessageAssumption == NoMessage \notin Messages

VARIABLES
  seq_counter,     \* LcmTransport.sequence_counter
  sent_sequences,  \* the HashSet<u32> both tasks lock
  subscriber,      \* FIFO of the Zenoh subscriber
  z2l_pc,          \* where the Zenoh -> LCM task is
  z2l_msg,         \* the message it is sending
  socket,          \* FIFO of complete messages waiting in the UDP socket
  l2z_pc,          \* where the LCM -> Zenoh task is
  l2z_msg          \* the message it is relaying

z2l_vars == <<subscriber, z2l_pc, z2l_msg, seq_counter>>
l2z_vars == <<l2z_pc, l2z_msg>>
vars == <<z2l_vars, l2z_vars, sent_sequences, socket>>

Init ==
  /\ seq_counter = 0
  /\ sent_sequences = {}
  /\ subscriber = <<>>
  /\ z2l_pc = "declare"
  /\ z2l_msg = NoMessage
  /\ socket = <<>>
  /\ l2z_pc = "recv"
  /\ l2z_msg = NoMessage

-----------------------------------------------------------------------------
(* Channel filtering and mapping, shared by the two directions.            *)

is_allowed(c) ==
  /\ \A regex \in Allow : c \in regex
  /\ \A regex \in Deny : c \notin regex

\* Mutant: the filter is applied in the other direction only.
RelayedToLcmUnfiltered(key) == key # NoChannel

\* What key_expr_to_lcm_channel and the filter let through to LCM. Channels
\* that have no Zenoh key are not refused in this direction.
RelayedToLcm(key) == key # NoChannel /\ is_allowed(key)

\* What the filter and lcm_channel_to_key_expr let through to Zenoh.
RelayedToZenoh(c) == is_allowed(c) /\ c \notin Unmappable

\* Mutants: the window starts one number late; the subtraction wraps.
CutoffLate(latest)  == IF latest >= Window THEN latest - Window + 1 ELSE 0
CutoffWraps(latest) == (latest - Window + SeqMod) % SeqMod

\* latest_seq.saturating_sub(5_000)
Cutoff(latest) == IF latest >= Window THEN latest - Window ELSE 0

prune_sent_sequences(seqs, latest) ==
  IF Cardinality(seqs) > PruneAt
  THEN {s \in seqs : s >= Cutoff(latest)}
  ELSE seqs

-----------------------------------------------------------------------------
(* The Zenoh -> LCM task.                                                  *)

\* declare_subscriber either succeeds or ends the task with an error.
Z2lDeclare ==
  /\ z2l_pc = "declare"
  /\ z2l_pc' \in {"recv", "stopped"}
  /\ UNCHANGED <<subscriber, z2l_msg, seq_counter, l2z_vars, sent_sequences, socket>>

\* Zenoh puts a remote publication in the subscriber's FIFO. A full FIFO
\* makes Zenoh wait.
SampleArrives ==
  /\ z2l_pc \notin {"declare", "stopped"}
  /\ Len(subscriber) < SubscriberCap
  /\ \E sample \in Samples : subscriber' = Append(subscriber, sample)
  /\ UNCHANGED <<z2l_pc, z2l_msg, seq_counter, l2z_vars, sent_sequences, socket>>

\* recv_async fails once the session has closed and the FIFO is drained.
Z2lRecvFails ==
  /\ z2l_pc = "recv"
  /\ subscriber = <<>>
  /\ z2l_pc' = "stopped"
  /\ UNCHANGED <<subscriber, z2l_msg, seq_counter, l2z_vars, sent_sequences, socket>>

\* A sample without a channel, or with a channel that is filtered out.
Z2lSkip ==
  /\ z2l_pc = "recv"
  /\ subscriber # <<>>
  /\ ~ RelayedToLcm(Head(subscriber).key)
  /\ subscriber' = Tail(subscriber)
  /\ UNCHANGED <<z2l_pc, z2l_msg, seq_counter, l2z_vars, sent_sequences, socket>>

\* Mutant: a counter wider than the number on the wire.
Z2lTakeWide ==
  /\ z2l_pc = "recv"
  /\ subscriber # <<>>
  /\ RelayedToLcm(Head(subscriber).key)
  /\ z2l_pc' = "send"
  /\ z2l_msg' = [src |-> Self, seq |-> seq_counter % SeqMod,
                 chan |-> Head(subscriber).key, body |-> Head(subscriber).body]
  /\ seq_counter' = seq_counter + 1
  /\ subscriber' = Tail(subscriber)
  /\ UNCHANGED <<l2z_vars, sent_sequences, socket>>

\* A sample to relay: the task runs without an await up to send's first
\* send_to, so the sequence number (fetch_add) is taken here.
Z2lTake ==
  /\ z2l_pc = "recv"
  /\ subscriber # <<>>
  /\ RelayedToLcm(Head(subscriber).key)
  /\ z2l_pc' = "send"
  /\ z2l_msg' = [src |-> Self, seq |-> seq_counter,
                 chan |-> Head(subscriber).key, body |-> Head(subscriber).body]
  /\ seq_counter' = (seq_counter + 1) % SeqMod
  /\ subscriber' = Tail(subscriber)
  /\ UNCHANGED <<l2z_vars, sent_sequences, socket>>

\* Mutant: a send that reports an error is retried, its datagrams sent already.
Z2lTransmitRetried ==
  /\ z2l_pc = "send"
  /\ z2l_pc' \in {"record", "send"}
  /\ \/ Len(socket) < SocketCap /\ socket' = Append(socket, z2l_msg)
     \/ UNCHANGED socket
  /\ UNCHANGED <<subscriber, z2l_msg, seq_counter, l2z_vars, sent_sequences>>

\* The (last) datagram leaves. The loopback copy enters the bridge's own
\* socket at once, or is lost.
Z2lTransmit ==
  /\ z2l_pc = "send"
  /\ z2l_pc' = "record"
  /\ \/ Len(socket) < SocketCap /\ socket' = Append(socket, z2l_msg)
     \/ UNCHANGED socket
  /\ UNCHANGED <<subscriber, z2l_msg, seq_counter, l2z_vars, sent_sequences>>

\* Mutant: a failed send ends the task (as "?" in place of the match would).
Z2lSendFailsFatal ==
  /\ z2l_pc = "send"
  /\ z2l_pc' = "stopped"
  /\ z2l_msg' = NoMessage
  /\ UNCHANGED <<subscriber, seq_counter, l2z_vars, sent_sequences, socket>>

\* A send_to fails, at the first datagram or in the middle of the fragments:
\* the error is logged, the message is gone and its number is not recorded.
Z2lSendFails ==
  /\ z2l_pc = "send"
  /\ z2l_pc' = "recv"
  /\ z2l_msg' = NoMessage
  /\ UNCHANGED <<subscriber, seq_counter, l2z_vars, sent_sequences, socket>>

\* Mutant: prune first, then record.
Z2lRecordAfterPrune ==
  /\ z2l_pc = "record"
  /\ sent_sequences' =
       prune_sent_sequences(sent_sequences, z2l_msg.seq) \cup {z2l_msg.seq}
  /\ z2l_pc' = "recv"
  /\ z2l_msg' = NoMessage
  /\ UNCHANGED <<subscriber, seq_counter, l2z_vars, socket>>

\* Under the write lock: record the number and prune the set.
Z2lRecord ==
  /\ z2l_pc = "record"
  /\ sent_sequences' =
       prune_sent_sequences(sent_sequences \cup {z2l_msg.seq}, z2l_msg.seq)
  /\ z2l_pc' = "recv"
  /\ z2l_msg' = NoMessage
  /\ UNCHANGED <<subscriber, seq_counter, l2z_vars, socket>>

-----------------------------------------------------------------------------
(* The LCM -> Zenoh task.                                                  *)

\* Another LCM program multicasts. Its numbers come from its own counter,
\* which started whenever that program started.
AppSends ==
  /\ Len(socket) < SocketCap
  /\ \E m \in Messages : m.src \in Apps /\ socket' = Append(socket, m)
  /\ UNCHANGED <<z2l_vars, l2z_vars, sent_sequences>>

\* transport.recv hands over the next complete message. (A receive error is
\* logged and retried, which changes nothing here.)
L2zRecv ==
  /\ l2z_pc = "recv"
  /\ socket # <<>>
  /\ l2z_pc' = "check"
  /\ l2z_msg' = Head(socket)
  /\ socket' = Tail(socket)
  /\ UNCHANGED <<z2l_vars, sent_sequences>>

\* Mutant: contains in place of remove.
L2zSuppressKeeping ==
  /\ l2z_pc = "check"
  /\ l2z_msg.seq \in sent_sequences
  /\ l2z_pc' = "recv"
  /\ l2z_msg' = NoMessage
  /\ UNCHANGED <<z2l_vars, sent_sequences, socket>>

\* Under the write lock: a number found in the set is removed from it and
\* the message is skipped.
L2zSuppress ==
  /\ l2z_pc = "check"
  /\ l2z_msg.seq \in sent_sequences
  /\ sent_sequences' = sent_sequences \ {l2z_msg.seq}
  /\ l2z_pc' = "recv"
  /\ l2z_msg' = NoMessage
  /\ UNCHANGED <<z2l_vars, socket>>

\* Not a number of ours, but filtered out or without a Zenoh key.
L2zSkip ==
  /\ l2z_pc = "check"
  /\ l2z_msg.seq \notin sent_sequences
  /\ ~ RelayedToZenoh(l2z_msg.chan)
  /\ l2z_pc' = "recv"
  /\ l2z_msg' = NoMessage
  /\ UNCHANGED <<z2l_vars, sent_sequences, socket>>

L2zPass ==
  /\ l2z_pc = "check"
  /\ l2z_msg.seq \notin sent_sequences
  /\ RelayedToZenoh(l2z_msg.chan)
  /\ l2z_pc' = "publish"
  /\ UNCHANGED <<z2l_vars, l2z_msg, sent_sequences, socket>>

L2zCheck == L2zSuppress \/ L2zSkip \/ L2zPass

\* put with allowed_destination Remote, or its failure, which is logged. The
\* put never reaches the subscriber of this session (allowed_origin Remote).
L2zPublish ==
  /\ l2z_pc = "publish"
  /\ l2z_pc' = "recv"
  /\ l2z_msg' = NoMessage
  /\ UNCHANGED <<z2l_vars, sent_sequences, socket>>

-----------------------------------------------------------------------------
Environment == SampleArrives \/ AppSends
Z2lNext == \/ Z2lDeclare \/ Z2lRecvFails
           \/ Z2lSkip \/ Z2lTake \/ Z2lTransmit \/ Z2lSendFails \/ Z2lRecord
L2zNext == L2zRecv \/ L2zCheck \/ L2zPublish

Next == Environment \/ Z2lNext \/ L2zNext

Spec == Init /\ [][Next]_vars

\* The runtime polls a task that can go on. Nothing is promised about the
\* environment, nor that a task stops, nor about which way a send ends.
Fairness ==
  /\ WF_vars(Z2lSkip \/ Z2lTake)
  /\ WF_vars(Z2lTransmit \/ Z2lSendFails)
  /\ WF_vars(Z2lRecord)
  /\ WF_vars(L2zRecv)
  /\ WF_vars(L2zCheck)
  /\ WF_vars(L2zPublish)

-----------------------------------------------------------------------------
(* Loop prevention.                                                        *)

\* How many numbers latest is ahead of s, the counter wrapping at SeqMod.
Age(latest, s) == IF s <= latest THEN latest - s ELSE latest - s + SeqMod

\* The messages that still have to pass the loop prevention check, and the
\* numbers among them that are the bridge's own, or another program's.
Unchecked == {socket[i] : i \in 1 .. Len(socket)}
               \cup (IF l2z_pc = "check" THEN {l2z_msg} ELSE {})
OwnNumbers     == {m.seq : m \in {n \in Unchecked : n.src = Self}}
ForeignNumbers == {m.seq : m \in {n \in Unchecked : n.src # Self}}

\* The numbers the bridge has on record or is about to record.
BridgeNumbers == sent_sequences
                   \cup (IF z2l_pc \in {"send", "record"} THEN {z2l_msg.seq} ELSE {})

\* The circumstances the mechanism relies on. The code enforces none of them:
\* they depend on the scheduler and on the other programs' counters.
\*
\* A loopback is not read while its number is still to be recorded.
LoopbackRecorded ==
  l2z_pc = "check" /\ z2l_pc = "record" /\ l2z_msg.src = Self
    => l2z_msg.seq # z2l_msg.seq
\* No other program uses a number while the bridge is using it.
NumbersApart == ForeignNumbers \cap BridgeNumbers = {}
\* The LCM -> Zenoh task is at most a window of numbers behind.
KeepsUp == \A s \in OwnNumbers : Age(seq_counter, s) \in 1 .. Window + 1

Timely == LoopbackRecorded /\ NumbersApart /\ KeepsUp

-----------------------------------------------------------------------------
(* Properties.                                                             *)

\* The type invariant: a task holds a message exactly where the code does,
\* and the Zenoh -> LCM task only ever holds one of the bridge's own.
TypeOK ==
  /\ seq_counter \in SeqNumbers
  /\ sent_sequences \subseteq SeqNumbers
  /\ subscriber \in Seq(Samples) /\ Len(subscriber) <= SubscriberCap
  /\ socket \in Seq(Messages) /\ Len(socket) <= SocketCap
  /\ z2l_pc \in {"declare", "recv", "send", "record", "stopped"}
  /\ IF z2l_pc \in {"send", "record"}
     THEN z2l_msg \in Messages /\ z2l_msg.src = Self
     ELSE z2l_msg = NoMessage
  /\ l2z_pc \in {"recv", "check", "publish"}
  /\ IF l2z_pc \in {"check", "publish"} THEN l2z_msg \in Messages
                                        ELSE l2z_msg = NoMessage

\* Every message the bridge has multicast and will read back is on record, or
\* about to be: this is what makes the check sound (zenoh_to_lcm.rs:108-113).
EveryLoopbackOnRecord ==
  OwnNumbers \subseteq
    sent_sequences \cup (IF z2l_pc = "record" THEN {z2l_msg.seq} ELSE {})

\* A message the bridge sent to LCM is never published back to Zenoh
\* (lcm_to_zenoh.rs:43-54).
NoEcho == l2z_pc = "publish" => l2z_msg.src # Self

\* Loop prevention only skips messages the bridge itself sent: the message of
\* an LCM program is relayed, or dropped by the filter (lcm_to_zenoh.rs:43).
NoSwallow == [][L2zSuppress => l2z_msg.src = Self]_vars

\* A record that pruning throws away is more than a window old, so a loopback
\* that is less than a window late still finds its record; this includes the
\* window in which the u32 counter wraps (zenoh_to_lcm.rs:19-24).
PruneSparesRecent ==
  [][Z2lRecord => \A s \in sent_sequences \ sent_sequences' :
                    Age(z2l_msg.seq, s) > Window]_vars

\* The record of a message that is on its way back does not stay in the set:
\* a record can only become stale when its loopback is lost or was checked
\* too early (lcm_to_zenoh.rs:46 removes what it finds).
RecordsDrain ==
  \A s \in SeqNumbers : s \in sent_sequences /\ s \in OwnNumbers
                          ~> s \notin sent_sequences

\* Neither task waits for ever: full queues are drained again, the
\* subscriber's unless the task has stopped, which empties nothing but is
\* only possible once the FIFO is empty (zenoh_to_lcm.rs:65-123,
\* lcm_to_zenoh.rs:34-99).
QueuesDrain ==
  /\ Len(subscriber) = SubscriberCap ~> Len(subscriber) < SubscriberCap
  /\ Len(socket) = SocketCap ~> Len(socket) < SocketCap

-----------------------------------------------------------------------------
(* The inductive invariant behind NoEcho as long as Timely holds.          *)

\* No two messages on their way back carry the same number.
LoopbacksDistinct ==
  /\ \A i, j \in 1 .. Len(socket) :
       i # j /\ socket[i].src = Self /\ socket[j].src = Self
         => socket[i].seq # socket[j].seq
  /\ \A i \in 1 .. Len(socket) :
       socket[i].src = Self /\ l2z_pc = "check" /\ l2z_msg.src = Self
         => socket[i].seq # l2z_msg.seq

\* The number being sent is the last one taken, and not one that is still on
\* its way back from an earlier cycle of the counter.
NumberFresh ==
  /\ z2l_pc \in {"send", "record"} => seq_counter = (z2l_msg.seq + 1) % SeqMod
  /\ z2l_pc = "send" => z2l_msg.seq \notin OwnNumbers

TimelyInv ==
  /\ TypeOK
  /\ Timely
  /\ EveryLoopbackOnRecord
  /\ LoopbacksDistinct
  /\ NumberFresh
  /\ NoEcho
=============================================================================
