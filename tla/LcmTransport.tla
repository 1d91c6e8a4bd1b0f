---------------------------- MODULE LcmTransport ----------------------------
(***************************************************************************)
(* LcmTransport of multicast.rs: programs that send on a multicast group,  *)
(* splitting what does not fit in one datagram, and one receiver that puts *)
(* the fragments together again with a FragmentReassembler. The network    *)
(* may lose, reorder and duplicate datagrams, other programs may send what *)
(* is no LCM datagram, and a program may crash and start again at once.    *)
(*                                                                         *)
(* Sizes are in cells (see LcmProtocol); the MTU and the integer widths    *)
(* are constants so that TLC can use small ones. A payload byte is known   *)
(* by the program and the message it belongs to and by its position.       *)
(***************************************************************************)
EXTENDS LcmProtocol, FiniteSets

CONSTANTS
  Senders,               \* programs that send, each with a transport
  Addr,                  \* the source address of each one's datagrams
  Workloads,             \* the sequences of [channel, size] messages they may send
  Channels,              \* channel names, sequences of bytes
  Strays,                \* [from, buf]: what else is sent to the group
  NoMessage,
  Idle,                  \* a program that is not inside send
  Down,                  \* a program that has crashed
  fragment_mtu,          \* 1400
  U16, U32,              \* 2^16 and 2^32, where the code casts
  Timeout, MaxMessageSize,
  MayCrash,              \* programs that may crash
  MayDuplicate,          \* programs whose datagrams the network may deliver again
  MaxTicks               \* bound: units of time in one run

ASSUME TransportAssumption ==
  /\ Addr \in [Senders -> {Addr[s] : s \in Senders}]
  /\ \A w \in Workloads, s \in Senders : w[s] \in Seq([channel : Channels, size : Nat])
  /\ {fragment_mtu, MaxTicks, Timeout, MaxMessageSize} \subseteq Nat
  /\ {U16, U32} \subseteq Nat \ {0}
  /\ MayCrash \subseteq Senders /\ MayDuplicate \subseteq Senders

\* A name with a zero byte in it would be cut short on the wire: nothing in the
\* code keeps such a name from send.
ASSUME NamesAssumption ==
  \A c \in Channels :
    /\ c # NoChannel
    /\ c \in Seq({c[i] : i \in DOMAIN c})
    /\ \A i \in 1 .. Len(c) : c[i] \notin {Zero, NotUtf8}

VARIABLES
  workload,     \* the messages each program sends, in order: never changes
  seq_counter,  \* each program's sequence_counter
  todo,         \* messages each program has still to send
  outgoing,     \* the send_fragmented call a program is in, or Idle or Down
  wire,         \* datagrams on their way
  pending,      \* the receiver's reassembler
  returned,     \* what recv returned last, or NoMessage
  ticks,        \* units of time passed
  offered, withdrawn, delivered  \* history, for MessageChannel: sendings and messages

history == <<offered, withdrawn, delivered>>
sender_vars == <<workload, seq_counter, todo, outgoing>>
receiver_vars == <<pending, returned>>
vars == <<sender_vars, wire, receiver_vars, ticks, history>>

SeqNumbers == 0 .. U32 - 1
\* The payload of the k-th message of s.
BytesOf(s, k, size) == [i \in 1 .. size |-> <<s, k, i>>]

Reassembler == INSTANCE FragmentReassembler WITH
  Addresses <- {Addr[s] : s \in Senders},
  Bytes <- {Zero} \cup (Senders \X Nat \X Nat),
  Fragments <- {}

Init ==
  /\ workload \in Workloads
  /\ seq_counter = [s \in Senders |-> 0]
  /\ todo = workload
  /\ outgoing = [s \in Senders |-> Idle]
  /\ wire = {}
  /\ Reassembler!Init
  /\ ticks = 0
  /\ offered = {} /\ withdrawn = {} /\ delivered = {}

-----------------------------------------------------------------------------
(* Arithmetic of send and send_fragmented.                                 *)

Least(a, b) == IF a <= b THEN a ELSE b
SaturatingSub(a, b) == IF a >= b THEN a - b ELSE 0

FitsInOne(c, size) == SHORT_HEADER_SIZE + Len(c) + 1 + size <= fragment_mtu

FirstCapacity(c) ==
  SaturatingSub(fragment_mtu, FRAGMENT_HEADER_SIZE + Len(c) + 1)
SubsequentCapacity == SaturatingSub(fragment_mtu, FRAGMENT_HEADER_SIZE)

\* Mutant: the division is not rounded up.
NFragmentsDown(c, size) ==
  (1 + SaturatingSub(size, FirstCapacity(c)) \div SubsequentCapacity) % U16

\* 1 + the rest divided by the capacity, rounded up, cast to u16.
NFragments(c, size) ==
  (1 + (SaturatingSub(size, FirstCapacity(c)) + SubsequentCapacity - 1)
         \div SubsequentCapacity) % U16

\* The slice of the payload that fragment frag_num carries.
ChunkEnd(o) ==
  IF o.frag_num = 0
  THEN Least(FirstCapacity(o.channel), Len(o.data))
  ELSE Least(o.offset + SubsequentCapacity, Len(o.data))
Chunk(o) == SubSeq(o.data, o.offset + 1, ChunkEnd(o))

FragmentOf(o) ==
  [sequence_number |-> o.sequence_number,
   payload_size    |-> Len(o.data) % U32,
   fragment_offset |-> o.offset % U32,
   fragment_number |-> o.frag_num,
   n_fragments     |-> o.n_fragments,
   channel         |-> IF o.frag_num = 0 THEN o.channel ELSE NoChannel,
   data            |-> Chunk(o)]

-----------------------------------------------------------------------------
(* send.                                                                   *)

\* The message s sends next, with the number that fetch_add gives it.
Position(s) == Len(workload[s]) - Len(todo[s]) + 1
Upcoming(s) ==
  [channel |-> Head(todo[s]).channel, sequence_number |-> seq_counter[s],
   data |-> BytesOf(s, Position(s), Head(todo[s]).size)]

\* For the history: that sending, and the one that a call of send_fragmented is at.
Sending(s) == [by |-> <<s, Position(s)>>, message |-> Upcoming(s)]
Current(s) ==
  [by |-> <<s, Position(s) - 1>>,
   message |-> [channel         |-> outgoing[s].channel,
                sequence_number |-> outgoing[s].sequence_number,
                data            |-> outgoing[s].data]]

Enter(s) ==
  /\ outgoing[s] = Idle
  /\ todo[s] # <<>>
  /\ todo' = [todo EXCEPT ![s] = Tail(@)]
  /\ seq_counter' = [seq_counter EXCEPT ![s] = (@ + 1) % U32]
  /\ offered' = offered \cup {Sending(s)}
  /\ UNCHANGED workload

Datagram(s, buf) == [sender |-> s, buf |-> buf]

\* A message that fits in one datagram: send_to succeeds or fails.
SendShort(s) ==
  /\ Enter(s)
  /\ FitsInOne(Upcoming(s).channel, Len(Upcoming(s).data))
  /\ \/ /\ wire' = wire \cup {Datagram(s, encode_short_message(Upcoming(s)))}
        /\ UNCHANGED withdrawn
     \/ /\ withdrawn' = withdrawn \cup {Sending(s)}
        /\ UNCHANGED wire
  /\ UNCHANGED <<outgoing, receiver_vars, ticks, delivered>>

\* The channel's name leaves no room for data: send returns an error.
SendRefused(s) ==
  /\ Enter(s)
  /\ ~ FitsInOne(Upcoming(s).channel, Len(Upcoming(s).data))
  /\ FirstCapacity(Upcoming(s).channel) = 0 \/ SubsequentCapacity = 0
  /\ withdrawn' = withdrawn \cup {Sending(s)}
  /\ UNCHANGED <<outgoing, wire, receiver_vars, ticks, delivered>>

\* send_fragmented starts. With n_fragments = 0 its loop is empty and send
\* returns Ok at once.
SendFragmented(s) ==
  /\ Enter(s)
  /\ ~ FitsInOne(Upcoming(s).channel, Len(Upcoming(s).data))
  /\ FirstCapacity(Upcoming(s).channel) # 0 /\ SubsequentCapacity # 0
  /\ LET n == NFragments(Upcoming(s).channel, Len(Upcoming(s).data)) IN
     outgoing' = [outgoing EXCEPT ![s] =
       IF n = 0 THEN Idle
       ELSE [channel |-> Upcoming(s).channel, data |-> Upcoming(s).data,
             sequence_number |-> seq_counter[s],
             n_fragments |-> n, frag_num |-> 0, offset |-> 0]]
  /\ UNCHANGED <<wire, receiver_vars, ticks, withdrawn, delivered>>

\* Mutant: the offset advances by the capacity of a later fragment.
SendFragmentFixed(s) ==
  LET o == outgoing[s] IN
  /\ o \notin {Idle, Down}
  /\ wire' = wire \cup {Datagram(s, encode_fragment(FragmentOf(o)))}
  /\ outgoing' = [outgoing EXCEPT ![s] =
       IF o.frag_num + 1 = o.n_fragments THEN Idle
       ELSE [o EXCEPT !.frag_num = @ + 1, !.offset = @ + SubsequentCapacity]]
  /\ UNCHANGED <<workload, seq_counter, todo, receiver_vars, ticks, history>>

\* One turn of the loop: encode, send_to and advance. After the last one send
\* returns Ok.
SendFragment(s) ==
  LET o == outgoing[s] IN
  /\ o \notin {Idle, Down}
  /\ wire' = wire \cup {Datagram(s, encode_fragment(FragmentOf(o)))}
  /\ outgoing' = [outgoing EXCEPT ![s] =
       IF o.frag_num + 1 = o.n_fragments THEN Idle
       ELSE [o EXCEPT !.frag_num = @ + 1, !.offset = @ + Len(Chunk(o))]]
  /\ UNCHANGED <<workload, seq_counter, todo, receiver_vars, ticks, history>>

\* send_to fails in the loop: the fragments already sent stay sent.
SendFails(s) ==
  /\ outgoing[s] \notin {Idle, Down}
  /\ outgoing' = [outgoing EXCEPT ![s] = Idle]
  /\ withdrawn' = withdrawn \cup {Current(s)}
  /\ UNCHANGED <<workload, seq_counter, todo, wire, receiver_vars, ticks, offered, delivered>>

\* The program dies, inside send_fragmented or not.
Crash(s) ==
  /\ s \in MayCrash
  /\ outgoing[s] # Down
  /\ seq_counter[s] # 0
  /\ outgoing' = [outgoing EXCEPT ![s] = Down]
  /\ withdrawn' = withdrawn \cup (IF outgoing[s] = Idle THEN {} ELSE {Current(s)})
  /\ UNCHANGED <<workload, seq_counter, todo, wire, receiver_vars, ticks, offered, delivered>>

\* The program starts again, at any time: with a transport that counts from 0 and
\* has the address of the one before.
Restart(s) ==
  /\ outgoing[s] = Down
  /\ outgoing' = [outgoing EXCEPT ![s] = Idle]
  /\ seq_counter' = [seq_counter EXCEPT ![s] = 0]
  /\ UNCHANGED <<workload, todo, wire, receiver_vars, ticks, history>>

-----------------------------------------------------------------------------
(* recv: one turn of its loop per datagram. A short message is returned at *)
(* once; a fragment goes to the reassembler, and recv returns if that      *)
(* completes a message; anything else is skipped. A datagram that is lost  *)
(* is one never received.                                                  *)

IsFragment(packet) == "n_fragments" \in DOMAIN packet

recv(from, buf) ==
  LET packet == parse_datagram(buf) IN
  /\ IF packet = NoPacket THEN returned' = NoMessage /\ UNCHANGED pending
     ELSE IF IsFragment(packet) THEN Reassembler!process(from, packet)
     ELSE returned' = packet /\ UNCHANGED pending
  /\ delivered' = IF returned' = NoMessage THEN delivered ELSE delivered \cup {returned'}
  /\ UNCHANGED <<sender_vars, ticks, offered, withdrawn>>

\* The datagram's last copy.
Receive(d) ==
  /\ d \in wire
  /\ wire' = wire \ {d}
  /\ recv(Addr[d.sender], d.buf)

\* There is another copy of it.
ReceiveCopy(d) ==
  /\ d \in wire /\ d.sender \in MayDuplicate
  /\ UNCHANGED wire
  /\ recv(Addr[d.sender], d.buf)

ReceiveStray ==
  \E d \in Strays : UNCHANGED wire /\ recv(d.from, d.buf)

Tick ==
  /\ ticks < MaxTicks
  /\ ticks' = ticks + 1
  /\ Reassembler!Tick
  /\ UNCHANGED <<sender_vars, wire, history>>

SendStep(s) ==
  \/ SendShort(s) \/ SendRefused(s) \/ SendFragmented(s)
  \/ SendFragment(s) \/ SendFails(s)

Next ==
  \/ \E s \in Senders : SendStep(s)
  \/ \E s \in Senders : Crash(s) \/ Restart(s)
  \/ \E d \in wire : Receive(d) \/ ReceiveCopy(d)
  \/ ReceiveStray
  \/ Tick

Spec == Init /\ [][Next]_vars

-----------------------------------------------------------------------------
(* Fresh numbers. The code gives fragments the number its counter is at,   *)
(* whatever became of the last message to go by that number: the counter   *)
(* starts at 0 whenever the program does and wraps, and programs that bind *)
(* one port of one host have one address. That no message starts out in    *)
(* parts while parts of another one go by its address and number is what   *)
(* the receiver relies on (fragment.rs:8-12), and is assumed where named.  *)

\* A datagram with a part of a message that goes by the address a and the number q.
CarriesPart(d, a, q) ==
  LET packet == parse_datagram(d.buf) IN
  /\ Addr[d.sender] = a
  /\ packet # NoPacket /\ IsFragment(packet)
  /\ packet.sequence_number = q

\* Nothing by that address and number is under way, held by the receiver or being
\* sent.
KeyUnused(a, q) ==
  /\ \A d \in wire : ~ CarriesPart(d, a, q)
  /\ <<a, q>> \in DOMAIN pending => Reassembler!Stale(pending[<<a, q>>])
  /\ \A s \in Senders : Addr[s] = a /\ outgoing[s] \notin {Idle, Down}
                         => outgoing[s].sequence_number # q

\* A call of send_fragmented starts.
StartsParts(s) == outgoing[s] = Idle /\ outgoing'[s] \notin {Idle, Down}

FreshNumbers == \A s \in Senders : StartsParts(s) => KeyUnused(Addr[s], seq_counter[s])

FreshNext == Next /\ FreshNumbers

FreshSpec == Init /\ [][FreshNext]_vars

-----------------------------------------------------------------------------
\* A datagram's last copy is received: no other step takes one off the wire.
Arrives == \E d \in wire : wire' = wire \ {d}

\* The programs, whose messages are finitely many, go on; and the network loses
\* nothing: as long as datagrams are on their way, the last copy of one of them
\* comes to be received.
FairSpec ==
  /\ FreshSpec
  /\ WF_vars((\E s \in Senders : SendStep(s)) /\ FreshNumbers)
  /\ WF_wire(Arrives)

-----------------------------------------------------------------------------
(* Properties.                                                             *)

\* The messages the programs send, as recv should return them: the number depends
\* on the restarts.
AllSendings ==
  UNION {UNION {{[by |-> <<s, i>>,
                  message |-> [channel |-> w[s][i].channel, sequence_number |-> q,
                               data |-> BytesOf(s, i, w[s][i].size)]] :
                 q \in SeqNumbers \cap 0 .. i - 1} :
                i \in DOMAIN w[s]} : w \in Workloads, s \in Senders}

\* The type invariant.
TypeOK ==
  /\ seq_counter \in [Senders -> SeqNumbers]
  /\ offered \subseteq AllSendings /\ withdrawn \subseteq offered
  /\ \A s \in Senders : outgoing[s] \notin {Idle, Down} =>
       /\ outgoing[s].frag_num \in 0 .. U16 - 1
       /\ outgoing[s].offset \in Nat
  /\ DOMAIN pending \subseteq Reassembler!FragmentKeys
  /\ ticks \in 0 .. MaxTicks

\* What recv returns was sent: no message is put together from the fragments
\* of two messages, or returned with a part missing (multicast.rs:45-48,
\* fragment.rs:8-12).
DeliveredIntact == \A m \in delivered : \E o \in offered : o.message = m

\* The transport implements MessageChannel: deliveries are intact, and a
\* message whose send has failed half-way is never delivered
\* (multicast.rs:210-232).
Channel == INSTANCE MessageChannel WITH Sendings <- AllSendings
ImplementsChannel == Channel!Spec

\* The fragments cut the payload up: every fragment but a first one starts
\* where the one before ended, none is empty, no slice &data[offset..end] is
\* out of bounds, and the last one ends with the payload (multicast.rs:198-232).
FragmentsCoverPayload ==
  \A s \in Senders : outgoing[s] \notin {Idle, Down} =>
    LET o == outgoing[s] IN
    /\ o.frag_num < o.n_fragments
    /\ o.frag_num = 0 <=> o.offset = 0
    /\ o.offset < ChunkEnd(o)
    /\ o.frag_num + 1 = o.n_fragments <=> ChunkEnd(o) = Len(o.data)

\* Without loss, all that is sent arrives in the end, unless the send fails, the
\* program dies in it, the payload is too large to be reassembled, or time enough
\* passes for sets to expire (multicast.rs:117-150).
EventuallyDelivered ==
  <>[](\A o \in offered : \/ o.message \in delivered \/ o \in withdrawn
                          \/ Len(o.message.data) > MaxMessageSize
                          \/ ticks > Timeout)
=============================================================================
