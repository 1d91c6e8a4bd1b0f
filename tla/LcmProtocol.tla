---------------------------- MODULE LcmProtocol ----------------------------
(***************************************************************************)
(* The LCM wire protocol of protocol.rs: what the two encoders put in a    *)
(* datagram and what parse_datagram makes of any datagram.                 *)
(*                                                                         *)
(* A datagram is a sequence of cells: each field of the header is a cell,  *)
(* and so is each byte of the channel's name and of the data. A name is a  *)
(* sequence of bytes.                                                      *)
(***************************************************************************)
EXTENDS Integers, Sequences

CONSTANTS
  MAGIC_SHORT, MAGIC_FRAGMENT,
  Zero,        \* the zero byte, which ends a name
  NotUtf8,     \* a byte no UTF-8 string contains
  NoChannel,   \* a fragment without a name
  NoPacket     \* parse_datagram returned None

ASSUME MagicAssumption == MAGIC_SHORT # MAGIC_FRAGMENT

SHORT_HEADER_SIZE    == 2
FRAGMENT_HEADER_SIZE == 6

encode_short_message(m) ==
  <<MAGIC_SHORT, m.sequence_number>> \o m.channel \o <<Zero>> \o m.data

encode_fragment(f) ==
  <<MAGIC_FRAGMENT, f.sequence_number, f.payload_size, f.fragment_offset,
    f.fragment_number, f.n_fragments>>
  \o (IF f.channel = NoChannel THEN <<>> ELSE f.channel \o <<Zero>>)
  \o f.data

-----------------------------------------------------------------------------
\* rest[i] ends the name at the head of rest, and the name is UTF-8.
EndsName(rest, i) ==
  /\ rest[i] = Zero
  /\ \A j \in 1 .. i - 1 : rest[j] \notin {Zero, NotUtf8}

\* Where the name ends, or nowhere: position(|&b| b == 0), then from_utf8.
NameEnd(rest) == {i \in 1 .. Len(rest) : EndsName(rest, i)}

After(buf, n) == SubSeq(buf, n + 1, Len(buf))

\* Mutant: the data starts with the name's zero byte.
parse_short_keeping_zero(buf) ==
  LET rest == After(buf, SHORT_HEADER_SIZE) IN
  IF Len(buf) < SHORT_HEADER_SIZE \/ NameEnd(rest) = {}
  THEN NoPacket
  ELSE LET end == CHOOSE i \in NameEnd(rest) : TRUE IN
       [sequence_number |-> buf[2],
        channel |-> SubSeq(rest, 1, end - 1), data |-> After(rest, end - 1)]

parse_short_message(buf) ==
  LET rest == After(buf, SHORT_HEADER_SIZE) IN
  IF Len(buf) < SHORT_HEADER_SIZE \/ NameEnd(rest) = {}
  THEN NoPacket
  ELSE LET end == CHOOSE i \in NameEnd(rest) : TRUE IN
       [sequence_number |-> buf[2],
        channel |-> SubSeq(rest, 1, end - 1), data |-> After(rest, end)]

\* Only the first fragment has a name.
FragmentPacket(buf, channel, data) ==
  [sequence_number |-> buf[2], payload_size |-> buf[3], fragment_offset |-> buf[4],
   fragment_number |-> buf[5], n_fragments |-> buf[6],
   channel |-> channel, data |-> data]

parse_fragment(buf) ==
  LET rest == After(buf, FRAGMENT_HEADER_SIZE) IN
  IF Len(buf) < FRAGMENT_HEADER_SIZE THEN NoPacket
  ELSE IF buf[5] # 0 THEN FragmentPacket(buf, NoChannel, rest)
  ELSE IF NameEnd(rest) = {} THEN NoPacket
  ELSE LET end == CHOOSE i \in NameEnd(rest) : TRUE IN
       FragmentPacket(buf, SubSeq(rest, 1, end - 1), After(rest, end))

\* A datagram that is too short, or of another magic, is no packet.
parse_datagram(buf) ==
  CASE buf # <<>> /\ buf[1] = MAGIC_SHORT    -> parse_short_message(buf)
    [] buf # <<>> /\ buf[1] = MAGIC_FRAGMENT -> parse_fragment(buf)
    [] OTHER                                 -> NoPacket
=============================================================================
