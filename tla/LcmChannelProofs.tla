--------------------------- MODULE LcmChannelProofs ---------------------------
(***************************************************************************)
(* The transport implements MessageChannel, as long as no message starts   *)
(* out in parts while parts of another one go by its address and number:   *)
(* whatever is lost, reordered or duplicated, wherever a send fails and    *)
(* whenever a program crashes and starts again, recv returns only messages *)
(* that were sent, whole, and none whose send has failed or died.          *)
(***************************************************************************)
EXTENDS LcmTransportProofs, FiniteSetTheorems

-----------------------------------------------------------------------------
(* What the theorems assume, besides Untruncated.                          *)

\* No payload needs more than 32 bits for its size.
SizesFit ==
  \A w \in Workloads, s \in Senders : \A i \in 1 .. Len(w[s]) : w[s][i].size < U32

\* What else is sent to the group is not LCM: a program that sends LCM is among the
\* Senders.
StraysMalformed == \A d \in Strays : parse_datagram(d.buf) = NoPacket

Regular == Untruncated /\ SizesFit /\ StraysMalformed

-----------------------------------------------------------------------------
(* What is true of every run.                                              *)

InCall(s) == outgoing[s] \notin {Idle, Down}

\* Fragment j of the sending o may be under way or received. The last one of a
\* sending that is withdrawn never is.
Left(o, j) ==
  /\ o \in offered /\ Splits(o.message) /\ j \in 0 .. Parts(o.message) - 1
  /\ \A s \in Senders : InCall(s) /\ o = Current(s) => j < outgoing[s].frag_num
  /\ o \in withdrawn => j + 1 # Parts(o.message)

\* todo is what is left of the workload, and a call sends the last message taken.
SendersOK ==
  /\ workload \in Workloads
  /\ \A s \in Senders :
       /\ Len(todo[s]) <= Len(workload[s])
       /\ \A i \in 1 .. Len(todo[s]) : todo[s][i] = workload[s][Position(s) + i - 1]
       /\ seq_counter[s] \in SeqNumbers /\ seq_counter[s] < Position(s)
       /\ InCall(s) =>
            /\ Current(s) \in offered /\ Current(s) \notin withdrawn
            /\ Splits(Current(s).message)
            /\ outgoing[s].frag_num \in 0 .. Parts(Current(s).message) - 1
            /\ outgoing[s] = Call(Current(s).message, outgoing[s].frag_num)

\* A sending is of a sound message, at a place of the workload that has been passed.
HistoryOK ==
  /\ offered \subseteq AllSendings
  /\ \A o \in offered :
       /\ o.message \in Sound
       /\ \E s \in Senders : \E k \in 1 .. Position(s) - 1 : o.by = <<s, k>>
  /\ withdrawn \subseteq offered

\* A datagram is a short message whose send has not failed, or a fragment.
ShortOf(o, buf) ==
  Fits(o.message) /\ o \notin withdrawn /\ buf = encode_short_message(o.message)
PartOf(o, buf) == \E j : Left(o, j) /\ buf = encode_fragment(Part(o.message, j))
DatagramOK(d) ==
  d.sender \in Senders /\ \E o \in offered : ShortOf(o, d.buf) \/ PartOf(o, d.buf)
WireOK == \A d \in wire : DatagramOK(d)

BaseInv ==
  /\ CallInv /\ SendersOK /\ HistoryOK /\ WireOK
  /\ DOMAIN pending \subseteq Reassembler!FragmentKeys
  /\ ticks \in 0 .. MaxTicks

-----------------------------------------------------------------------------
(* What is true as long as numbers are fresh.                              *)

Sets ==
  [channel : Channels \cup {NoChannel}, payload_size : Nat, n_fragments : Nat,
   fragments_received : Nat, buffer : Seq(Cells \cup {Zero}),
   received_mask : SUBSET Nat, age : Nat]

\* The set holds fragments of the sending o, in their places.
SetOf(o, set) ==
  LET m == o.message IN
  /\ o \in offered /\ Splits(m)
  /\ set \in Sets
  /\ set.payload_size = Len(m.data) /\ Len(set.buffer) = Len(m.data)
  /\ set.n_fragments = Parts(m)
  /\ set.fragments_received = Cardinality(set.received_mask)
  /\ \A j \in set.received_mask :
       /\ Left(o, j)
       /\ \A i \in Span(m, j) : set.buffer[i] = m.data[i]
  /\ 0 \in set.received_mask => set.channel = m.channel

\* Everything in parts by the address a and the number q is of the sending o.
Holds(o, a, q, sets) ==
  <<a, q>> \in DOMAIN sets /\ ~ Reassembler!Stale(sets[<<a, q>>]) => SetOf(o, sets[<<a, q>>])
Holder(o, a, q) ==
  /\ \A d \in wire : CarriesPart(d, a, q) => PartOf(o, d.buf)
  /\ Holds(o, a, q, pending)
  /\ \A s \in Senders :
       InCall(s) /\ Addr[s] = a /\ outgoing[s].sequence_number = q => Current(s) = o

\* What recv may return: a message whose sending is over and has not failed.
Whole(m) ==
  \E o \in offered :
    /\ o \notin withdrawn /\ o.message = m
    /\ \A s \in Senders : InCall(s) => o # Current(s)

FreshInv ==
  /\ \A k \in DOMAIN pending : pending[k] \in Sets
  /\ \A a, q : \E o : Holder(o, a, q)
  /\ \A m \in delivered : Whole(m)

-----------------------------------------------------------------------------
(* The messages of a program.                                              *)

\* The message at place k of the workload, sent as number q.
LEMMA PlaceSound ==
  ASSUME Regular, CallInv, SendersOK, NEW s \in Senders,
         NEW k \in 1 .. Len(workload[s]), NEW q \in SeqNumbers
  PROVE  [channel |-> workload[s][k].channel, sequence_number |-> q,
          data |-> BytesOf(s, k, workload[s][k].size)] \in Sound
<1>1. PICK w \in Seq(Sendable) : w = workload[s]
  BY DEF CallInv
<1>2. workload \in Workloads
  BY DEF SendersOK
<1>3. \A i \in 1 .. Len(workload[s]) : workload[s][i].size < U32
  BY <1>2 DEF Regular, SizesFit
<1>4. PICK x \in Sendable : x = w[k]
  BY <1>1
<1>5. PICK c \in Channels, size \in Nat : c = x.channel /\ size = x.size
  BY DEF Sendable
<1>6. size < U32
  BY <1>1, <1>3, <1>4, <1>5
<1>7. FirstCapacity(c) # 0 /\ SubsequentCapacity # 0 => Count(c, size) < U16
  BY <1>5 DEF Sendable
<1>8. PICK d : d = BytesOf(s, k, size)
  OBVIOUS
<1>9. d \in Seq(Cells) /\ Len(d) = size
  BY <1>6, <1>8 DEF BytesOf, Cells
<1>10. [channel |-> c, sequence_number |-> q, data |-> d] \in Sound
  BY <1>6, <1>7, <1>9 DEF Sound
<1> QED
  BY <1>1, <1>4, <1>5, <1>8, <1>10

\* Where a program is in its workload.
LEMMA Places ==
  ASSUME Regular, CallInv, SendersOK, NEW s \in Senders
  PROVE  /\ Position(s) \in Nat \ {0} /\ Position(s) <= Len(workload[s]) + 1
         /\ seq_counter[s] \in Nat /\ seq_counter[s] < Position(s)
         /\ seq_counter[s] \in SeqNumbers /\ Len(workload[s]) \in Nat
         /\ todo[s] # <<>> => /\ Position(s) <= Len(workload[s])
                              /\ Head(todo[s]) = workload[s][Position(s)]
<1>1. workload[s] \in Seq(Sendable) /\ todo[s] \in Seq(Sendable)
  BY DEF CallInv
<1>2. PICK w \in Seq(Sendable) : w = workload[s]
  BY <1>1
<1>3. PICK t \in Seq(Sendable) : t = todo[s]
  BY <1>1
<1>4. PICK P : P = Position(s)
  OBVIOUS
<1>5. PICK n : n = seq_counter[s]
  OBVIOUS
<1>6. P = Len(w) - Len(t) + 1
  BY <1>2, <1>3, <1>4 DEF Position
<1>7. /\ Len(t) <= Len(w)
      /\ \A i \in 1 .. Len(t) : t[i] = w[P + i - 1]
      /\ n \in SeqNumbers /\ n < P
  BY <1>2, <1>3, <1>4, <1>5 DEF SendersOK
<1>8. n \in Nat
  BY <1>7, TransportAssumption DEF SeqNumbers
<1>9. P \in Nat \ {0} /\ P <= Len(w) + 1 /\ Len(w) \in Nat
  BY <1>6, <1>7
<1>10. ASSUME t # <<>>
      PROVE  P <= Len(w) /\ Head(t) = w[P]
  <2>1. Len(t) \in Nat /\ Len(t) >= 1 /\ Head(t) = t[1]
    BY <1>10
  <2>2. t[1] = w[P + 1 - 1] /\ P + 1 - 1 = P
    BY <1>7, <1>9, <2>1
  <2> QED
    BY <1>6, <2>1, <2>2
<1> QED
  BY <1>2, <1>3, <1>4, <1>5, <1>7, <1>8, <1>9, <1>10

-----------------------------------------------------------------------------
(* Sets of fragments.                                                      *)

\* A new set holds nothing of m yet.
LEMMA NewSetOf ==
  ASSUME HistoryOK, NEW o \in offered, NEW m, m = o.message, Splits(m),
         NEW j \in 0 .. Parts(m) - 1
  PROVE  SetOf(o, Reassembler!NewSet(Part(m, j)))
<1>1. m \in Sound /\ Parts(m) \in Nat
  BY PartsType DEF HistoryOK
<1>2. PICK f : f = Part(m, j)
  OBVIOUS
<1>3. PICK size \in Nat : size = Len(m.data)
  BY <1>1, SoundType
<1>4. f.payload_size = size /\ f.n_fragments = Parts(m)
  BY <1>1, <1>2, <1>3, PartFacts
<1>5. PICK buffer : buffer = [i \in 1 .. size |-> Zero]
  OBVIOUS
<1>6. buffer \in Seq(Cells \cup {Zero}) /\ Len(buffer) = size
  BY <1>5
<1>7. PICK set : set = Reassembler!NewSet(f)
  OBVIOUS
<1>8. set = [channel |-> NoChannel, payload_size |-> size, n_fragments |-> Parts(m),
             fragments_received |-> 0, buffer |-> buffer, received_mask |-> {}, age |-> 0]
  BY <1>4, <1>5, <1>7 DEF Reassembler!NewSet
<1>9. set \in Sets
  BY <1>1, <1>6, <1>8 DEF Sets
<1>10. Cardinality({}) = 0
  BY FS_EmptySet
<1> QED
  BY <1>2, <1>3, <1>6, <1>7, <1>8, <1>9, <1>10 DEF SetOf

\* The set a fragment of m goes to, with the name if it is the first fragment.
LEMMA EntryOf ==
  ASSUME HistoryOK, NEW o \in offered, NEW m, m = o.message, Splits(m),
         NEW j \in 0 .. Parts(m) - 1, NEW p, NEW key,
         key \in DOMAIN p => SetOf(o, p[key])
  PROVE  LET set == Reassembler!Entry(p, key, Part(m, j)) IN
         SetOf(o, set) /\ (j = 0 => set.channel = m.channel)
<1>1. PICK f : f = Part(m, j)
  OBVIOUS
<1>2. m \in Sound /\ f.fragment_number = j /\ (j = 0 => f.channel = m.channel)
  BY <1>1, PartFacts DEF HistoryOK
<1>3. PICK set : set = IF key \in DOMAIN p THEN p[key] ELSE Reassembler!NewSet(f)
  OBVIOUS
<1>4. SetOf(o, set)
  BY <1>1, <1>3, NewSetOf
<1>5. PICK named : named = [set EXCEPT !.channel = m.channel]
  OBVIOUS
<1>6. SetOf(o, named) /\ named.channel = m.channel
  <2>1. set \in Sets /\ m.channel \in Channels
    BY <1>2, <1>4, SoundType DEF SetOf
  <2>2. /\ named \in Sets /\ named.channel = m.channel
        /\ named.payload_size = set.payload_size /\ named.n_fragments = set.n_fragments
        /\ named.fragments_received = set.fragments_received /\ named.buffer = set.buffer
        /\ named.received_mask = set.received_mask
    BY <1>5, <2>1 DEF Sets
  <2> QED
    BY <1>4, <2>2 DEF SetOf
<1>7. Reassembler!Entry(p, key, f) = IF j = 0 THEN named ELSE set
  BY <1>2, <1>3, <1>5 DEF Reassembler!Entry
<1> QED
  BY <1>1, <1>4, <1>6, <1>7

\* The numbers below n, and how many they are.
LEMMA Numbers ==
  ASSUME NEW n \in Nat, NEW mask \in SUBSET (0 .. n - 1)
  PROVE  /\ IsFiniteSet(mask) /\ Cardinality(mask) \in Nat
         /\ Cardinality(mask) = n => mask = 0 .. n - 1
<1>1. 0 \in Int /\ n - 1 \in Int /\ (0 > n - 1 <=> n = 0)
  OBVIOUS
<1>2. /\ IsFiniteSet(0 .. n - 1)
      /\ Cardinality(0 .. n - 1) = IF 0 > n - 1 THEN 0 ELSE (n - 1) - 0 + 1
  BY <1>1, FS_Interval
<1>3. Cardinality(0 .. n - 1) = n
  BY <1>1, <1>2
<1> QED
  BY <1>2, <1>3, FS_Subset, FS_CardinalityType

\* A buffer after fragment j of m is copied into it: what was there of m stays, and
\* the fragment's bytes are where they are in the payload.
LEMMA Copied ==
  ASSUME NEW m \in Sound, Splits(m), NEW j \in 0 .. Parts(m) - 1,
         NEW buffer \in Seq(Cells \cup {Zero}), Len(buffer) = Len(m.data)
  PROVE  LET f   == Part(m, j)
             new == Reassembler!Overwrite(buffer, f.fragment_offset, f.data)
         IN  /\ new \in Seq(Cells \cup {Zero}) /\ Len(new) = Len(m.data)
             /\ \A i \in Span(m, j) : new[i] = m.data[i]
             /\ \A i \in 1 .. Len(m.data) : buffer[i] = m.data[i] => new[i] = m.data[i]
<1>1. PICK d \in Seq(Cells), size \in Nat : d = m.data /\ size = Len(d)
  BY SoundType
<1>2. PICK f, o : f = Part(m, j) /\ o = Call(m, j)
  OBVIOUS
<1>3. PICK offset \in Nat, end \in Nat, chunk \in Seq(Cells) :
        /\ offset = f.fragment_offset /\ offset = o.offset /\ end = ChunkEnd(o)
        /\ chunk = f.data /\ offset < end /\ end <= size /\ Len(chunk) = end - offset
        /\ \A i \in 1 .. Len(chunk) : chunk[i] = d[offset + i]
  <2>1. /\ f.fragment_offset \in Nat /\ ChunkEnd(o) \in Nat /\ f.data \in Seq(Cells)
        /\ f.fragment_offset = o.offset
        /\ f.fragment_offset < ChunkEnd(o) /\ ChunkEnd(o) <= Len(m.data)
        /\ Len(f.data) = ChunkEnd(o) - f.fragment_offset
        /\ \A i \in 1 .. Len(f.data) : f.data[i] = m.data[f.fragment_offset + i]
    <3>1. /\ o.offset \in Nat /\ ChunkEnd(o) \in Nat
          /\ o.offset < ChunkEnd(o) /\ ChunkEnd(o) <= Len(m.data)
      BY <1>2, PartFacts
    <3>2. f.fragment_offset = o.offset
      BY <1>2, PartFacts
    <3>3. /\ f.data \in Seq(Cells) /\ Len(f.data) = ChunkEnd(o) - o.offset
          /\ \A i \in 1 .. Len(f.data) : f.data[i] = m.data[o.offset + i]
      BY <1>2, PartFacts
    <3> QED
      BY <3>1, <3>2, <3>3
  <2> QED
    BY <1>1, <2>1
<1>4. PICK new : new = Reassembler!Overwrite(buffer, offset, chunk)
  OBVIOUS
<1>5. new = [i \in 1 .. size |->
               IF i \in offset + 1 .. end THEN chunk[i - offset] ELSE buffer[i]]
  <2>1. offset + Len(chunk) = end /\ Len(buffer) = size
    BY <1>1, <1>3
  <2>2. ~ (end > size)
    BY <1>3
  <2>3. new = [i \in 1 .. size |->
                 IF i \in offset + 1 .. end THEN chunk[i - offset]
                 ELSE IF i <= size THEN buffer[i] ELSE Zero]
    BY <1>4, <2>1, <2>2 DEF Reassembler!Overwrite
  <2>4. \A i \in 1 .. size : i <= size
    OBVIOUS
  <2> QED
    BY <2>3, <2>4
<1>6. \A i \in offset + 1 .. end :
        i \in 1 .. size /\ chunk[i - offset] \in Cells /\ chunk[i - offset] = d[i]
  <2>1. ASSUME NEW i \in offset + 1 .. end
        PROVE  i \in 1 .. size /\ chunk[i - offset] \in Cells /\ chunk[i - offset] = d[i]
    <3>1. i - offset \in 1 .. Len(chunk) /\ offset + (i - offset) = i /\ i \in 1 .. size
      <4>1. Len(chunk) = end - offset /\ offset < end /\ end <= size
        BY <1>3
      <4> QED
        BY ONLY <4>1, i \in offset + 1 .. end, offset \in Nat, end \in Nat, size \in Nat
    <3>2. chunk[i - offset] \in Cells
      BY <3>1, ElementOfSeq
    <3>3. chunk[i - offset] = d[offset + (i - offset)]
      BY <1>3, <3>1
    <3> QED
      BY <3>1, <3>2, <3>3
  <2> QED
    BY <2>1
<1>7. \A i \in 1 .. size : buffer[i] \in Cells \cup {Zero}
  BY <1>1, ElementOfSeq
<1>8. new \in Seq(Cells \cup {Zero}) /\ Len(new) = size
  <2>1. PICK T : T = Cells \cup {Zero}
    OBVIOUS
  <2>2. \A i \in 1 .. size :
          (IF i \in offset + 1 .. end THEN chunk[i - offset] ELSE buffer[i]) \in T
    BY <1>6, <1>7, <2>1
  <2>3. new \in [1 .. size -> T]
    BY <1>5, <2>2
  <2> QED
    BY <2>1, <2>3, SeqDef, LenProperties
<1>9. \A i \in offset + 1 .. end : new[i] = d[i]
  BY <1>5, <1>6
<1>10. \A i \in 1 .. size : buffer[i] = d[i] => new[i] = d[i]
  BY <1>5, <1>6
<1>11. Span(m, j) = offset + 1 .. end
  BY <1>2, <1>3 DEF Span
<1> QED
  BY <1>1, <1>2, <1>3, <1>4, <1>8, <1>9, <1>10, <1>11

\* A set that accepts fragment j of m holds it afterwards.
LEMMA StoreOf ==
  ASSUME HistoryOK, NEW o, NEW m, m = o.message, NEW j, NEW set,
         SetOf(o, set), Left(o, j), j = 0 => set.channel = m.channel,
         Reassembler!Accepts(set, Part(m, j))
  PROVE  LET new == Reassembler!Store(set, Part(m, j)) IN
         SetOf(o, new) /\ new.channel = set.channel /\ new.age = set.age
<1>1. o \in offered /\ Splits(m) /\ j \in 0 .. Parts(m) - 1
  BY DEF Left
<1>2. m \in Sound /\ Parts(m) \in Nat
  BY <1>1, PartsType DEF HistoryOK
<1>3. PICK f, new : f = Part(m, j) /\ new = Reassembler!Store(set, f)
  OBVIOUS
<1>4. f.fragment_number = j
  BY <1>1, <1>2, <1>3, PartFacts
<1>5. PICK mask, count, buffer, bytes :
        /\ mask = set.received_mask /\ count = set.fragments_received
        /\ buffer = set.buffer
        /\ bytes = Reassembler!Overwrite(buffer, f.fragment_offset, f.data)
  OBVIOUS
<1>6. /\ set \in Sets /\ set.payload_size = Len(m.data) /\ Len(buffer) = Len(m.data)
      /\ set.n_fragments = Parts(m) /\ count = Cardinality(mask)
      /\ \A i \in mask : Left(o, i) /\ \A k \in Span(m, i) : buffer[k] = m.data[k]
      /\ 0 \in mask => set.channel = m.channel
  BY <1>5 DEF SetOf
<1>7. buffer \in Seq(Cells \cup {Zero}) /\ mask \in SUBSET Nat /\ count \in Nat
  BY <1>5, <1>6 DEF Sets
<1>8. /\ bytes \in Seq(Cells \cup {Zero}) /\ Len(bytes) = Len(m.data)
      /\ \A i \in Span(m, j) : bytes[i] = m.data[i]
      /\ \A i \in 1 .. Len(m.data) : buffer[i] = m.data[i] => bytes[i] = m.data[i]
  <2>1. Len(buffer) = Len(m.data)
    BY <1>6
  <2>2. bytes = Reassembler!Overwrite(buffer, Part(m, j).fragment_offset, Part(m, j).data)
    BY <1>3, <1>5
  <2> QED
    BY <1>1, <1>2, <1>7, <2>1, <2>2, Copied
<1>9. new = [set EXCEPT !.buffer = bytes, !.received_mask = mask \cup {j},
                        !.fragments_received = count + 1]
  BY <1>3, <1>4, <1>5, <1>6 DEF Reassembler!Store, Sets
<1>10. PICK grown : grown = mask \cup {j}
  OBVIOUS
<1>11. grown \in SUBSET Nat /\ count + 1 \in Nat
  BY <1>1, <1>2, <1>7, <1>10
<1>12. /\ new \in Sets /\ new.channel = set.channel /\ new.age = set.age
       /\ new.payload_size = set.payload_size /\ new.n_fragments = set.n_fragments
       /\ new.buffer = bytes /\ new.received_mask = grown
       /\ new.fragments_received = count + 1
  BY <1>6, <1>8, <1>9, <1>10, <1>11 DEF Sets
<1>13. count + 1 = Cardinality(grown)
  <2>1. mask \in SUBSET (0 .. Parts(m) - 1)
    BY <1>6 DEF Left
  <2>2. j \notin mask
    BY <1>3, <1>4, <1>5 DEF Reassembler!Accepts
  <2> QED
    BY <1>2, <1>6, <1>10, <2>1, <2>2, Numbers, FS_AddElement
<1>14. ASSUME NEW i \in grown
       PROVE  Left(o, i) /\ \A k \in Span(m, i) : bytes[k] = m.data[k]
  <2>1. CASE i = j
    BY <1>8, <2>1
  <2>2. CASE i \in mask
    <3>1. Left(o, i) /\ \A k \in Span(m, i) : buffer[k] = m.data[k]
      BY <1>6, <2>2
    <3>2. Span(m, i) \subseteq 1 .. Len(m.data)
      <4>1. i \in 0 .. Parts(m) - 1
        BY <3>1 DEF Left
      <4>2. PICK offset \in Nat, end \in Nat, size \in Nat :
              /\ offset = Call(m, i).offset /\ end = ChunkEnd(Call(m, i))
              /\ size = Len(m.data) /\ end <= size
        BY <1>1, <1>2, <4>1, PartFacts, SoundType
      <4> QED
        BY <4>2 DEF Span
    <3> QED
      BY <1>8, <3>1, <3>2
  <2> QED
    BY <1>10, <1>14, <2>1, <2>2
<1>15. 0 \in grown => new.channel = m.channel
  BY <1>6, <1>10, <1>12
<1>16. SetOf(o, new)
  BY <1>1, <1>6, <1>8, <1>12, <1>13, <1>14, <1>15 DEF SetOf
<1> QED
  BY <1>3, <1>12, <1>16

\* A complete set holds its message, whose sending is over and has not failed.
LEMMA CompleteOf ==
  ASSUME SendersOK, HistoryOK, NEW o, NEW m, m = o.message, NEW set,
         SetOf(o, set), set.fragments_received = set.n_fragments
  PROVE  set.channel = m.channel /\ set.buffer = m.data /\ Whole(m)
<1>1. o \in offered /\ Splits(m)
  BY DEF SetOf
<1>2. m \in Sound /\ Parts(m) \in Nat \ {0}
  BY <1>1, PartsType DEF HistoryOK
<1>3. PICK mask : mask = set.received_mask
  OBVIOUS
<1>4. PICK n \in Nat \ {0} : n = Parts(m)
  BY <1>2
<1>5. mask \in SUBSET (0 .. n - 1) /\ Cardinality(mask) = n
  BY <1>3, <1>4 DEF SetOf, Left
<1>6. mask = 0 .. n - 1
  BY <1>4, <1>5, Numbers
<1>7. 0 \in mask /\ n - 1 \in mask
  BY <1>4, <1>6
<1>8. Left(o, n - 1) /\ (n - 1) + 1 = n
  BY <1>3, <1>4, <1>7 DEF SetOf
<1>9. o \notin withdrawn
  BY <1>4, <1>8 DEF Left
<1>10. ASSUME NEW s \in Senders, InCall(s), o = Current(s)
       PROVE  FALSE
  <2>1. PICK k \in 0 .. n - 1 : k = outgoing[s].frag_num
    BY <1>4, <1>10 DEF SendersOK
  <2>2. n - 1 < k
    BY <1>8, <1>10, <2>1 DEF Left
  <2> QED
    BY <1>4, <2>1, <2>2
<1>11. set.buffer = m.data
  <2>1. PICK buffer \in Seq(Cells \cup {Zero}), d \in Seq(Cells \cup {Zero}) :
          buffer = set.buffer /\ d = m.data
    <3>1. m.data \in Seq(Cells \cup {Zero})
      BY <1>2, SoundType, SeqMonotonic
    <3> QED
      BY <3>1 DEF SetOf, Sets
  <2>2. Len(buffer) = Len(d)
    BY <2>1 DEF SetOf
  <2>3. ASSUME NEW i \in 1 .. Len(d)
        PROVE  buffer[i] = d[i]
    <3>1. PICK j \in 0 .. n - 1 : i \in Span(m, j)
      BY <1>1, <1>2, <1>4, <2>1, Covered
    <3> QED
      BY <1>3, <1>6, <2>1, <3>1 DEF SetOf
  <2>4. buffer = d
    BY <2>2, <2>3, SeqEqual
  <2> QED
    BY <2>1, <2>4
<1> QED
  BY <1>1, <1>3, <1>7, <1>9, <1>10, <1>11 DEF SetOf, Whole



-----------------------------------------------------------------------------
(* What a step leaves of the sendings.                                     *)

\* Sendings of two programs are two.
LEMMA Apart ==
  ASSUME NEW s \in Senders, NEW t \in Senders, s # t
  PROVE  Current(s) # Current(t)
BY DEF Current

\* A program that takes no part in a step is where it was.
LEMMA SameCall ==
  ASSUME NEW t \in Senders, workload' = workload, todo'[t] = todo[t],
         outgoing'[t] = outgoing[t]
  PROVE  /\ Position(t)' = Position(t) /\ Current(t)' = Current(t)
         /\ InCall(t)' <=> InCall(t)
<1>1. Position(t)' = Position(t)
  BY DEF Position
<1> QED
  BY <1>1 DEF Current, InCall

\* What is under way or received stays right; only a call that is given up is
\* withdrawn, and a call goes on or is of a new sending.
Grows ==
  /\ offered \subseteq offered'
  /\ \A o \in offered : o \in withdrawn' => \/ o \in withdrawn
                                            \/ \E s \in Senders : InCall(s) /\ o = Current(s)
  /\ \A o \in offered : Fits(o.message) /\ o \in withdrawn' => o \in withdrawn
  /\ \A o, j : Left(o, j) => Left(o, j)'
  /\ \A s \in Senders : InCall(s)' => \/ Current(s)' \notin offered
                                      \/ InCall(s) /\ Current(s)' = Current(s)

\* Datagrams, sets of fragments and whole messages that were right are right still.
LEMMA GrowsKeeps ==
  ASSUME Grows
  PROVE  /\ \A o \in offered : \A buf : ShortOf(o, buf) => ShortOf(o, buf)'
         /\ \A o, buf : PartOf(o, buf) => PartOf(o, buf)'
         /\ \A d : DatagramOK(d) => DatagramOK(d)'
         /\ \A o, set : SetOf(o, set) => SetOf(o, set)'
         /\ \A m : Whole(m) => Whole(m)'
<1>1. \A o \in offered : \A buf : ShortOf(o, buf) => ShortOf(o, buf)'
  BY DEF Grows, ShortOf
<1>2. \A o, buf : PartOf(o, buf) => PartOf(o, buf)'
  BY DEF Grows, PartOf
<1>3. \A d : DatagramOK(d) => DatagramOK(d)'
  BY <1>1, <1>2 DEF Grows, DatagramOK
<1>4. ASSUME NEW o, NEW set, SetOf(o, set)
      PROVE  SetOf(o, set)'
  <2>1. o \in offered'
    BY <1>4 DEF Grows, SetOf
  <2>2. \A j \in set.received_mask : Left(o, j)'
    BY <1>4 DEF Grows, SetOf
  <2> QED
    BY <1>4, <2>1, <2>2 DEF SetOf
<1>5. ASSUME NEW m, Whole(m)
      PROVE  Whole(m)'
  <2>1. PICK o \in offered :
          /\ o \notin withdrawn /\ o.message = m
          /\ \A s \in Senders : InCall(s) => o # Current(s)
    BY <1>5 DEF Whole
  <2>2. o \in offered' /\ o \notin withdrawn'
    BY <2>1 DEF Grows
  <2>3. \A s \in Senders : InCall(s)' => o # Current(s)'
    BY <2>1 DEF Grows
  <2> QED
    BY <2>1, <2>2, <2>3 DEF Whole
<1> QED
  BY <1>1, <1>2, <1>3, <1>4, <1>5

\* What is in parts by an address and number stays so, if the parts that are sent and
\* the calls that begin are by others.
LEMMA HolderKept ==
  ASSUME Grows, NEW o, NEW a, NEW q, Holder(o, a, q), pending' = pending,
         \A d \in wire' \ wire : CarriesPart(d, a, q) => PartOf(o, d.buf)',
         \A s \in Senders : InCall(s)' /\ Addr[s] = a /\ outgoing'[s].sequence_number = q
                              => InCall(s) /\ Current(s)' = Current(s)
  PROVE  Holder(o, a, q)'
<1>1. \A d \in wire' : CarriesPart(d, a, q) => PartOf(o, d.buf)'
  BY GrowsKeeps DEF Holder
<1>2. Holds(o, a, q, pending)'
  BY GrowsKeeps DEF Holder, Holds
<1>3. ASSUME NEW s \in Senders, InCall(s)', Addr[s] = a, outgoing'[s].sequence_number = q
      PROVE  Current(s)' = o
  <2>1. InCall(s) /\ Current(s)' = Current(s)
    BY <1>3
  <2>2. outgoing[s].sequence_number = q
    BY <1>3, <2>1 DEF Current
  <2> QED
    BY <1>3, <2>1, <2>2 DEF Holder
<1> QED
  BY <1>1, <1>2, <1>3 DEF Holder, CarriesPart

\* A step of a sender keeps the invariant if what it puts on the wire is right.
LEMMA StepKeeps ==
  ASSUME BaseInv, CallInv', SendersOK', HistoryOK', Grows,
         \A d \in wire' \ wire : DatagramOK(d)', pending' = pending, ticks' = ticks
  PROVE  BaseInv'
<1>1. WireOK'
  BY GrowsKeeps DEF BaseInv, WireOK
<1> QED
  BY <1>1 DEF BaseInv, Reassembler!FragmentKeys

\* It keeps numbers apart if it leaves every address and number to one sending.
LEMMA StepKeepsFresh ==
  ASSUME FreshInv, Grows, pending' = pending, delivered' = delivered,
         \A a, q, o : Holder(o, a, q) => \E p : Holder(p, a, q)'
  PROVE  FreshInv'
BY GrowsKeeps DEF FreshInv

\* What a datagram with fragment j of a message says of itself.
LEMMA PartCarried ==
  ASSUME NEW m \in Sound, Splits(m), NEW j \in 0 .. Parts(m) - 1, NEW d,
         d.buf = encode_fragment(Part(m, j))
  PROVE  /\ parse_datagram(d.buf) = Part(m, j) /\ IsFragment(Part(m, j))
         /\ \A a, q : CarriesPart(d, a, q) => Addr[d.sender] = a /\ m.sequence_number = q
<1>1. PICK f : f = Part(m, j)
  OBVIOUS
<1>2. f \in Fragment /\ f.sequence_number = m.sequence_number
  BY <1>1, PartFacts
<1>3. parse_datagram(d.buf) = f
  BY <1>1, <1>2, FragmentRoundTrip
<1>4. IsFragment(f)
  BY <1>2 DEF Fragment, IsFragment
<1> QED
  BY <1>1, <1>2, <1>3, <1>4 DEF CarriesPart

\* A short message carries no part.
LEMMA ShortCarried ==
  ASSUME NEW m \in Sound, NEW d, d.buf = encode_short_message(m)
  PROVE  /\ parse_datagram(d.buf) = m /\ ~ IsFragment(m)
         /\ \A a, q : ~ CarriesPart(d, a, q)
<1>1. parse_datagram(d.buf) = m
  BY ShortRoundTrip
<1>2. ~ IsFragment(m)
  <2>1. m = [channel |-> m.channel, sequence_number |-> m.sequence_number, data |-> m.data]
    BY SoundType
  <2>2. DOMAIN m = {"channel", "sequence_number", "data"}
    BY <2>1
  <2> QED
    BY <2>2 DEF IsFragment
<1> QED
  BY <1>1, <1>2 DEF CarriesPart

-----------------------------------------------------------------------------
(* The steps of send.                                                      *)

\* Where fetch_add takes the counter.
LEMMA NextNumber ==
  ASSUME NEW U \in Nat \ {0}, NEW n \in Nat, n < U
  PROVE  (n + 1) % U \in 0 .. U - 1 /\ (n + 1) % U <= n + 1
<1>1. CASE n + 1 < U
  BY <1>1, Unchanged
<1>2. CASE n + 1 = U
  <2>1. (n + 1) % U = 0
    BY <1>2
  <2> QED
    BY <2>1
<1> QED
  BY <1>1, <1>2

\* The sending a program begins is a new one.
LEMMA EnterFacts ==
  ASSUME Regular, CallInv, SendersOK, HistoryOK, NEW s \in Senders, Enter(s)
  PROVE  LET u == Sending(s) IN
         /\ u.message = Upcoming(s) /\ u.message \in Sound
         /\ u.by = <<s, Position(s)>> /\ u \in AllSendings /\ u \notin offered
         /\ Position(s)' = Position(s) + 1
         /\ seq_counter'[s] \in SeqNumbers /\ seq_counter'[s] < Position(s)'
         /\ todo'[s] = Tail(todo[s]) /\ todo[s] # <<>>
<1>1. /\ todo[s] # <<>> /\ todo' = [todo EXCEPT ![s] = Tail(@)]
      /\ seq_counter' = [seq_counter EXCEPT ![s] = (@ + 1) % U32]
      /\ workload' = workload
  BY DEF Enter
<1>2. PICK P \in Nat \ {0}, n \in Nat, L \in Nat :
        /\ P = Position(s) /\ n = seq_counter[s] /\ L = Len(workload[s])
        /\ n < P /\ P <= L /\ n \in SeqNumbers /\ n < U32
        /\ Head(todo[s]) = workload[s][P]
  <2>1. /\ Position(s) \in Nat \ {0} /\ seq_counter[s] \in Nat
        /\ seq_counter[s] < Position(s) /\ seq_counter[s] \in SeqNumbers
        /\ Len(workload[s]) \in Nat
    BY Places
  <2>2. Position(s) <= Len(workload[s]) /\ Head(todo[s]) = workload[s][Position(s)]
    BY <1>1, Places
  <2>3. seq_counter[s] < U32
    BY <2>1, TransportAssumption DEF SeqNumbers
  <2> QED
    BY <2>1, <2>2, <2>3
<1>3. seq_counter'[s] \in SeqNumbers /\ seq_counter'[s] <= n + 1
  <2>1. (n + 1) % U32 \in 0 .. U32 - 1 /\ (n + 1) % U32 <= n + 1
    BY <1>2, TransportAssumption, NextNumber
  <2>2. s \in DOMAIN seq_counter
    BY DEF CallInv
  <2> QED
    BY <1>1, <1>2, <2>1, <2>2 DEF SeqNumbers
<1>4. todo'[s] = Tail(todo[s])
  BY <1>1 DEF CallInv
<1>5. Position(s)' = P + 1
  <2>1. PICK t \in Seq(Sendable) : t = todo[s] /\ t # <<>>
    BY <1>1 DEF CallInv
  <2>2. PICK k \in Nat : Len(t) = k /\ Len(Tail(t)) = k - 1
    BY <2>1
  <2>3. P = L - k + 1 /\ Position(s)' = L - (k - 1) + 1
    BY <1>1, <1>2, <1>4, <2>1, <2>2 DEF Position
  <2> QED
    BY <1>2, <2>2, <2>3
<1>6. seq_counter'[s] < Position(s)'
  <2>1. PICK i \in Int : i = seq_counter'[s] /\ i <= n + 1
    BY <1>3, TransportAssumption DEF SeqNumbers
  <2> QED
    BY <1>2, <1>5, <2>1
<1>7. PICK u, m : u = Sending(s) /\ m = Upcoming(s)
  OBVIOUS
<1>8. u = [by |-> <<s, P>>, message |-> m]
  BY <1>2, <1>7 DEF Sending
<1>9. m = [channel |-> workload[s][P].channel, sequence_number |-> n,
           data |-> BytesOf(s, P, workload[s][P].size)]
  BY <1>2, <1>7 DEF Upcoming
<1>10. m \in Sound
  <2>1. P \in 1 .. Len(workload[s])
    BY <1>2
  <2> QED
    BY <1>2, <1>9, <2>1, PlaceSound
<1>11. u \notin offered
  <2>1. SUFFICES ASSUME u \in offered
                 PROVE  FALSE
    OBVIOUS
  <2>2. PICK t \in Senders : \E k \in 1 .. Position(t) - 1 : u.by = <<t, k>>
    BY <2>1 DEF HistoryOK
  <2>3. PICK k \in 1 .. Position(t) - 1 : u.by = <<t, k>>
    BY <2>2
  <2>4. t = s /\ k = P
    BY <1>8, <2>3
  <2> QED
    BY <1>2, <2>3, <2>4
<1>12. u \in AllSendings
  <2>1. PICK w \in Workloads : w = workload
    BY DEF SendersOK
  <2>2. P \in DOMAIN w[s] /\ n \in SeqNumbers \cap 0 .. P - 1
    <3>1. w[s] \in Seq(Sendable)
      BY <2>1 DEF CallInv
    <3> QED
      BY <1>2, <2>1, <3>1
  <2>3. u = [by |-> <<s, P>>,
             message |-> [channel |-> w[s][P].channel, sequence_number |-> n,
                          data |-> BytesOf(s, P, w[s][P].size)]]
    BY <1>8, <1>9, <2>1
  <2>4. PICK A : A = {[by |-> <<s, P>>,
                       message |-> [channel |-> w[s][P].channel, sequence_number |-> q,
                                    data |-> BytesOf(s, P, w[s][P].size)]] :
                      q \in SeqNumbers \cap 0 .. P - 1}
    OBVIOUS
  <2>5. u \in A
    BY <2>2, <2>3, <2>4
  <2>6. PICK B : B = UNION {{[by |-> <<s, i>>,
                              message |-> [channel |-> w[s][i].channel, sequence_number |-> q,
                                           data |-> BytesOf(s, i, w[s][i].size)]] :
                             q \in SeqNumbers \cap 0 .. i - 1} : i \in DOMAIN w[s]}
    OBVIOUS
  <2>7. u \in B
    BY <2>2, <2>4, <2>5, <2>6
  <2>8. B \subseteq AllSendings
    BY <2>1, <2>6 DEF AllSendings
  <2> QED
    BY <2>7, <2>8
<1> QED
  BY <1>1, <1>2, <1>3, <1>4, <1>5, <1>6, <1>7, <1>8, <1>10, <1>11, <1>12

\* Taking a message keeps the invariant, whether send refuses it, sends it at once
\* or begins to send it in parts.
LEMMA EnterKeeps ==
  ASSUME Regular, CallInv, SendersOK, HistoryOK, NEW s \in Senders, Enter(s), NEW c,
         outgoing' = [outgoing EXCEPT ![s] = c],
         withdrawn \subseteq withdrawn', withdrawn' \subseteq withdrawn \cup {Sending(s)},
         \/ c = Idle
         \/ /\ c = Call(Upcoming(s), 0) /\ Splits(Upcoming(s))
            /\ Sending(s) \notin withdrawn'
  PROVE  /\ SendersOK' /\ HistoryOK' /\ Grows
         /\ InCall(s)' => Current(s)' = Sending(s)
         /\ \A t \in Senders : t # s /\ InCall(t)' => InCall(t) /\ Current(t)' = Current(t)
<1>1. PICK u : u = Sending(s)
  OBVIOUS
<1>2. PICK m : m = Upcoming(s)
  OBVIOUS
<1>3. /\ u.message = m /\ m \in Sound
      /\ u.by = <<s, Position(s)>> /\ u \in AllSendings /\ u \notin offered
      /\ Position(s)' = Position(s) + 1
      /\ seq_counter'[s] \in SeqNumbers /\ seq_counter'[s] < Position(s)'
      /\ todo'[s] = Tail(todo[s]) /\ todo[s] # <<>>
  BY <1>1, <1>2, EnterFacts
<1>4. workload' = workload /\ offered' = offered \cup {u}
  BY <1>1 DEF Enter
<1>5. outgoing'[s] = c
  BY DEF CallInv
<1>6. ASSUME NEW t \in Senders, t # s
      PROVE  /\ Position(t)' = Position(t) /\ Current(t)' = Current(t)
             /\ InCall(t)' <=> InCall(t)
             /\ todo'[t] = todo[t] /\ seq_counter'[t] = seq_counter[t]
             /\ outgoing'[t] = outgoing[t]
  <2>1. /\ todo'[t] = todo[t] /\ seq_counter'[t] = seq_counter[t]
        /\ outgoing'[t] = outgoing[t]
    BY <1>6 DEF Enter, CallInv
  <2> QED
    BY <1>4, <2>1, SameCall
<1>7. ASSUME InCall(s)'
      PROVE  c = Call(m, 0) /\ Splits(m) /\ u \notin withdrawn' /\ Current(s)' = u
  <2>1. c = Call(m, 0) /\ Splits(m) /\ u \notin withdrawn'
    BY <1>1, <1>2, <1>5, <1>7 DEF InCall
  <2>2. Position(s)' - 1 = Position(s)
    BY <1>3, Places
  <2>3. /\ c.channel = m.channel /\ c.data = m.data
        /\ c.sequence_number = m.sequence_number
    BY <2>1 DEF Call
  <2>4. Current(s)' = [by |-> <<s, Position(s)>>,
                       message |-> [channel |-> m.channel,
                                    sequence_number |-> m.sequence_number, data |-> m.data]]
    BY <1>5, <2>2, <2>3 DEF Current
  <2>5. m = [channel |-> m.channel, sequence_number |-> m.sequence_number, data |-> m.data]
    BY <1>3, SoundType
  <2>6. u = [by |-> <<s, Position(s)>>, message |-> m]
    BY <1>1, <1>2 DEF Sending
  <2> QED
    BY <2>1, <2>4, <2>5, <2>6
<1>8. SendersOK'
  <2>1. workload' \in Workloads
    BY <1>4 DEF SendersOK
  <2>2. ASSUME NEW t \in Senders
        PROVE  /\ Len(todo'[t]) <= Len(workload'[t])
               /\ \A i \in 1 .. Len(todo'[t]) : todo'[t][i] = workload'[t][Position(t)' + i - 1]
               /\ seq_counter'[t] \in SeqNumbers /\ seq_counter'[t] < Position(t)'
    <3>1. CASE t # s
      BY <1>4, <1>6, <3>1 DEF SendersOK
    <3>2. CASE t = s
      <4>1. PICK old \in Seq(Sendable), w \in Seq(Sendable) :
              old = todo[s] /\ w = workload[s] /\ old # <<>>
        BY <1>3 DEF CallInv
      <4>2. PICK P \in Nat \ {0} : P = Position(s)
        BY Places
      <4>3. /\ Len(old) <= Len(w) /\ \A i \in 1 .. Len(old) : old[i] = w[P + i - 1]
        BY <4>1, <4>2 DEF SendersOK
      <4>4. PICK new \in Seq(Sendable) :
              /\ new = Tail(old) /\ Len(new) = Len(old) - 1
              /\ \A i \in 1 .. Len(new) : new[i] = old[i + 1]
        <5>1. /\ Tail(old) \in Seq(Sendable) /\ Len(Tail(old)) = Len(old) - 1
              /\ \A i \in 1 .. Len(Tail(old)) : Tail(old)[i] = old[i + 1]
          BY ONLY <4>1, HeadTailProperties
        <5> QED
          BY ONLY <5>1
      <4>5. \A i \in 1 .. Len(new) : new[i] = w[(P + 1) + i - 1]
        <5>1. ASSUME NEW i \in 1 .. Len(new)
              PROVE  new[i] = w[(P + 1) + i - 1]
          <6>1. i + 1 \in 1 .. Len(old) /\ P + (i + 1) - 1 = (P + 1) + i - 1
            BY <4>2, <4>4
          <6> QED
            BY <4>3, <4>4, <6>1
        <5> QED
          BY <5>1
      <4>6. Len(new) <= Len(w)
        BY <4>2, <4>3, <4>4
      <4> QED
        BY <1>3, <1>4, <3>2, <4>1, <4>2, <4>4, <4>5, <4>6
    <3> QED
      BY <3>1, <3>2
  <2>3. ASSUME NEW t \in Senders, InCall(t)'
        PROVE  /\ Current(t)' \in offered' /\ Current(t)' \notin withdrawn'
               /\ Splits(Current(t)'.message)
               /\ outgoing'[t].frag_num \in 0 .. Parts(Current(t)'.message) - 1
               /\ outgoing'[t] = Call(Current(t)'.message, outgoing'[t].frag_num)
    <3>1. CASE t # s
      <4>1. InCall(t) /\ Current(t)' = Current(t)
        BY <1>6, <2>3, <3>1
      <4>2. Current(t) \in offered /\ Current(t) \notin withdrawn
        BY <4>1 DEF SendersOK
      <4>3. Current(t) \notin withdrawn'
        BY <1>1, <1>3, <4>2
      <4> QED
        BY <1>4, <1>6, <3>1, <4>1, <4>2, <4>3 DEF SendersOK
    <3>2. CASE t = s
      <4>1. c = Call(m, 0) /\ Splits(m) /\ u \notin withdrawn' /\ Current(s)' = u
        BY <1>7, <2>3, <3>2
      <4>2. outgoing'[s].frag_num = 0
        BY <1>5, <4>1 DEF Call
      <4>3. 0 \in 0 .. Parts(m) - 1
        BY <1>3, <4>1, PartsType
      <4> QED
        BY <1>3, <1>4, <1>5, <3>2, <4>1, <4>2, <4>3
    <3> QED
      BY <3>1, <3>2
  <2> QED
    BY <2>1, <2>2, <2>3 DEF SendersOK
<1>9. HistoryOK'
  <2>1. offered' \subseteq AllSendings'
    BY <1>3, <1>4 DEF HistoryOK
  <2>2. ASSUME NEW o \in offered'
        PROVE  \E t \in Senders : \E k \in 1 .. Position(t)' - 1 : o.by = <<t, k>>
    <3>1. CASE o \in offered
      <4>0. PICK t \in Senders : \E k \in 1 .. Position(t) - 1 : o.by = <<t, k>>
        BY <3>1 DEF HistoryOK
      <4>1. PICK k \in 1 .. Position(t) - 1 : o.by = <<t, k>>
        BY <4>0
      <4>2. Position(t) \in Int /\ Position(s) \in Int
        BY Places
      <4>3. Position(t)' = Position(t) \/ Position(t)' = Position(t) + 1
        BY <1>3, <1>6
      <4>4. k \in 1 .. Position(t)' - 1
        BY <4>1, <4>2, <4>3
      <4> QED
        BY <4>1, <4>4
    <3>2. CASE o = u
      <4>1. Position(s) \in 1 .. Position(s)' - 1
        BY <1>3, Places
      <4> QED
        BY <1>3, <3>2, <4>1
    <3> QED
      BY <1>4, <3>1, <3>2
  <2>3. \A o \in offered' : o.message \in Sound
    BY <1>3, <1>4 DEF HistoryOK
  <2>4. withdrawn' \subseteq offered'
    BY <1>1, <1>4 DEF HistoryOK
  <2> QED
    BY <2>1, <2>2, <2>3, <2>4 DEF HistoryOK
<1>10. \A t \in Senders : t # s /\ InCall(t)' => InCall(t) /\ Current(t)' = Current(t)
  BY <1>6
<1>11. \A o \in offered : o \in withdrawn' => o \in withdrawn
  BY <1>1, <1>3
<1>12. Grows
  <2>1. ASSUME NEW o, NEW j, Left(o, j)
        PROVE  Left(o, j)'
    <3>1. o \in offered /\ o \in offered' /\ o # u
      BY <1>3, <1>4, <2>1 DEF Left
    <3>2. o \in withdrawn' => j + 1 # Parts(o.message)
      BY <1>11, <2>1, <3>1 DEF Left
    <3>3. ASSUME NEW t \in Senders, InCall(t)', o = Current(t)'
          PROVE  j < outgoing'[t].frag_num
      <4>1. t # s
        BY <1>7, <3>1, <3>3
      <4>2. InCall(t) /\ Current(t)' = Current(t) /\ outgoing'[t] = outgoing[t]
        BY <1>6, <3>3, <4>1
      <4> QED
        BY <2>1, <3>3, <4>2 DEF Left
    <3> QED
      BY <2>1, <3>1, <3>2, <3>3 DEF Left
  <2>2. \A t \in Senders : InCall(t)' => \/ Current(t)' \notin offered
                                         \/ InCall(t) /\ Current(t)' = Current(t)
    BY <1>3, <1>7, <1>10
  <2> QED
    BY <1>4, <1>11, <2>1, <2>2 DEF Grows
<1> QED
  BY <1>1, <1>7, <1>8, <1>9, <1>10, <1>12

\* What a call sends next, and what it goes on with.
LEMMA InCallFacts ==
  ASSUME SendersOK, HistoryOK, NEW s \in Senders, InCall(s)
  PROVE  LET o == Current(s)
             m == o.message
             j == outgoing[s].frag_num
         IN  /\ o \in offered /\ o \in AllSendings /\ o \notin withdrawn
             /\ m \in Sound /\ Splits(m) /\ j \in 0 .. Parts(m) - 1
             /\ Parts(m) \in Nat \ {0} /\ outgoing[s] = Call(m, j)
             /\ outgoing[s].sequence_number = m.sequence_number
<1>1. PICK o, m, j : o = Current(s) /\ m = o.message /\ j = outgoing[s].frag_num
  OBVIOUS
<1>2. /\ o \in offered /\ o \notin withdrawn /\ Splits(m)
      /\ j \in 0 .. Parts(m) - 1 /\ outgoing[s] = Call(m, j)
  BY <1>1 DEF SendersOK
<1>3. m \in Sound /\ o \in AllSendings
  BY <1>1, <1>2 DEF HistoryOK
<1>4. Parts(m) \in Nat \ {0}
  BY <1>2, <1>3, PartsType
<1>5. outgoing[s].sequence_number = m.sequence_number
  BY <1>1 DEF Current
<1> QED
  BY <1>1, <1>2, <1>3, <1>4, <1>5

\* A call that goes on, ends, fails or dies keeps the invariant, and so does a program
\* that starts again.
LEMMA CallKeeps ==
  ASSUME Regular, CallInv, SendersOK, HistoryOK, NEW s \in Senders, NEW c,
         UNCHANGED <<workload, todo, offered>>,
         \A t \in Senders : seq_counter'[t] \in SeqNumbers /\ seq_counter'[t] < Position(t),
         outgoing' = [outgoing EXCEPT ![s] = c],
         withdrawn \subseteq withdrawn',
         withdrawn' \subseteq withdrawn \cup (IF InCall(s) THEN {Current(s)} ELSE {}),
         \/ c \in {Idle, Down}
         \/ /\ InCall(s) /\ withdrawn' = withdrawn
            /\ outgoing[s].frag_num + 1 \in 0 .. Parts(Current(s).message) - 1
            /\ c = Call(Current(s).message, outgoing[s].frag_num + 1)
  PROVE  /\ SendersOK' /\ HistoryOK' /\ Grows
         /\ \A t \in Senders : InCall(t)' => InCall(t) /\ Current(t)' = Current(t)
<1>1. \A t \in Senders : Position(t)' = Position(t)
  BY DEF Position
<1>2. \A t \in Senders : t # s => /\ outgoing'[t] = outgoing[t] /\ (InCall(t)' <=> InCall(t))
                                  /\ Current(t)' = Current(t)
  BY SameCall DEF CallInv
<1>3. outgoing'[s] = c
  BY DEF CallInv
<1>4. PICK o, m, k : o = Current(s) /\ m = o.message /\ k = outgoing[s].frag_num
  OBVIOUS
<1>5. ASSUME InCall(s)'
      PROVE  /\ InCall(s) /\ withdrawn' = withdrawn /\ k + 1 \in 0 .. Parts(m) - 1
             /\ c = Call(m, k + 1) /\ c.frag_num = k + 1 /\ Current(s)' = o
  <2>1. /\ InCall(s) /\ withdrawn' = withdrawn /\ k + 1 \in 0 .. Parts(m) - 1
        /\ c = Call(m, k + 1)
    BY <1>3, <1>4, <1>5 DEF InCall
  <2>2. /\ c.channel = m.channel /\ c.data = m.data /\ c.frag_num = k + 1
        /\ c.sequence_number = m.sequence_number
    BY <2>1 DEF Call
  <2>3. /\ m.channel = outgoing[s].channel /\ m.data = outgoing[s].data
        /\ m.sequence_number = outgoing[s].sequence_number
    BY <1>4 DEF Current
  <2>4. Current(s)' = Current(s)
    BY <1>1, <1>3, <2>2, <2>3 DEF Current
  <2> QED
    BY <1>4, <2>1, <2>2, <2>4
<1>6. \A t \in Senders : InCall(t)' => InCall(t) /\ Current(t)' = Current(t)
  BY <1>2, <1>4, <1>5
<1>7. HistoryOK'
  <2>1. withdrawn' \subseteq offered
    BY DEF HistoryOK, SendersOK
  <2> QED
    BY <1>1, <2>1 DEF HistoryOK
<1>8. SendersOK'
  <2>1. ASSUME NEW t \in Senders, InCall(t)'
        PROVE  /\ Current(t)' \in offered' /\ Current(t)' \notin withdrawn'
               /\ Splits(Current(t)'.message)
               /\ outgoing'[t].frag_num \in 0 .. Parts(Current(t)'.message) - 1
               /\ outgoing'[t] = Call(Current(t)'.message, outgoing'[t].frag_num)
    <3>1. CASE t # s
      <4>1. InCall(t) /\ Current(t)' = Current(t) /\ outgoing'[t] = outgoing[t]
        BY <1>2, <2>1, <3>1
      <4>2. Current(t) # o
        BY <1>4, <3>1, Apart
      <4>3. Current(t) \notin withdrawn'
        BY <1>4, <4>1, <4>2 DEF SendersOK
      <4> QED
        BY <4>1, <4>3 DEF SendersOK
    <3>2. CASE t = s
      <4>1. /\ InCall(s) /\ withdrawn' = withdrawn /\ k + 1 \in 0 .. Parts(m) - 1
            /\ c = Call(m, k + 1) /\ c.frag_num = k + 1 /\ Current(s)' = o
        BY <1>5, <2>1, <3>2
      <4>2. o \in offered /\ o \notin withdrawn /\ Splits(m)
        BY <1>4, <4>1 DEF SendersOK
      <4> QED
        BY <1>3, <1>4, <3>2, <4>1, <4>2
    <3> QED
      BY <3>1, <3>2
  <2>2. \A t \in Senders :
          /\ Len(todo'[t]) <= Len(workload'[t])
          /\ \A i \in 1 .. Len(todo'[t]) : todo'[t][i] = workload'[t][Position(t)' + i - 1]
          /\ seq_counter'[t] \in SeqNumbers /\ seq_counter'[t] < Position(t)'
    BY <1>1 DEF SendersOK
  <2>3. workload' \in Workloads
    BY DEF SendersOK
  <2> QED
    BY <2>1, <2>2, <2>3 DEF SendersOK
<1>9. Grows
  <2>1. \A x \in offered : x \in withdrawn' => \/ x \in withdrawn
                                               \/ \E t \in Senders : InCall(t) /\ x = Current(t)
    OBVIOUS
  <2>2. ASSUME NEW x \in offered, Fits(x.message), x \in withdrawn'
        PROVE  x \in withdrawn
    BY <2>2 DEF SendersOK, Splits
  <2>3. ASSUME NEW x, NEW j, Left(x, j)
        PROVE  Left(x, j)'
    <3>1. x \in offered /\ Splits(x.message) /\ j \in 0 .. Parts(x.message) - 1
      BY <2>3 DEF Left
    <3>2. ASSUME x \in withdrawn', x \notin withdrawn
          PROVE  j + 1 # Parts(x.message)
      <4>1. InCall(s) /\ x = o
        BY <1>4, <3>2
      <4>2. j < k
        BY <1>4, <2>3, <4>1 DEF Left
      <4>3. k \in 0 .. Parts(m) - 1 /\ Parts(m) \in Nat
        BY <1>4, <4>1, InCallFacts
      <4> QED
        BY <1>4, <3>1, <4>1, <4>2, <4>3
    <3>3. ASSUME NEW t \in Senders, InCall(t)', x = Current(t)'
          PROVE  j < outgoing'[t].frag_num
      <4>1. InCall(t) /\ x = Current(t)
        BY <1>6, <3>3
      <4>2. j < outgoing[t].frag_num
        BY <2>3, <4>1 DEF Left
      <4>3. CASE t # s
        BY <1>2, <4>2, <4>3
      <4>4. CASE t = s
        <5>1. c.frag_num = k + 1
          BY <1>5, <3>3, <4>4
        <5>2. k \in Int /\ j \in Int /\ j < k
          BY <1>4, <3>1, <4>1, <4>2, <4>4, InCallFacts
        <5> QED
          BY <1>3, <4>4, <5>1, <5>2
      <4> QED
        BY <4>3, <4>4
    <3>4. x \in withdrawn' => j + 1 # Parts(x.message)
      BY <2>3, <3>2 DEF Left
    <3> QED
      BY <3>1, <3>3, <3>4 DEF Left
  <2>4. \A t \in Senders : InCall(t)' => \/ Current(t)' \notin offered
                                         \/ InCall(t) /\ Current(t)' = Current(t)
    BY <1>6
  <2> QED
    BY <2>1, <2>2, <2>3, <2>4 DEF Grows
<1> QED
  BY <1>6, <1>7, <1>8, <1>9

\* A message that fits is sent at once or withdrawn.
LEMMA ShortStep ==
  ASSUME Regular, BaseInv, CallInv', NEW s \in Senders, SendShort(s)
  PROVE  BaseInv' /\ (FreshInv => FreshInv' /\ Channel!Next)
<1>1. PICK u, m : u = Sending(s) /\ m = Upcoming(s)
  OBVIOUS
<1>2. /\ Enter(s) /\ Fits(m) /\ UNCHANGED <<outgoing, pending, ticks, delivered>>
      /\ offered' = offered \cup {u}
  BY <1>1 DEF SendShort, Enter, Fits, receiver_vars
<1>3. \/ wire' = wire \cup {Datagram(s, encode_short_message(m))} /\ withdrawn' = withdrawn
      \/ withdrawn' = withdrawn \cup {u} /\ wire' = wire
  BY <1>1 DEF SendShort
<1>4. u.message = m /\ m \in Sound /\ u \in AllSendings /\ u \notin offered
  BY <1>1, <1>2, EnterFacts DEF BaseInv
<1>5. u \notin withdrawn
  BY <1>4 DEF BaseInv, HistoryOK
<1>6. /\ SendersOK' /\ HistoryOK' /\ Grows
      /\ \A t \in Senders : InCall(t)' => InCall(t) /\ Current(t)' = Current(t)
  <2>1. outgoing' = [outgoing EXCEPT ![s] = Idle]
    BY <1>2 DEF Enter, BaseInv, CallInv
  <2>2. /\ SendersOK' /\ HistoryOK' /\ Grows
        /\ \A t \in Senders : t # s /\ InCall(t)' => InCall(t) /\ Current(t)' = Current(t)
    BY <1>1, <1>2, <1>3, <2>1, EnterKeeps DEF BaseInv
  <2>3. ~ InCall(s)'
    BY <1>2 DEF Enter, InCall
  <2> QED
    BY <2>2, <2>3
<1>7. ASSUME NEW d \in wire' \ wire
      PROVE  DatagramOK(d)' /\ \A a, q : ~ CarriesPart(d, a, q)
  <2>1. d = Datagram(s, encode_short_message(m)) /\ withdrawn' = withdrawn
    BY <1>3, <1>7
  <2>2. d.sender = s /\ d.buf = encode_short_message(m)
    BY <2>1 DEF Datagram
  <2>3. u \in offered' /\ u \notin withdrawn'
    BY <1>2, <1>5, <2>1
  <2>4. ShortOf(u, d.buf)'
    BY <1>2, <1>4, <2>2, <2>3 DEF ShortOf
  <2> QED
    BY <1>4, <2>2, <2>3, <2>4, ShortCarried DEF DatagramOK
<1>8. BaseInv'
  BY <1>2, <1>6, <1>7, StepKeeps
<1>9. ASSUME FreshInv
      PROVE  FreshInv'
  <2>1. ASSUME NEW a, NEW q, NEW o, Holder(o, a, q)
        PROVE  Holder(o, a, q)'
    BY <1>2, <1>6, <1>7, <2>1, HolderKept
  <2> QED
    BY <1>2, <1>6, <1>9, <2>1, StepKeepsFresh
<1>10. ASSUME FreshInv
       PROVE  Channel!Offer(u) \/ Channel!Withdraw(u)
  <2>1. m \in delivered => \E p \in offered \ withdrawn : p # u /\ p.message = m
    BY <1>4, <1>10 DEF FreshInv, Whole
  <2> QED
    BY <1>2, <1>3, <1>4, <2>1 DEF Channel!Offer, Channel!Withdraw
<1> QED
  BY <1>4, <1>8, <1>9, <1>10 DEF Channel!Next

\* A message that send refuses is taken and withdrawn.
LEMMA RefusedStep ==
  ASSUME Regular, BaseInv, CallInv', NEW s \in Senders, SendRefused(s)
  PROVE  BaseInv' /\ (FreshInv => FreshInv' /\ Channel!Next)
<1>1. PICK u, m : u = Sending(s) /\ m = Upcoming(s)
  OBVIOUS
<1>2. /\ Enter(s) /\ UNCHANGED <<outgoing, wire, pending, ticks, delivered>>
      /\ offered' = offered \cup {u} /\ withdrawn' = withdrawn \cup {u}
  BY <1>1 DEF SendRefused, Enter, receiver_vars
<1>3. u.message = m /\ u \in AllSendings /\ u \notin offered
  BY <1>1, <1>2, EnterFacts DEF BaseInv
<1>4. /\ SendersOK' /\ HistoryOK' /\ Grows
      /\ \A t \in Senders : InCall(t)' => InCall(t) /\ Current(t)' = Current(t)
  <2>1. outgoing' = [outgoing EXCEPT ![s] = Idle]
    BY <1>2 DEF Enter, BaseInv, CallInv
  <2>2. /\ SendersOK' /\ HistoryOK' /\ Grows
        /\ \A t \in Senders : t # s /\ InCall(t)' => InCall(t) /\ Current(t)' = Current(t)
    BY <1>1, <1>2, <2>1, EnterKeeps DEF BaseInv
  <2>3. ~ InCall(s)'
    BY <1>2 DEF Enter, InCall
  <2> QED
    BY <2>2, <2>3
<1>5. BaseInv'
  BY <1>2, <1>4, StepKeeps
<1>6. ASSUME FreshInv
      PROVE  FreshInv'
  <2>1. ASSUME NEW a, NEW q, NEW o, Holder(o, a, q)
        PROVE  Holder(o, a, q)'
    BY <1>2, <1>4, <2>1, HolderKept
  <2> QED
    BY <1>2, <1>4, <1>6, <2>1, StepKeepsFresh
<1>7. ASSUME FreshInv
      PROVE  Channel!Withdraw(u)
  <2>1. m \in delivered => \E p \in offered \ withdrawn : p # u /\ p.message = m
    BY <1>3, <1>7 DEF FreshInv, Whole
  <2> QED
    BY <1>2, <1>3, <2>1 DEF Channel!Withdraw
<1> QED
  BY <1>3, <1>5, <1>6, <1>7 DEF Channel!Next

\* send starts to split a message: nothing of it has left yet, and if its number is
\* fresh, nothing goes by its address and number.
LEMMA FragmentedStep ==
  ASSUME Regular, BaseInv, CallInv', NEW s \in Senders, SendFragmented(s)
  PROVE  BaseInv' /\ (FreshInv /\ FreshNumbers => FreshInv' /\ Channel!Next)
<1>1. PICK u, m : u = Sending(s) /\ m = Upcoming(s)
  OBVIOUS
<1>2. /\ Enter(s) /\ Splits(m) /\ UNCHANGED <<wire, pending, ticks, withdrawn, delivered>>
      /\ offered' = offered \cup {u}
  BY <1>1 DEF SendFragmented, Enter, Splits, Fits, receiver_vars
<1>3. u.message = m /\ m \in Sound /\ u \in AllSendings /\ u \notin offered
  BY <1>1, <1>2, EnterFacts DEF BaseInv
<1>4. u \notin withdrawn
  BY <1>3 DEF BaseInv, HistoryOK
<1>5. m.sequence_number = seq_counter[s]
  BY <1>1 DEF Upcoming
<1>6. outgoing' = [outgoing EXCEPT ![s] = Call(m, 0)]
  <2>1. NFragments(m.channel, Len(m.data)) = Parts(m) /\ Parts(m) # 0
    <3>1. Parts(m) \in Nat \ {0} /\ Parts(m) < U16 /\ U16 \in Nat
      BY <1>2, <1>3, PartsType, TransportAssumption
    <3>2. Parts(m) % U16 = Parts(m)
      BY <3>1, Unchanged
    <3>3. NFragments(m.channel, Len(m.data)) = Parts(m) % U16
      BY DEF NFragments, Parts, Count
    <3> QED
      BY <3>1, <3>2, <3>3
  <2>2. outgoing' = [outgoing EXCEPT ![s] =
          [channel |-> m.channel, data |-> m.data, sequence_number |-> seq_counter[s],
           n_fragments |-> Parts(m), frag_num |-> 0, offset |-> 0]]
    BY <1>1, <2>1 DEF SendFragmented
  <2> QED
    BY <1>5, <2>2 DEF Call
<1>7. /\ SendersOK' /\ HistoryOK' /\ Grows
      /\ InCall(s)' => Current(s)' = u
      /\ \A t \in Senders : t # s /\ InCall(t)' => InCall(t) /\ Current(t)' = Current(t)
  BY <1>1, <1>2, <1>4, <1>6, EnterKeeps DEF BaseInv
<1>8. BaseInv'
  BY <1>2, <1>7, StepKeeps
<1>9. ASSUME FreshInv, FreshNumbers, NEW a, NEW q, NEW o, Holder(o, a, q)
      PROVE  \E p : Holder(p, a, q)'
  <2>1. CASE ~ (InCall(s)' /\ Addr[s] = a /\ outgoing'[s].sequence_number = q)
    BY <1>2, <1>7, <1>9, <2>1, HolderKept
  <2>2. CASE InCall(s)' /\ Addr[s] = a /\ outgoing'[s].sequence_number = q
    <3>1. q = seq_counter[s]
      <4>1. outgoing'[s] = Call(m, 0)
        BY <1>6 DEF BaseInv, CallInv
      <4> QED
        BY <1>5, <2>2, <4>1 DEF Call
    <3>2. KeyUnused(a, q)
      <4>1. StartsParts(s)
        BY <1>2, <2>2 DEF StartsParts, Enter, InCall
      <4> QED
        BY <1>9, <2>2, <3>1, <4>1 DEF FreshNumbers
    <3>3. \A d \in wire' : CarriesPart(d, a, q) => PartOf(u, d.buf)'
      BY <1>2, <3>2 DEF KeyUnused
    <3>4. Holds(u, a, q, pending)'
      BY <1>2, <3>2 DEF KeyUnused, Holds
    <3>5. ASSUME NEW t \in Senders, InCall(t)', Addr[t] = a,
                 outgoing'[t].sequence_number = q
          PROVE  Current(t)' = u
      <4>1. ASSUME t # s
            PROVE  FALSE
        <5>1. InCall(t) /\ Current(t)' = Current(t)
          BY <1>7, <3>5, <4>1
        <5>2. outgoing[t].sequence_number = q
          BY <3>5, <5>1 DEF Current
        <5> QED
          BY <3>2, <3>5, <5>1, <5>2 DEF KeyUnused, InCall
      <4> QED
        BY <1>7, <3>5, <4>1
    <3> QED
      BY <3>3, <3>4, <3>5 DEF Holder
  <2> QED
    BY <2>1, <2>2
<1>10. FreshInv /\ FreshNumbers => FreshInv'
  BY <1>2, <1>7, <1>9, StepKeepsFresh
<1>11. Channel!Offer(u)
  BY <1>2, <1>3 DEF Channel!Offer
<1> QED
  BY <1>3, <1>8, <1>10, <1>11 DEF Channel!Next

\* A call that has moved on.
LEMMA Moved ==
  ASSUME NEW o \in Calls, NEW k \in Nat, NEW next \in Nat
  PROVE  [o EXCEPT !.frag_num = k, !.offset = next] =
           [channel |-> o.channel, data |-> o.data, sequence_number |-> o.sequence_number,
            n_fragments |-> o.n_fragments, frag_num |-> k, offset |-> next]
<1>1. PICK p : p = [o EXCEPT !.frag_num = k, !.offset = next]
  OBVIOUS
<1>2. /\ p \in Calls /\ p.channel = o.channel /\ p.data = o.data
      /\ p.n_fragments = o.n_fragments /\ p.sequence_number = o.sequence_number
      /\ p.frag_num = k /\ p.offset = next
  BY <1>1 DEF Calls
<1>3. p = [channel |-> p.channel, data |-> p.data, sequence_number |-> p.sequence_number,
            n_fragments |-> p.n_fragments, frag_num |-> p.frag_num, offset |-> p.offset]
  BY <1>2 DEF Calls
<1> QED
  BY <1>1, <1>2, <1>3

\* A fragment leaves; with the last one the call is over.
LEMMA FragmentStep ==
  ASSUME Regular, BaseInv, CallInv', NEW s \in Senders, SendFragment(s)
  PROVE  BaseInv' /\ (FreshInv => FreshInv' /\ UNCHANGED Channel!mvars)
<1>1. PICK c, m, j : c = Current(s) /\ m = c.message /\ j = outgoing[s].frag_num
  OBVIOUS
<1>2. /\ InCall(s) /\ UNCHANGED <<workload, seq_counter, todo, pending, ticks>>
      /\ UNCHANGED <<offered, withdrawn, delivered>>
  BY DEF SendFragment, InCall, receiver_vars, history
<1>3. /\ c \in offered /\ c \notin withdrawn
      /\ m \in Sound /\ Splits(m) /\ j \in 0 .. Parts(m) - 1
      /\ Parts(m) \in Nat \ {0} /\ outgoing[s] = Call(m, j)
      /\ outgoing[s].sequence_number = m.sequence_number
  BY <1>1, <1>2, InCallFacts DEF BaseInv
<1>4. wire' = wire \cup {Datagram(s, encode_fragment(Part(m, j)))}
  BY <1>3 DEF SendFragment, Part
<1>5. outgoing' = [outgoing EXCEPT ![s] = IF j + 1 = Parts(m) THEN Idle ELSE Call(m, j + 1)]
  <2>1. PICK o : o = outgoing[s]
    OBVIOUS
  <2>2. o = Call(m, j) /\ o.n_fragments = Parts(m) /\ o.frag_num = j /\ o.channel = m.channel
    BY <1>3, <2>1 DEF Call
  <2>3. ASSUME j + 1 # Parts(m)
        PROVE  [o EXCEPT !.frag_num = @ + 1, !.offset = @ + Len(Chunk(o))] = Call(m, j + 1)
    <3>1. CallOK(o)
      BY <1>3, <2>2, CallCorrect
    <3>2. PICK end \in Nat, F \in Int, S \in Int :
            /\ end = ChunkEnd(o) /\ F = FirstCapacity(m.channel) /\ S = SubsequentCapacity
            /\ end = F + j * S /\ Len(Chunk(o)) = end - o.offset
      <4>1. FirstCapacity(m.channel) \in Int
        BY <1>3, SoundType, Capacities
      <4> QED
        BY <2>2, <2>3, <3>1, <4>1, Slice, Capacities
    <3>3. o.offset \in Nat
      BY <3>1 DEF CallOK, Calls
    <3>4. o.offset + Len(Chunk(o)) = F + j * S
      BY <3>2, <3>3
    <3>5. j + 1 # 0 /\ (j + 1) - 1 = j
      BY <1>3
    <3>6. Call(m, j + 1) =
            [channel |-> m.channel, data |-> m.data, sequence_number |-> m.sequence_number,
             n_fragments |-> Parts(m), frag_num |-> j + 1, offset |-> F + j * S]
      BY <3>2, <3>5 DEF Call
    <3>7. /\ o.data = m.data /\ o.sequence_number = m.sequence_number
          /\ o.channel = m.channel /\ o.n_fragments = Parts(m)
      BY <2>2 DEF Call
    <3>8. PICK k \in Nat : k = j + 1
      BY <1>3
    <3>9. [o EXCEPT !.frag_num = @ + 1, !.offset = @ + Len(Chunk(o))] =
            [o EXCEPT !.frag_num = k, !.offset = end]
      BY <2>2, <3>2, <3>4, <3>8
    <3>10. [o EXCEPT !.frag_num = k, !.offset = end] =
             [channel |-> o.channel, data |-> o.data, sequence_number |-> o.sequence_number,
              n_fragments |-> o.n_fragments, frag_num |-> k, offset |-> end]
      <4>1. o \in Calls
        BY <3>1 DEF CallOK
      <4> QED
        BY <4>1, Moved
    <3> QED
      BY <3>2, <3>6, <3>7, <3>8, <3>9, <3>10
  <2> QED
    BY <2>1, <2>2, <2>3 DEF SendFragment
<1>6. /\ SendersOK' /\ HistoryOK' /\ Grows
      /\ \A t \in Senders : InCall(t)' => InCall(t) /\ Current(t)' = Current(t)
  <2>1. PICK o : o = IF j + 1 = Parts(m) THEN Idle ELSE Call(m, j + 1)
    OBVIOUS
  <2>2. \/ o \in {Idle, Down}
        \/ j + 1 \in 0 .. Parts(m) - 1 /\ o = Call(m, j + 1)
    BY <1>3, <2>1
  <2>3. outgoing' = [outgoing EXCEPT ![s] = o]
    BY <1>5, <2>1
  <2>4. \A t \in Senders : seq_counter'[t] \in SeqNumbers /\ seq_counter'[t] < Position(t)
    BY <1>2 DEF BaseInv, SendersOK
  <2> QED
    BY <1>1, <1>2, <2>2, <2>3, <2>4, CallKeeps DEF BaseInv
<1>7. Left(c, j)'
  <2>1. ASSUME NEW t \in Senders, InCall(t)', c = Current(t)'
        PROVE  j < outgoing'[t].frag_num
    <3>1. Current(t) = c
      BY <1>6, <2>1
    <3>2. t = s
      BY <1>1, <3>1, Apart
    <3>3. outgoing'[s] = Call(m, j + 1)
      BY <1>5, <2>1, <3>2 DEF InCall, BaseInv, CallInv
    <3>4. outgoing'[s].frag_num = j + 1
      BY <3>3 DEF Call
    <3> QED
      BY <1>3, <3>2, <3>4
  <2> QED
    BY <1>1, <1>2, <1>3, <2>1 DEF Left
<1>8. ASSUME NEW d \in wire' \ wire
      PROVE  /\ d.sender = s /\ d.buf = encode_fragment(Part(m, j)) /\ PartOf(c, d.buf)'
             /\ DatagramOK(d)'
  <2>1. d.sender = s /\ d.buf = encode_fragment(Part(m, j))
    BY <1>4, <1>8 DEF Datagram
  <2>2. PartOf(c, d.buf)'
    BY <1>1, <1>7, <2>1 DEF PartOf
  <2> QED
    BY <1>2, <1>3, <2>1, <2>2 DEF DatagramOK
<1>9. BaseInv'
  BY <1>2, <1>6, <1>8, StepKeeps
<1>10. ASSUME FreshInv
       PROVE  FreshInv'
  <2>1. ASSUME NEW a, NEW q, NEW o, Holder(o, a, q)
        PROVE  Holder(o, a, q)'
    <3>1. ASSUME NEW d \in wire' \ wire, CarriesPart(d, a, q)
          PROVE  PartOf(o, d.buf)'
      <4>1. d.sender = s /\ d.buf = encode_fragment(Part(m, j)) /\ PartOf(c, d.buf)'
        BY <1>8, <3>1
      <4>2. Addr[s] = a /\ m.sequence_number = q
        BY <1>3, <3>1, <4>1, PartCarried
      <4>3. c = o
        BY <1>1, <1>2, <1>3, <2>1, <4>2 DEF Holder
      <4> QED
        BY <4>1, <4>3
    <3> QED
      BY <1>2, <1>6, <2>1, <3>1, HolderKept
  <2> QED
    BY <1>2, <1>6, <1>10, <2>1, StepKeepsFresh
<1> QED
  BY <1>2, <1>9, <1>10 DEF Channel!mvars

\* send gives up before its last fragment, or the program dies: the sending is
\* withdrawn. Nothing of it can have been put together.
LEMMA GivenUpStep ==
  ASSUME Regular, BaseInv, CallInv', NEW s \in Senders, InCall(s), NEW c \in {Idle, Down},
         outgoing' = [outgoing EXCEPT ![s] = c], withdrawn' = withdrawn \cup {Current(s)},
         UNCHANGED <<workload, seq_counter, todo, wire, pending, ticks, offered, delivered>>
  PROVE  BaseInv' /\ (FreshInv => FreshInv' /\ Channel!Next)
<1>1. PICK o, m : o = Current(s) /\ m = o.message
  OBVIOUS
<1>2. o \in offered /\ o \in AllSendings
  BY <1>1, InCallFacts DEF BaseInv
<1>3. /\ SendersOK' /\ HistoryOK' /\ Grows
      /\ \A t \in Senders : InCall(t)' => InCall(t) /\ Current(t)' = Current(t)
  <2>1. \A t \in Senders : seq_counter'[t] \in SeqNumbers /\ seq_counter'[t] < Position(t)
    BY DEF BaseInv, SendersOK
  <2> QED
    BY <2>1, CallKeeps DEF BaseInv
<1>4. BaseInv'
  BY <1>3, StepKeeps
<1>5. ASSUME FreshInv
      PROVE  FreshInv'
  <2>1. ASSUME NEW a, NEW q, NEW p, Holder(p, a, q)
        PROVE  Holder(p, a, q)'
    BY <1>3, <2>1, HolderKept
  <2> QED
    BY <1>3, <1>5, <2>1, StepKeepsFresh
<1>6. ASSUME FreshInv
      PROVE  Channel!Withdraw(o)
  <2>1. m \in delivered => \E p \in offered \ withdrawn : p # o /\ p.message = m
    BY <1>1, <1>6 DEF FreshInv, Whole
  <2> QED
    BY <1>1, <1>2, <2>1 DEF Channel!Withdraw
<1> QED
  BY <1>2, <1>4, <1>5, <1>6 DEF Channel!Next

\* A program that is in no call dies, or starts again: nothing changes for what is
\* under way or held.
LEMMA RestStep ==
  ASSUME Regular, BaseInv, CallInv', NEW s \in Senders, NEW c \in {Idle, Down},
         outgoing' = [outgoing EXCEPT ![s] = c],
         \/ seq_counter' = seq_counter
         \/ seq_counter' = [seq_counter EXCEPT ![s] = 0],
         UNCHANGED <<workload, todo, wire, pending, ticks, offered, withdrawn, delivered>>
  PROVE  BaseInv' /\ (FreshInv => FreshInv' /\ UNCHANGED Channel!mvars)
<1>1. /\ SendersOK' /\ HistoryOK' /\ Grows
      /\ \A t \in Senders : InCall(t)' => InCall(t) /\ Current(t)' = Current(t)
  <2>1. ASSUME NEW t \in Senders
        PROVE  seq_counter'[t] \in SeqNumbers /\ seq_counter'[t] < Position(t)
    <3>1. seq_counter[t] \in SeqNumbers /\ seq_counter[t] < Position(t)
      BY DEF BaseInv, SendersOK
    <3>2. 0 \in SeqNumbers
      BY TransportAssumption DEF SeqNumbers
    <3>3. 0 < Position(t)
      BY Places DEF BaseInv
    <3>4. seq_counter'[t] = seq_counter[t] \/ seq_counter'[t] = 0
      BY DEF BaseInv, CallInv
    <3> QED
      BY <3>1, <3>2, <3>3, <3>4
  <2> QED
    BY <2>1, CallKeeps DEF BaseInv
<1>2. BaseInv'
  BY <1>1, StepKeeps
<1>3. ASSUME FreshInv
      PROVE  FreshInv'
  <2>1. ASSUME NEW a, NEW q, NEW p, Holder(p, a, q)
        PROVE  Holder(p, a, q)'
    BY <1>1, <2>1, HolderKept
  <2> QED
    BY <1>1, <1>3, <2>1, StepKeepsFresh
<1> QED
  BY <1>2, <1>3 DEF Channel!mvars

\* A send that fails in its loop.
LEMMA FailsStep ==
  ASSUME Regular, BaseInv, CallInv', NEW s \in Senders, SendFails(s)
  PROVE  BaseInv' /\ (FreshInv => FreshInv' /\ Channel!Next)
<1>1. /\ InCall(s) /\ UNCHANGED <<workload, seq_counter, todo, wire, pending, ticks>>
      /\ UNCHANGED <<offered, delivered>> /\ outgoing' = [outgoing EXCEPT ![s] = Idle]
      /\ withdrawn' = withdrawn \cup {Current(s)}
  BY DEF SendFails, InCall, receiver_vars
<1> QED
  BY <1>1, GivenUpStep

\* A program that dies.
LEMMA CrashStep ==
  ASSUME Regular, BaseInv, CallInv', NEW s \in Senders, Crash(s)
  PROVE  BaseInv' /\ (FreshInv => FreshInv' /\ [Channel!Next]_(Channel!mvars))
<1>1. /\ UNCHANGED <<workload, seq_counter, todo, wire, pending, ticks>>
      /\ UNCHANGED <<offered, delivered>> /\ outgoing' = [outgoing EXCEPT ![s] = Down]
      /\ outgoing[s] # Down
      /\ withdrawn' = withdrawn \cup (IF outgoing[s] = Idle THEN {} ELSE {Current(s)})
  BY DEF Crash, receiver_vars
<1>2. CASE InCall(s)
  <2>1. withdrawn' = withdrawn \cup {Current(s)}
    BY <1>1, <1>2 DEF InCall
  <2> QED
    BY <1>1, <1>2, <2>1, GivenUpStep
<1>3. CASE ~ InCall(s)
  <2>1. withdrawn' = withdrawn
    BY <1>1, <1>3 DEF InCall
  <2> QED
    BY <1>1, <2>1, RestStep
<1> QED
  BY <1>2, <1>3

\* A program that starts again, whatever is left of the one before.
LEMMA RestartStep ==
  ASSUME Regular, BaseInv, CallInv', NEW s \in Senders, Restart(s)
  PROVE  BaseInv' /\ (FreshInv => FreshInv' /\ UNCHANGED Channel!mvars)
<1>1. /\ seq_counter' = [seq_counter EXCEPT ![s] = 0]
      /\ outgoing' = [outgoing EXCEPT ![s] = Idle]
      /\ UNCHANGED <<workload, todo, wire, pending, ticks>>
      /\ UNCHANGED <<offered, withdrawn, delivered>>
  BY DEF Restart, receiver_vars, history
<1> QED
  BY <1>1, RestStep

-----------------------------------------------------------------------------
(* The steps of recv.                                                      *)

\* A receiver's step leaves the programs and their sendings alone.
LEMMA ReceiverFrame ==
  ASSUME UNCHANGED <<sender_vars, withdrawn, offered>>
  PROVE  /\ \A t : Position(t)' = Position(t) /\ Current(t)' = Current(t)
                   /\ InCall(t)' = InCall(t)
         /\ \A o, j : Left(o, j)' = Left(o, j)
         /\ \A o, set : SetOf(o, set)' = SetOf(o, set)
         /\ \A o, buf : PartOf(o, buf)' = PartOf(o, buf)
         /\ \A d : DatagramOK(d)' = DatagramOK(d)
         /\ \A m : Whole(m)' = Whole(m)
<1>1. /\ workload' = workload /\ todo' = todo /\ seq_counter' = seq_counter
      /\ outgoing' = outgoing /\ withdrawn' = withdrawn /\ offered' = offered
  BY DEF sender_vars
<1>2. \A t : Position(t)' = Position(t) /\ InCall(t)' = InCall(t)
  BY <1>1 DEF Position, InCall
<1>3. \A t : Current(t)' = Current(t)
  BY <1>1, <1>2 DEF Current
<1>4. \A o, j : Left(o, j)' = Left(o, j)
  BY <1>1, <1>2, <1>3 DEF Left
<1>5. \A o, set : SetOf(o, set)' = SetOf(o, set)
  BY <1>1, <1>4 DEF SetOf
<1>6. \A o, buf : PartOf(o, buf)' = PartOf(o, buf) /\ ShortOf(o, buf)' = ShortOf(o, buf)
  BY <1>1, <1>4 DEF PartOf, ShortOf
<1>7. \A d : DatagramOK(d)' = DatagramOK(d)
  BY <1>1, <1>6 DEF DatagramOK
<1>8. \A m : Whole(m)' = Whole(m)
  BY <1>1, <1>2, <1>3 DEF Whole
<1> QED
  BY <1>2, <1>3, <1>4, <1>5, <1>6, <1>7, <1>8

\* What every step of the receiver does.
ReceiverStep ==
  /\ UNCHANGED <<sender_vars, withdrawn, offered>>
  /\ wire' \subseteq wire /\ ticks' \in 0 .. MaxTicks

\* It keeps what holds of every run.
LEMMA RecvBase ==
  ASSUME BaseInv, CallInv', ReceiverStep, DOMAIN pending' \subseteq Reassembler!FragmentKeys
  PROVE  BaseInv'
<1>1. /\ workload' = workload /\ todo' = todo /\ seq_counter' = seq_counter
      /\ outgoing' = outgoing /\ withdrawn' = withdrawn /\ offered' = offered
      /\ wire' \subseteq wire /\ ticks' \in 0 .. MaxTicks
  BY DEF ReceiverStep, sender_vars
<1>2. \A t : Position(t)' = Position(t) /\ Current(t)' = Current(t) /\ InCall(t)' = InCall(t)
  BY ReceiverFrame DEF ReceiverStep
<1>3. WireOK'
  <2>1. \A d \in wire' : DatagramOK(d)'
    BY <1>1, ReceiverFrame DEF ReceiverStep, BaseInv, WireOK
  <2> QED
    BY <2>1 DEF WireOK
<1>4. SendersOK'
  BY <1>1, <1>2 DEF BaseInv, SendersOK
<1>5. HistoryOK'
  BY <1>1, <1>2 DEF BaseInv, HistoryOK
<1> QED
  BY <1>1, <1>3, <1>4, <1>5 DEF BaseInv, Reassembler!FragmentKeys

\* It keeps numbers apart when it returns only whole messages and keeps only sets of
\* the one sending by their address and number; to return a message is to deliver it.
LEMMA RecvFresh ==
  ASSUME BaseInv, FreshInv, ReceiverStep,
         \A k \in DOMAIN pending' : pending'[k] \in Sets,
         \A a, q : \E o : Holder(o, a, q) /\ Holds(o, a, q, pending'),
         \/ delivered' = delivered
         \/ \E m : Whole(m) /\ delivered' = delivered \cup {m}
  PROVE  FreshInv' /\ [Channel!Next]_(Channel!mvars)
<1>1. /\ outgoing' = outgoing /\ withdrawn' = withdrawn /\ offered' = offered
      /\ wire' \subseteq wire
  BY DEF ReceiverStep, sender_vars
<1>2. ASSUME NEW a, NEW q
      PROVE  \E o : Holder(o, a, q)'
  <2>1. PICK o : Holder(o, a, q) /\ Holds(o, a, q, pending')
    OBVIOUS
  <2>2. Holds(o, a, q, pending)'
    BY <2>1, ReceiverFrame DEF ReceiverStep, Holds
  <2>3. \A d \in wire' : CarriesPart(d, a, q) => PartOf(o, d.buf)'
    BY <1>1, <2>1, ReceiverFrame DEF ReceiverStep, Holder
  <2>4. \A s \in Senders : InCall(s)' /\ Addr[s] = a /\ outgoing'[s].sequence_number = q
                             => Current(s)' = o
    BY <1>1, <2>1, ReceiverFrame DEF ReceiverStep, Holder
  <2> QED
    BY <2>2, <2>3, <2>4 DEF Holder
<1>3. \A m \in delivered' : Whole(m)'
  BY ReceiverFrame DEF ReceiverStep, FreshInv
<1>4. FreshInv'
  BY <1>2, <1>3 DEF FreshInv
<1>5. CASE delivered' = delivered
  BY <1>1, <1>4, <1>5 DEF Channel!mvars
<1>6. ASSUME NEW m, Whole(m), delivered' = delivered \cup {m}
      PROVE  Channel!Next
  <2>1. PICK o \in offered : o \notin withdrawn /\ o.message = m
    BY <1>6 DEF Whole
  <2>2. o \in AllSendings
    BY <2>1 DEF BaseInv, HistoryOK
  <2>3. Channel!Deliver(o)
    BY <1>1, <1>6, <2>1 DEF Channel!Deliver
  <2> QED
    BY <2>2, <2>3 DEF Channel!Next
<1> QED
  BY <1>4, <1>5, <1>6

\* The sets that have not expired are there as they were.
LEMMA Expired ==
  LET p == Reassembler!expire_stale(pending) IN
  \A k \in DOMAIN p : k \in DOMAIN pending /\ p[k] = pending[k] /\ ~ Reassembler!Stale(p[k])
BY DEF Reassembler!expire_stale, Reassembler!Without

\* A fragment goes by one address and number.
LEMMA ProcessKeys ==
  ASSUME NEW a, NEW f, Reassembler!process(a, f)
  PROVE  DOMAIN pending' \subseteq DOMAIN pending \cup {<<a, f.sequence_number>>}
<1>1. DOMAIN Reassembler!expire_stale(pending) \subseteq DOMAIN pending
  BY Expired
<1>2. CASE Reassembler!ProcessOversized(a, f)
  BY <1>1, <1>2 DEF Reassembler!ProcessOversized
<1>3. CASE Reassembler!ProcessRejected(a, f)
  BY <1>1, <1>3 DEF Reassembler!ProcessRejected, Reassembler!With
<1>4. CASE Reassembler!ProcessStored(a, f)
  BY <1>1, <1>4 DEF Reassembler!ProcessStored, Reassembler!With
<1>5. CASE Reassembler!ProcessCompleted(a, f)
  BY <1>1, <1>5 DEF Reassembler!ProcessCompleted, Reassembler!Without
<1> QED
  BY <1>2, <1>3, <1>4, <1>5 DEF Reassembler!process

\* A fragment of the sending that goes by its address and number goes to a set of it,
\* and completes its message or nothing. The other sets stay or expire.
LEMMA ProcessKeeps ==
  ASSUME BaseInv, FreshInv, NEW a, NEW o, NEW m, m = o.message, NEW j, Left(o, j),
         Holds(o, a, m.sequence_number, pending), Reassembler!process(a, Part(m, j))
  PROVE  /\ \A k \in DOMAIN pending' : pending'[k] \in Sets
         /\ Holds(o, a, m.sequence_number, pending')
         /\ \A k \in DOMAIN pending' : k # <<a, m.sequence_number>> =>
              k \in DOMAIN pending /\ pending'[k] = pending[k]
         /\ returned' = NoMessage \/ Whole(returned')
<1>1. o \in offered /\ Splits(m) /\ j \in 0 .. Parts(m) - 1
  BY DEF Left
<1>2. m \in Sound
  BY <1>1 DEF BaseInv, HistoryOK
<1>3. PICK f : f = Part(m, j)
  OBVIOUS
<1>4. f.sequence_number = m.sequence_number
  BY <1>1, <1>2, <1>3, PartFacts
<1>5. PICK p, key, set :
        /\ p = Reassembler!expire_stale(pending)
        /\ key = <<a, m.sequence_number>>
        /\ set = Reassembler!Entry(p, key, f)
  OBVIOUS
<1>6. SetOf(o, set) /\ (j = 0 => set.channel = m.channel)
  <2>1. key \in DOMAIN p => SetOf(o, p[key])
    BY <1>5, Expired DEF Holds
  <2> QED
    BY <1>1, <1>3, <1>5, <2>1, EntryOf DEF BaseInv
<1>7. \A k \in DOMAIN p : k \in DOMAIN pending /\ p[k] = pending[k] /\ p[k] \in Sets
  BY <1>5, Expired DEF FreshInv
<1>8. ASSUME NEW x, SetOf(o, x), pending' = Reassembler!With(p, key, x)
      PROVE  /\ \A k \in DOMAIN pending' : pending'[k] \in Sets
             /\ Holds(o, a, m.sequence_number, pending')
             /\ \A k \in DOMAIN pending' : k # key =>
                  k \in DOMAIN pending /\ pending'[k] = pending[k]
  <2>1. x \in Sets
    BY <1>8 DEF SetOf
  <2>2. /\ key \in DOMAIN pending' /\ pending'[key] = x
        /\ \A k \in DOMAIN pending' : k # key => k \in DOMAIN p /\ pending'[k] = p[k]
    BY <1>8 DEF Reassembler!With
  <2>3. Holds(o, a, m.sequence_number, pending')
    BY <1>5, <1>8, <2>2 DEF Holds
  <2> QED
    BY <1>7, <2>1, <2>2, <2>3
<1>9. ASSUME pending' = Reassembler!Without(p, {key}) \/ pending' = p
      PROVE  /\ \A k \in DOMAIN pending' : pending'[k] \in Sets
             /\ Holds(o, a, m.sequence_number, pending')
             /\ \A k \in DOMAIN pending' : k # key =>
                  k \in DOMAIN pending /\ pending'[k] = pending[k]
  <2>1. \A k \in DOMAIN pending' : k \in DOMAIN p /\ pending'[k] = p[k]
    BY <1>9 DEF Reassembler!Without
  <2>2. Holds(o, a, m.sequence_number, pending')
    BY <1>7, <2>1 DEF Holds
  <2> QED
    BY <1>7, <2>1, <2>2
<1>10. ASSUME Reassembler!Accepts(set, f)
       PROVE  LET new == Reassembler!Store(set, f) IN
              /\ SetOf(o, new) /\ new.channel = set.channel
              /\ new.n_fragments = set.n_fragments
  <2>1. PICK new : new = Reassembler!Store(set, f)
    OBVIOUS
  <2>2. SetOf(o, new) /\ new.channel = set.channel
    BY <1>3, <1>6, <1>10, <2>1, StoreOf DEF BaseInv
  <2>3. new.n_fragments = set.n_fragments
    BY <1>6, <2>2 DEF SetOf
  <2> QED
    BY <2>1, <2>2, <2>3
<1>11. CASE Reassembler!ProcessOversized(a, f)
  BY <1>5, <1>9, <1>11 DEF Reassembler!ProcessOversized
<1>12. CASE Reassembler!ProcessRejected(a, f)
  <2>1. pending' = Reassembler!With(p, key, set) /\ returned' = NoMessage
    BY <1>4, <1>5, <1>12 DEF Reassembler!ProcessRejected
  <2> QED
    BY <1>5, <1>6, <1>8, <2>1
<1>13. CASE Reassembler!ProcessStored(a, f)
  <2>1. /\ Reassembler!Accepts(set, f) /\ returned' = NoMessage
        /\ pending' = Reassembler!With(p, key, Reassembler!Store(set, f))
    BY <1>4, <1>5, <1>13 DEF Reassembler!ProcessStored
  <2> QED
    BY <1>5, <1>8, <1>10, <2>1
<1>14. CASE Reassembler!ProcessCompleted(a, f)
  <2>1. PICK new : new = Reassembler!Store(set, f)
    OBVIOUS
  <2>2. /\ Reassembler!Accepts(set, f) /\ new.fragments_received = set.n_fragments
        /\ pending' = Reassembler!Without(p, {key})
        /\ returned' = [channel |-> set.channel, sequence_number |-> m.sequence_number,
                        data |-> new.buffer]
    BY <1>4, <1>5, <1>14, <2>1 DEF Reassembler!ProcessCompleted
  <2>3. SetOf(o, new) /\ new.channel = set.channel /\ new.n_fragments = set.n_fragments
    BY <1>10, <2>1, <2>2
  <2>4. new.channel = m.channel /\ new.buffer = m.data /\ Whole(m)
    BY <2>2, <2>3, CompleteOf DEF BaseInv
  <2>5. m = [channel |-> m.channel, sequence_number |-> m.sequence_number, data |-> m.data]
    BY <1>2, SoundType
  <2>6. returned' = m
    BY <2>2, <2>3, <2>4, <2>5
  <2> QED
    BY <1>5, <1>9, <2>2, <2>4, <2>6
<1> QED
  BY <1>3, <1>11, <1>12, <1>13, <1>14 DEF Reassembler!process

\* recv takes a datagram off the wire or a copy of it.
LEMMA RecvStep ==
  ASSUME Regular, BaseInv, CallInv', NEW d \in wire, recv(Addr[d.sender], d.buf),
         wire' \subseteq wire
  PROVE  BaseInv' /\ (FreshInv => FreshInv' /\ [Channel!Next]_(Channel!mvars))
<1>1. /\ UNCHANGED <<sender_vars, withdrawn, offered>> /\ ticks' = ticks
      /\ delivered' = IF returned' = NoMessage THEN delivered ELSE delivered \cup {returned'}
  BY DEF recv
<1>2. ReceiverStep
  BY <1>1 DEF ReceiverStep, BaseInv
<1>3. PICK packet : packet = parse_datagram(d.buf)
  OBVIOUS
<1>4. IF packet = NoPacket THEN returned' = NoMessage /\ UNCHANGED pending
      ELSE IF IsFragment(packet) THEN Reassembler!process(Addr[d.sender], packet)
      ELSE returned' = packet /\ UNCHANGED pending
  BY <1>3 DEF recv
<1>5. PICK u \in offered : d.sender \in Senders /\ (ShortOf(u, d.buf) \/ PartOf(u, d.buf))
  BY DEF BaseInv, WireOK, DatagramOK
<1>6. u.message \in Sound
  BY DEF BaseInv, HistoryOK
<1>7. FreshInv /\ pending' = pending =>
        /\ \A k \in DOMAIN pending' : pending'[k] \in Sets
        /\ \A a, q : \E o : Holder(o, a, q) /\ Holds(o, a, q, pending')
  BY DEF FreshInv, Holder
<1>8. CASE packet = NoPacket
  <2>1. pending' = pending /\ delivered' = delivered
    BY <1>1, <1>4, <1>8
  <2>2. BaseInv'
    BY <1>2, <2>1, RecvBase DEF BaseInv
  <2> QED
    BY <1>2, <1>7, <2>1, <2>2, RecvFresh
<1>9. CASE packet # NoPacket /\ ShortOf(u, d.buf)
  <2>1. packet = u.message /\ ~ IsFragment(u.message)
    BY <1>3, <1>6, <1>9, ShortCarried DEF ShortOf
  <2>2. pending' = pending /\ returned' = u.message
    BY <1>4, <1>9, <2>1
  <2>3. Whole(u.message)
    BY <1>9 DEF ShortOf, Whole, BaseInv, SendersOK, Splits
  <2>4. delivered' = delivered \/ \E x : Whole(x) /\ delivered' = delivered \cup {x}
    BY <1>1, <2>2, <2>3
  <2>5. BaseInv'
    BY <1>2, <2>2, RecvBase DEF BaseInv
  <2> QED
    BY <1>2, <1>7, <2>2, <2>4, <2>5, RecvFresh
<1>10. CASE packet # NoPacket /\ PartOf(u, d.buf)
  <2>1. PICK i : Left(u, i) /\ d.buf = encode_fragment(Part(u.message, i))
    BY <1>10 DEF PartOf
  <2>2. Splits(u.message) /\ i \in 0 .. Parts(u.message) - 1
    BY <2>1 DEF Left
  <2>3. packet = Part(u.message, i) /\ IsFragment(packet)
    BY <1>3, <1>6, <2>1, <2>2, PartCarried
  <2>4. PICK a, q : a = Addr[d.sender] /\ q = packet.sequence_number
    OBVIOUS
  <2>5. Reassembler!process(a, packet)
    BY <1>4, <1>10, <2>3, <2>4
  <2>6. BaseInv'
    <3>1. q \in SeqNumbers
      BY <1>6, <2>2, <2>3, <2>4, PartFacts, SoundType
    <3>2. <<a, q>> \in Reassembler!FragmentKeys
      BY <1>5, <2>4, <3>1 DEF Reassembler!FragmentKeys
    <3>3. DOMAIN pending' \subseteq DOMAIN pending \cup {<<a, q>>}
      BY <2>4, <2>5, ProcessKeys
    <3> QED
      BY <1>2, <3>2, <3>3, RecvBase DEF BaseInv
  <2>7. ASSUME FreshInv
        PROVE  FreshInv' /\ [Channel!Next]_(Channel!mvars)
    <3>1. PICK o : Holder(o, a, q)
      BY <2>7 DEF FreshInv
    <3>2. CarriesPart(d, a, q)
      BY <1>3, <1>10, <2>3, <2>4 DEF CarriesPart
    <3>3. PICK j : Left(o, j) /\ d.buf = encode_fragment(Part(o.message, j))
      BY <3>1, <3>2 DEF Holder, PartOf
    <3>4. o.message \in Sound /\ Splits(o.message) /\ j \in 0 .. Parts(o.message) - 1
      BY <3>3 DEF Left, BaseInv, HistoryOK
    <3>5. packet = Part(o.message, j) /\ q = o.message.sequence_number
      BY <1>3, <2>4, <3>2, <3>3, <3>4, PartCarried
    <3>6. Holds(o, a, q, pending)
      BY <3>1 DEF Holder
    <3>7. /\ \A k \in DOMAIN pending' : pending'[k] \in Sets
          /\ Holds(o, a, q, pending')
          /\ \A k \in DOMAIN pending' : k # <<a, q>> =>
               k \in DOMAIN pending /\ pending'[k] = pending[k]
          /\ returned' = NoMessage \/ Whole(returned')
      BY <2>5, <2>7, <3>3, <3>5, <3>6, ProcessKeeps
    <3>8. ASSUME NEW b, NEW r
          PROVE  \E x : Holder(x, b, r) /\ Holds(x, b, r, pending')
      <4>1. CASE b = a /\ r = q
        BY <3>1, <3>7, <4>1
      <4>2. CASE ~ (b = a /\ r = q)
        <5>1. PICK x : Holder(x, b, r)
          BY <2>7 DEF FreshInv
        <5>2. <<b, r>> # <<a, q>>
          BY <4>2
        <5> QED
          BY <3>7, <5>1, <5>2 DEF Holder, Holds
      <4> QED
        BY <4>1, <4>2
    <3>9. delivered' = delivered \/ \E x : Whole(x) /\ delivered' = delivered \cup {x}
      BY <1>1, <3>7
    <3> QED
      BY <1>2, <2>7, <3>7, <3>8, <3>9, RecvFresh
  <2> QED
    BY <2>6, <2>7
<1> QED
  BY <1>5, <1>8, <1>9, <1>10

\* recv takes a datagram of no program: nothing comes of it.
LEMMA StrayStep ==
  ASSUME Regular, BaseInv, CallInv', ReceiveStray
  PROVE  BaseInv' /\ (FreshInv => FreshInv' /\ [Channel!Next]_(Channel!mvars))
<1>1. PICK d \in Strays : wire' = wire /\ recv(d.from, d.buf)
  BY DEF ReceiveStray
<1>2. parse_datagram(d.buf) = NoPacket
  BY DEF Regular, StraysMalformed
<1>3. /\ UNCHANGED <<sender_vars, withdrawn, offered>> /\ ticks' = ticks
      /\ pending' = pending /\ delivered' = delivered
  BY <1>1, <1>2 DEF recv
<1>4. ReceiverStep
  BY <1>1, <1>3 DEF ReceiverStep, BaseInv
<1>5. BaseInv'
  BY <1>3, <1>4, RecvBase DEF BaseInv
<1>6. ASSUME FreshInv
      PROVE  FreshInv' /\ [Channel!Next]_(Channel!mvars)
  <2>1. /\ \A k \in DOMAIN pending' : pending'[k] \in Sets
        /\ \A a, q : \E o : Holder(o, a, q) /\ Holds(o, a, q, pending')
    BY <1>3, <1>6 DEF FreshInv, Holder
  <2> QED
    BY <1>3, <1>4, <1>6, <2>1, RecvFresh
<1> QED
  BY <1>5, <1>6

\* A set that grows older is the same but for its age, and one that has expired
\* stays so.
LEMMA TickStep ==
  ASSUME Regular, BaseInv, CallInv', Tick
  PROVE  BaseInv' /\ (FreshInv => FreshInv' /\ [Channel!Next]_(Channel!mvars))
<1>1. /\ UNCHANGED <<sender_vars, withdrawn, offered>> /\ delivered' = delivered
      /\ wire' = wire /\ ticks < MaxTicks /\ ticks' = ticks + 1
      /\ pending' = [k \in DOMAIN pending |->
                       [pending[k] EXCEPT !.age = IF @ > Timeout THEN @ ELSE @ + 1]]
  BY DEF Tick, Reassembler!Tick, history
<1>2. ReceiverStep
  BY <1>1, TransportAssumption DEF ReceiverStep, BaseInv
<1>3. BaseInv'
  BY <1>1, <1>2, RecvBase DEF BaseInv
<1>4. ASSUME FreshInv, NEW k \in DOMAIN pending
      PROVE  /\ pending'[k] \in Sets
             /\ ~ Reassembler!Stale(pending'[k]) => ~ Reassembler!Stale(pending[k])
             /\ \A o : SetOf(o, pending[k]) => SetOf(o, pending'[k])
  <2>1. PICK old, new : old = pending[k] /\ new = pending'[k]
    OBVIOUS
  <2>2. old \in Sets
    BY <1>4, <2>1 DEF FreshInv
  <2>3. PICK age : age = IF old.age > Timeout THEN old.age ELSE old.age + 1
    OBVIOUS
  <2>4. new = [old EXCEPT !.age = age]
    BY <1>1, <2>1, <2>3
  <2>5. age \in Nat /\ (old.age > Timeout => age > Timeout)
    BY <2>2, <2>3 DEF Sets
  <2>6. /\ new \in Sets /\ new.age = age
        /\ new.channel = old.channel /\ new.payload_size = old.payload_size
        /\ new.n_fragments = old.n_fragments /\ new.buffer = old.buffer
        /\ new.fragments_received = old.fragments_received
        /\ new.received_mask = old.received_mask
    BY <2>2, <2>4, <2>5 DEF Sets
  <2>7. \A o : SetOf(o, old) => SetOf(o, new)
    BY <2>6 DEF SetOf
  <2> QED
    BY <2>1, <2>5, <2>6, <2>7 DEF Reassembler!Stale
<1>5. ASSUME FreshInv
      PROVE  FreshInv' /\ [Channel!Next]_(Channel!mvars)
  <2>1. DOMAIN pending' = DOMAIN pending
    BY <1>1
  <2>2. ASSUME NEW a, NEW q
        PROVE  \E o : Holder(o, a, q) /\ Holds(o, a, q, pending')
    <3>1. PICK o : Holder(o, a, q)
      BY <1>5 DEF FreshInv
    <3>2. Holds(o, a, q, pending')
      BY <1>4, <1>5, <2>1, <3>1 DEF Holder, Holds
    <3> QED
      BY <3>1, <3>2
  <2>3. \A k \in DOMAIN pending' : pending'[k] \in Sets
    BY <1>4, <1>5, <2>1
  <2> QED
    BY <1>1, <1>2, <1>5, <2>2, <2>3, RecvFresh
<1> QED
  BY <1>3, <1>5

-----------------------------------------------------------------------------
(* The invariants, and what follows.                                       *)

\* At the start nothing is sent.
LEMMA InitInv == Regular /\ Init => BaseInv /\ FreshInv
<1> SUFFICES ASSUME Regular, Init
             PROVE  BaseInv /\ FreshInv
  OBVIOUS
<1>1. /\ workload \in Workloads /\ todo = workload
      /\ seq_counter = [s \in Senders |-> 0] /\ outgoing = [s \in Senders |-> Idle]
      /\ wire = {} /\ pending = <<>> /\ ticks = 0
      /\ offered = {} /\ withdrawn = {} /\ delivered = {}
  BY DEF Init, Reassembler!Init
<1>2. CallInv
  <2>1. workload \in [Senders -> Seq(Sendable)]
    BY <1>1 DEF Regular, Untruncated
  <2> QED
    BY <1>1, <2>1 DEF CallInv
<1>3. SendersOK
  <2>1. ASSUME NEW s \in Senders
        PROVE  /\ Len(todo[s]) <= Len(workload[s])
               /\ \A i \in 1 .. Len(todo[s]) : todo[s][i] = workload[s][Position(s) + i - 1]
               /\ seq_counter[s] \in SeqNumbers /\ seq_counter[s] < Position(s)
               /\ ~ InCall(s)
    <3>1. PICK w \in Seq(Sendable) : w = workload[s]
      BY <1>2 DEF CallInv
    <3>2. PICK n \in Nat : n = Len(w)
      BY <3>1
    <3>3. Position(s) = 1
      BY <1>1, <3>1, <3>2 DEF Position
    <3>4. \A i \in 1 .. n : 1 + i - 1 = i
      OBVIOUS
    <3>5. 0 \in SeqNumbers
      BY TransportAssumption DEF SeqNumbers
    <3> QED
      BY <1>1, <3>1, <3>2, <3>3, <3>4, <3>5 DEF InCall
  <2> QED
    BY <1>1, <2>1 DEF SendersOK
<1>4. BaseInv
  BY <1>1, <1>2, <1>3, TransportAssumption DEF HistoryOK, WireOK, BaseInv
<1>5. \A a, q, o : Holder(o, a, q)
  BY <1>1 DEF Holder, Holds, InCall
<1> QED
  BY <1>1, <1>4, <1>5 DEF FreshInv

\* One step per action of Next.
LEMMA NextInv ==
  ASSUME Regular, BaseInv, [Next]_vars
  PROVE  BaseInv' /\ (FreshInv /\ [FreshNext]_vars
                        => FreshInv' /\ [Channel!Next]_(Channel!mvars))
<1>1. CallInv'
  BY NextCallInv DEF BaseInv
<1>2. ASSUME NEW s \in Senders, SendStep(s)
      PROVE  BaseInv' /\ (FreshInv /\ FreshNumbers
                            => FreshInv' /\ [Channel!Next]_(Channel!mvars))
  BY <1>1, <1>2, ShortStep, RefusedStep, FragmentedStep, FragmentStep, FailsStep DEF SendStep
<1>3. ASSUME NEW s \in Senders, Crash(s) \/ Restart(s)
      PROVE  BaseInv' /\ (FreshInv => FreshInv' /\ [Channel!Next]_(Channel!mvars))
  BY <1>1, <1>3, CrashStep, RestartStep
<1>4. ASSUME NEW d \in wire, Receive(d) \/ ReceiveCopy(d)
      PROVE  BaseInv' /\ (FreshInv => FreshInv' /\ [Channel!Next]_(Channel!mvars))
  <2>1. recv(Addr[d.sender], d.buf) /\ wire' \subseteq wire
    BY <1>4 DEF Receive, ReceiveCopy
  <2> QED
    BY <1>1, <2>1, RecvStep
<1>5. CASE ReceiveStray
  BY <1>1, <1>5, StrayStep
<1>6. CASE Tick
  BY <1>1, <1>6, TickStep
<1>7. CASE UNCHANGED vars
  <2>1. /\ UNCHANGED <<sender_vars, withdrawn, offered>> /\ delivered' = delivered
        /\ wire' = wire /\ ticks' = ticks /\ pending' = pending
    BY <1>7 DEF vars, receiver_vars, history
  <2>2. ReceiverStep
    BY <2>1 DEF ReceiverStep, BaseInv
  <2>3. BaseInv'
    BY <1>1, <2>1, <2>2, RecvBase DEF BaseInv
  <2>4. FreshInv =>
          /\ \A k \in DOMAIN pending' : pending'[k] \in Sets
          /\ \A a, q : \E o : Holder(o, a, q) /\ Holds(o, a, q, pending')
    BY <2>1 DEF FreshInv, Holder
  <2> QED
    BY <2>1, <2>2, <2>3, <2>4, RecvFresh
<1>8. CASE Next /\ ~ UNCHANGED vars
  <2>1. [FreshNext]_vars => FreshNumbers
    BY <1>8 DEF FreshNext
  <2> QED
    BY <1>2, <1>3, <1>4, <1>5, <1>6, <1>8, <2>1 DEF Next
<1> QED
  BY <1>7, <1>8

\* What holds of every run.
LEMMA BaseInvariant ==
  ASSUME Regular
  PROVE  Spec => []BaseInv
<1>1. Init => BaseInv
  BY InitInv
<1>2. BaseInv /\ [Next]_vars => BaseInv'
  BY NextInv
<1> QED
  BY <1>1, <1>2, PTL DEF Spec

\* What holds of every run with fresh numbers, and what it is to MessageChannel.
LEMMA FreshInvariant ==
  ASSUME Regular
  PROVE  FreshSpec => [](BaseInv /\ FreshInv) /\ [][Channel!Next]_(Channel!mvars)
<1>1. Init => BaseInv /\ FreshInv
  BY InitInv
<1>2. [FreshNext]_vars => [Next]_vars
  BY DEF FreshNext
<1>3. BaseInv /\ FreshInv /\ [FreshNext]_vars
        => (BaseInv /\ FreshInv)' /\ [Channel!Next]_(Channel!mvars)
  BY <1>2, NextInv
<1> QED
  BY <1>1, <1>3, PTL DEF FreshSpec

\* multicast.rs:117-232 with fragment.rs:44-149: the transport implements
\* MessageChannel. What recv returns was sent, whole, in a send that has neither
\* failed nor died; whatever is lost, reordered, duplicated or left half-way, whenever
\* sets expire and programs start again, and even if programs share an address. That
\* takes FreshNumbers: no message starts out in parts while parts of another one by its
\* address and number are on the wire, held and not expired, or being sent. And no
\* count is truncated to 16 bits, no size to 32, and strays are no LCM datagrams.
THEOREM ChannelImplemented ==
  ASSUME Regular
  PROVE  FreshSpec => ImplementsChannel
<1>1. Init => Channel!Init
  BY DEF Init, Channel!Init
<1> QED
  BY <1>1, FreshInvariant, PTL DEF FreshSpec, ImplementsChannel, Channel!Spec

\* multicast.rs:45-48, fragment.rs:8-12: under the same assumptions no message recv
\* returns is put together from the fragments of two messages, or has a part missing.
THEOREM AlwaysIntact ==
  ASSUME Regular
  PROVE  FreshSpec => []DeliveredIntact
<1>1. FreshInv => DeliveredIntact
  BY DEF FreshInv, Whole, DeliveredIntact
<1> QED
  BY <1>1, FreshInvariant, PTL

\* The type invariant, whether numbers are fresh or not; the counter, which fetch_add
\* moves and which wraps, is a number that fits, and what is recorded as sent is of the
\* workload (multicast.rs:117-150, 173-232).
THEOREM TypeCorrect ==
  ASSUME Regular
  PROVE  Spec => []TypeOK
<1>1. ASSUME BaseInv
      PROVE  TypeOK
  <2>1. seq_counter \in [Senders -> SeqNumbers]
    <3>1. \A s \in Senders : seq_counter[s] \in SeqNumbers
      BY <1>1 DEF BaseInv, SendersOK
    <3> QED
      BY <1>1, <3>1 DEF BaseInv, CallInv
  <2>2. ASSUME NEW s \in Senders, outgoing[s] \notin {Idle, Down}
        PROVE  outgoing[s].frag_num \in 0 .. U16 - 1 /\ outgoing[s].offset \in Nat
    <3>1. PICK n \in Nat : n < U16 /\ outgoing[s].frag_num \in 0 .. n - 1
      <4>1. PICK m \in Sound : Splits(m) /\ outgoing[s].frag_num \in 0 .. Parts(m) - 1
        BY <1>1, <2>2, InCallFacts DEF BaseInv, InCall
      <4> QED
        BY <4>1, PartsType
    <3>2. outgoing[s].offset \in Nat
      BY <1>1, <2>2 DEF BaseInv, CallInv, CallOK, Calls
    <3> QED
      BY <3>1, <3>2, TransportAssumption
  <2> QED
    BY <1>1, <2>1, <2>2 DEF BaseInv, HistoryOK, TypeOK
<1> QED
  BY <1>1, BaseInvariant, PTL
=============================================================================
