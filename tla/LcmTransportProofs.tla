------------------------- MODULE LcmTransportProofs -------------------------
(***************************************************************************)
(* The fragments cut the payload up, for every MTU, every name and every   *)
(* payload whose number of fragments is not truncated; and parse_datagram  *)
(* undoes both encoders.                                                   *)
(***************************************************************************)
EXTENDS LcmTransport, SequenceTheorems, TLAPS

\* NFragments, before the cast.
Count(c, size) ==
  1 + (SaturatingSub(size, FirstCapacity(c)) + SubsequentCapacity - 1)
        \div SubsequentCapacity

\* The messages that send either refuses or sends without a truncated count.
Sendable ==
  {m \in [channel : Channels, size : Nat] :
     FirstCapacity(m.channel) # 0 /\ SubsequentCapacity # 0 =>
       Count(m.channel, m.size) < U16}

Cells == Senders \X Int \X Int
Calls == [channel : Channels, data : Seq(Cells), sequence_number : Int,
          n_fragments : Nat, frag_num : Nat, offset : Nat]

\* A call of send_fragmented: before its fragment frag_num the first one took
\* FirstCapacity of the payload, and each later one SubsequentCapacity.
CallOK(o) ==
  /\ o \in Calls
  /\ FirstCapacity(o.channel) # 0 /\ SubsequentCapacity # 0 /\ Len(o.data) # 0
  /\ o.n_fragments = Count(o.channel, Len(o.data))
  /\ o.frag_num < o.n_fragments
  /\ o.offset = IF o.frag_num = 0 THEN 0
                ELSE FirstCapacity(o.channel) + (o.frag_num - 1) * SubsequentCapacity

CallInv ==
  /\ workload \in [Senders -> Seq(Sendable)]
  /\ todo \in [Senders -> Seq(Sendable)]
  /\ seq_counter \in [Senders -> Int]
  /\ outgoing = [s \in Senders |-> outgoing[s]]
  /\ \A s \in Senders : outgoing[s] \notin {Idle, Down} => CallOK(outgoing[s])

-----------------------------------------------------------------------------
(* Arithmetic.                                                             *)

\* Products with a positive factor are ordered as the other factors are.
LEMMA Monotone ==
  ASSUME NEW i \in Int, NEW j \in Int, NEW k \in Nat, i <= j
  PROVE  i * k <= j * k
  OBVIOUS

\* Division rounded up: q is the least number of parts of size k that hold r.
LEMMA RoundedUp ==
  ASSUME NEW r \in Nat, NEW k \in Nat \ {0}, NEW i \in Int
  PROVE  LET q == (r + k - 1) \div k IN
         /\ q \in Nat
         /\ q <= i <=> r <= i * k
<1> DEFINE q == (r + k - 1) \div k
<1>1. q \in Int /\ q * k <= r + k - 1 /\ r + k - 1 < q * k + k
  OBVIOUS
<1>2. q >= 0
  BY <1>1
<1>3. ASSUME q <= i
      PROVE  r <= i * k
  <2>1. q * k <= i * k
    BY <1>1, <1>3, Monotone
  <2> QED
    BY <1>1, <2>1
<1>4. ASSUME i < q
      PROVE  i * k < r
  <2>1. i * k <= (q - 1) * k
    BY <1>1, <1>4, Monotone
  <2>2. (q - 1) * k = q * k - k
    BY <1>1
  <2> QED
    BY <1>1, <2>1, <2>2
<1> QED
  BY <1>1, <1>2, <1>3, <1>4

\* What the capacities are made of.
LEMMA Capacities ==
  /\ \A c \in Channels : FirstCapacity(c) \in Nat
  /\ SubsequentCapacity \in Nat
  /\ \A c \in Channels, size \in Nat :
       FirstCapacity(c) # 0 /\ ~ FitsInOne(c, size) => size # 0
  BY TransportAssumption, NamesAssumption
  DEF FirstCapacity, SubsequentCapacity, SaturatingSub, FitsInOne,
      FRAGMENT_HEADER_SIZE, SHORT_HEADER_SIZE

\* The slice a call is at: it is not empty, it begins after a fragment's worth for
\* each fragment before, and it ends the payload exactly if it is the last one.
LEMMA Slice ==
  ASSUME NEW o, CallOK(o)
  PROVE  /\ ChunkEnd(o) \in Nat
         /\ o.offset < ChunkEnd(o) /\ ChunkEnd(o) <= Len(o.data)
         /\ o.frag_num = 0 <=> o.offset = 0
         /\ o.frag_num + 1 = o.n_fragments <=> ChunkEnd(o) = Len(o.data)
         /\ o.frag_num + 1 # o.n_fragments =>
              ChunkEnd(o) = FirstCapacity(o.channel) + o.frag_num * SubsequentCapacity
         /\ Len(Chunk(o)) = ChunkEnd(o) - o.offset
<1> DEFINE F == FirstCapacity(o.channel)
           S == SubsequentCapacity
           size == Len(o.data)
           k == o.frag_num
           r == SaturatingSub(size, F)
           q == (r + S - 1) \div S
<1>1. /\ F \in Nat \ {0} /\ S \in Nat \ {0} /\ size \in Nat \ {0} /\ k \in Nat
      /\ o.data \in Seq(Cells) /\ o.channel \in Channels
      /\ o.n_fragments = 1 + q /\ k < o.n_fragments
      /\ o.offset = IF k = 0 THEN 0 ELSE F + (k - 1) * S
  BY Capacities DEF CallOK, Calls, Count
<1>2. r \in Nat /\ r = IF size >= F THEN size - F ELSE 0
  BY <1>1 DEF SaturatingSub
<1>3. ChunkEnd(o) = IF k = 0 THEN Least(F, size) ELSE Least(o.offset + S, size)
  BY DEF ChunkEnd
<1> HIDE DEF F, S, size, k, r
<1>4. q \in Nat /\ k <= q
  BY <1>1, <1>2, RoundedUp
<1>5. q <= k <=> r <= k * S
  BY <1>1, <1>2, RoundedUp
<1>6. q <= k - 1 <=> r <= (k - 1) * S
  BY <1>1, <1>2, RoundedUp
<1> HIDE DEF q
<1>7. k * S \in Nat /\ (k - 1) * S = k * S - S /\ (k # 0 => (k - 1) * S >= 0)
  <2>1. k # 0 => 0 * S <= (k - 1) * S
    BY <1>1, Monotone
  <2> QED
    BY <1>1, <2>1
<1>8. CASE k = 0
  <2>1. q = 0 <=> size <= F
    BY <1>1, <1>2, <1>4, <1>5, <1>8
  <2>2. /\ ChunkEnd(o) \in Nat /\ 0 < ChunkEnd(o) /\ ChunkEnd(o) <= size
        /\ ChunkEnd(o) = size <=> size <= F
        /\ ~(size <= F) => ChunkEnd(o) = F
    BY <1>1, <1>3, <1>8 DEF Least
  <2>3. Len(Chunk(o)) = ChunkEnd(o) - o.offset
    BY <1>1, <1>8, <2>2 DEF Chunk, size
  <2> QED
    BY <1>1, <1>4, <1>7, <1>8, <2>1, <2>2, <2>3 DEF size, k, F, S
<1>9. CASE k # 0
  <2>1. r > (k - 1) * S
    BY <1>1, <1>2, <1>4, <1>6, <1>7
  <2>2. r = size - F /\ size > o.offset /\ o.offset \in Nat \ {0} /\ o.offset + S = F + k * S
    BY <1>1, <1>2, <1>7, <1>9, <2>1
  <2>3. q = k <=> size <= F + k * S
    BY <1>1, <1>2, <1>4, <1>5, <1>7, <2>2
  <2>4. /\ ChunkEnd(o) \in Nat /\ o.offset < ChunkEnd(o) /\ ChunkEnd(o) <= size
        /\ ChunkEnd(o) = size <=> size <= F + k * S
        /\ ~(size <= F + k * S) => ChunkEnd(o) = F + k * S
    BY <1>1, <1>3, <1>7, <1>9, <2>2 DEF Least
  <2>5. Len(Chunk(o)) = ChunkEnd(o) - o.offset
    BY <1>1, <2>2, <2>4 DEF Chunk, size
  <2> QED
    <3>1. k < o.n_fragments /\ (k = 0 <=> o.offset = 0) /\ o.offset < ChunkEnd(o)
      BY <1>1, <1>9, <2>2, <2>4
    <3>2. k + 1 = o.n_fragments <=> ChunkEnd(o) = size
      BY <1>1, <1>4, <2>3, <2>4
    <3> QED
      BY <1>1, <1>4, <1>9, <2>2, <2>4, <2>5, <3>1, <3>2 DEF size, k, F, S
<1> QED
  BY <1>8, <1>9

-----------------------------------------------------------------------------
(* The calls of send_fragmented.                                           *)

\* The programs send only what is not truncated.
Untruncated == Workloads \subseteq [Senders -> Seq(Sendable)]

\* Taking the next message leaves a well-formed message in hand and others to send.
LEMMA EnterTypes ==
  ASSUME CallInv, NEW s \in Senders, Enter(s)
  PROVE  /\ workload' = workload /\ todo' \in [Senders -> Seq(Sendable)]
         /\ seq_counter' \in [Senders -> Int] /\ seq_counter[s] \in Int
         /\ Head(todo[s]) \in Sendable
         /\ Upcoming(s).channel = Head(todo[s]).channel
         /\ Upcoming(s).data \in Seq(Cells)
         /\ Len(Upcoming(s).data) = Head(todo[s]).size
<1>1. /\ todo[s] \in Seq(Sendable) /\ todo[s] # <<>> /\ workload[s] \in Seq(Sendable)
      /\ seq_counter[s] \in Int
  BY DEF CallInv, Enter
<1>2. /\ Head(todo[s]) \in Sendable /\ Tail(todo[s]) \in Seq(Sendable)
      /\ Head(todo[s]).size \in Nat /\ Position(s) \in Int
  BY <1>1 DEF Sendable, Position
<1>3. todo' \in [Senders -> Seq(Sendable)]
  BY <1>2 DEF CallInv, Enter
<1>4. seq_counter' \in [Senders -> Int]
  <2> DEFINE next == (seq_counter[s] + 1) % U32
  <2>1. next \in Int
    BY <1>1, TransportAssumption
  <2>2. seq_counter' = [seq_counter EXCEPT ![s] = next]
    BY DEF Enter
  <2> HIDE DEF next
  <2> QED
    BY <2>1, <2>2 DEF CallInv
<1>5. /\ BytesOf(s, Position(s), Head(todo[s]).size) \in Seq(Cells)
      /\ Len(BytesOf(s, Position(s), Head(todo[s]).size)) = Head(todo[s]).size
  BY <1>2 DEF BytesOf, Cells
<1> QED
  BY <1>1, <1>2, <1>3, <1>4, <1>5 DEF Enter, Upcoming

\* A call starts with its first fragment.
LEMMA StartsOK ==
  ASSUME CallInv, NEW s \in Senders, SendFragmented(s)
  PROVE  CallInv'
<1> DEFINE c == Upcoming(s).channel
           d == Upcoming(s).data
           n == NFragments(c, Len(d))
           o == [channel |-> c, data |-> d, sequence_number |-> seq_counter[s],
                 n_fragments |-> n, frag_num |-> 0, offset |-> 0]
<1>1. /\ Enter(s) /\ ~ FitsInOne(c, Len(d))
      /\ FirstCapacity(c) # 0 /\ SubsequentCapacity # 0
      /\ outgoing' = [outgoing EXCEPT ![s] = IF n = 0 THEN Idle ELSE o]
  BY DEF SendFragmented
<1>2. /\ workload' = workload /\ todo' \in [Senders -> Seq(Sendable)]
      /\ seq_counter' \in [Senders -> Int] /\ seq_counter[s] \in Int
      /\ Head(todo[s]) \in Sendable
      /\ c = Head(todo[s]).channel /\ d \in Seq(Cells) /\ Len(d) = Head(todo[s]).size
  BY <1>1, EnterTypes
<1> HIDE DEF c, d
<1>3. /\ c \in Channels /\ Len(d) \in Nat /\ Count(c, Len(d)) < U16
  BY <1>1, <1>2 DEF Sendable
<1>4. Len(d) # 0 /\ Count(c, Len(d)) \in Nat /\ Count(c, Len(d)) >= 1
  <2>1. FirstCapacity(c) \in Nat /\ SubsequentCapacity \in Nat \ {0} /\ Len(d) # 0
    BY <1>1, <1>3, Capacities
  <2>2. SaturatingSub(Len(d), FirstCapacity(c)) \in Nat
    BY <1>3, <2>1 DEF SaturatingSub
  <2> QED
    BY <2>1, <2>2, RoundedUp DEF Count
<1>5. n = Count(c, Len(d))
  BY <1>3, <1>4, TransportAssumption DEF NFragments, Count
<1> HIDE DEF n
<1>6. CallOK(o)
  BY <1>1, <1>2, <1>3, <1>4, <1>5 DEF CallOK, Calls
<1> HIDE DEF o
<1>7. outgoing' = [t \in Senders |-> outgoing'[t]]
  BY <1>1 DEF CallInv
<1>8. ASSUME NEW t \in Senders, outgoing'[t] \notin {Idle, Down}
      PROVE  CallOK(outgoing'[t])
  BY <1>1, <1>6, <1>8 DEF CallInv
<1>9. \A t \in Senders : outgoing'[t] \notin {Idle, Down} => CallOK(outgoing[t])'
  BY <1>8 DEF CallOK, Calls, Count, SaturatingSub, FirstCapacity, SubsequentCapacity
<1> QED
  BY <1>2, <1>7, <1>9 DEF CallInv

\* The next fragment begins where the one before ended.
LEMMA ContinuesOK ==
  ASSUME CallInv, NEW s \in Senders, SendFragment(s)
  PROVE  CallInv'
<1> DEFINE o == outgoing[s]
           p == [o EXCEPT !.frag_num = @ + 1, !.offset = @ + Len(Chunk(o))]
<1>1. /\ o \notin {Idle, Down}
      /\ outgoing' = [outgoing EXCEPT ![s] = IF o.frag_num + 1 = o.n_fragments THEN Idle ELSE p]
      /\ UNCHANGED <<workload, todo, seq_counter>>
  BY DEF SendFragment
<1>2. CallOK(o)
  BY <1>1 DEF CallInv
<1> HIDE DEF o
<1>3. ASSUME o.frag_num + 1 # o.n_fragments
      PROVE  CallOK(p)
  <2>1. /\ o \in Calls /\ o.frag_num \in Nat /\ o.n_fragments \in Nat /\ o.offset \in Nat
        /\ o.frag_num < o.n_fragments
    BY <1>2 DEF CallOK, Calls
  <2>2. /\ ChunkEnd(o) \in Nat /\ Len(Chunk(o)) = ChunkEnd(o) - o.offset
        /\ ChunkEnd(o) = FirstCapacity(o.channel) + o.frag_num * SubsequentCapacity
    BY <1>2, <1>3, Slice
  <2>3. o.offset + Len(Chunk(o)) = ChunkEnd(o)
    BY <2>1, <2>2
  <2> DEFINE k == o.frag_num + 1
             e == ChunkEnd(o)
  <2>4. p = [o EXCEPT !.frag_num = k, !.offset = e]
    BY <2>3
  <2>5. k \in Nat /\ e \in Nat
    BY <2>1, <2>2
  <2> HIDE DEF k, e, p
  <2>6. /\ p \in Calls /\ p.channel = o.channel /\ p.data = o.data
        /\ p.n_fragments = o.n_fragments /\ p.frag_num = k /\ p.offset = e
    BY <2>1, <2>4, <2>5 DEF Calls
  <2>7. /\ p \in Calls /\ p.channel = o.channel /\ p.data = o.data
        /\ p.n_fragments = o.n_fragments /\ p.frag_num = o.frag_num + 1
        /\ p.offset = ChunkEnd(o)
    BY <2>6 DEF k, e
  <2> QED
    BY <1>2, <1>3, <2>1, <2>2, <2>7 DEF CallOK
<1>4. outgoing' = [t \in Senders |-> outgoing'[t]]
  BY <1>1 DEF CallInv
<1> HIDE DEF p
<1>5. ASSUME NEW t \in Senders, outgoing'[t] \notin {Idle, Down}
      PROVE  CallOK(outgoing'[t])
  BY <1>1, <1>3, <1>5 DEF CallInv
<1>6. \A t \in Senders : outgoing'[t] \notin {Idle, Down} => CallOK(outgoing[t])'
  BY <1>5 DEF CallOK, Calls, Count, SaturatingSub, FirstCapacity, SubsequentCapacity
<1> QED
  BY <1>1, <1>4, <1>6 DEF CallInv

\* A program that leaves send, dies or starts again is in no call.
LEMMA LeavesOK ==
  ASSUME CallInv, NEW s \in Senders, NEW gone \in {Idle, Down},
         outgoing' = [outgoing EXCEPT ![s] = gone],
         UNCHANGED <<workload, todo>>, seq_counter' \in [Senders -> Int]
  PROVE  CallInv'
  BY DEF CallInv, CallOK, Calls, Count, SaturatingSub, FirstCapacity, SubsequentCapacity

\* One step per action of Next.
LEMMA NextCallInv == CallInv /\ [Next]_vars => CallInv'
<1> SUFFICES ASSUME CallInv, [Next]_vars
             PROVE  CallInv'
  OBVIOUS
<1>0. UNCHANGED sender_vars => CallInv'
  BY DEF sender_vars, CallInv, CallOK, Calls, Count, SaturatingSub, FirstCapacity,
         SubsequentCapacity
<1>1. ASSUME NEW s \in Senders, Enter(s), UNCHANGED outgoing
      PROVE  CallInv'
  BY <1>1, EnterTypes
  DEF CallInv, CallOK, Calls, Count, SaturatingSub, FirstCapacity, SubsequentCapacity
<1>2. ASSUME NEW s \in Senders, SendStep(s)
      PROVE  CallInv'
  <2>1. CASE SendShort(s)
    BY <1>1, <2>1 DEF SendShort
  <2>2. CASE SendRefused(s)
    BY <1>1, <2>2 DEF SendRefused
  <2>3. CASE SendFragmented(s)
    BY <2>3, StartsOK
  <2>4. CASE SendFragment(s)
    BY <2>4, ContinuesOK
  <2>5. CASE SendFails(s)
    BY <2>5, LeavesOK DEF SendFails, CallInv
  <2> QED
    BY <1>2, <2>1, <2>2, <2>3, <2>4, <2>5 DEF SendStep
<1>3. ASSUME NEW s \in Senders, Crash(s)
      PROVE  CallInv'
  BY <1>3, LeavesOK DEF Crash, CallInv
<1>4. ASSUME NEW s \in Senders, Restart(s)
      PROVE  CallInv'
  <2>1. seq_counter' \in [Senders -> Int]
    BY <1>4 DEF Restart, CallInv
  <2> QED
    BY <1>4, <2>1, LeavesOK DEF Restart
<1>5. ASSUME NEW d \in wire, Receive(d) \/ ReceiveCopy(d)
      PROVE  CallInv'
  BY <1>0, <1>5 DEF Receive, ReceiveCopy, recv
<1>6. CASE ReceiveStray
  BY <1>0, <1>6 DEF ReceiveStray, recv
<1>7. CASE Tick
  BY <1>0, <1>7 DEF Tick
<1>8. CASE UNCHANGED vars
  BY <1>0, <1>8 DEF vars
<1> QED
  BY <1>2, <1>3, <1>4, <1>5, <1>6, <1>7, <1>8 DEF Next

\* multicast.rs:198-232: unless the u16 truncates the number of fragments, every
\* slice of the payload is in bounds and not empty, it starts where the one before
\* ended, and the last one ends the payload; whatever the MTU, the length of the
\* name and that of the payload.
THEOREM FragmentsAlwaysCover ==
  ASSUME Untruncated
  PROVE  Spec => []FragmentsCoverPayload
<1>1. Init => CallInv
  <2> SUFFICES ASSUME Init
               PROVE  CallInv
    OBVIOUS
  <2>1. workload \in [Senders -> Seq(Sendable)]
    BY Untruncated DEF Init, Untruncated
  <2> QED
    BY <2>1 DEF Init, CallInv
<1>2. CallInv /\ [Next]_vars => CallInv'
  BY NextCallInv
<1>3. CallInv => FragmentsCoverPayload
  <2> SUFFICES ASSUME CallInv, NEW s \in Senders, outgoing[s] \notin {Idle, Down}
               PROVE  LET o == outgoing[s] IN
                      /\ o.frag_num < o.n_fragments
                      /\ o.frag_num = 0 <=> o.offset = 0
                      /\ o.offset < ChunkEnd(o)
                      /\ o.frag_num + 1 = o.n_fragments <=> ChunkEnd(o) = Len(o.data)
    BY DEF FragmentsCoverPayload
  <2>1. CallOK(outgoing[s])
    BY DEF CallInv
  <2>2. outgoing[s].frag_num < outgoing[s].n_fragments
    BY <2>1 DEF CallOK
  <2> QED
    BY <2>1, <2>2, Slice
<1> QED
  BY <1>1, <1>2, <1>3, PTL DEF Spec

-----------------------------------------------------------------------------
(* Messages and their fragments.                                           *)

\* The messages that such programs send.
Sound ==
  {m \in [channel : Channels, sequence_number : SeqNumbers, data : Seq(Cells)] :
     /\ Len(m.data) < U32
     /\ FirstCapacity(m.channel) # 0 /\ SubsequentCapacity # 0
          => Count(m.channel, Len(m.data)) < U16}

Fits(m) == FitsInOne(m.channel, Len(m.data))
Splits(m) == ~ Fits(m) /\ FirstCapacity(m.channel) # 0 /\ SubsequentCapacity # 0
Parts(m) == Count(m.channel, Len(m.data))

\* The call that sends m, at its fragment j; and that fragment.
Call(m, j) ==
  [channel |-> m.channel, data |-> m.data, sequence_number |-> m.sequence_number,
   n_fragments |-> Parts(m), frag_num |-> j,
   offset |-> IF j = 0 THEN 0 ELSE FirstCapacity(m.channel) + (j - 1) * SubsequentCapacity]
Part(m, j) == FragmentOf(Call(m, j))

\* Where in the payload fragment j is.
Span(m, j) == Call(m, j).offset + 1 .. ChunkEnd(Call(m, j))

-----------------------------------------------------------------------------
(* What is encoded is parsed.                                              *)

\* What stands before and after a place in a sequence.
LEMMA AfterConcat ==
  ASSUME NEW T, NEW a \in Seq(T), NEW b \in Seq(T)
  PROVE  After(a \o b, Len(a)) = b /\ SubSeq(a \o b, 1, Len(a)) = a
<1> DEFINE x == a \o b
<1>1. /\ x \in Seq(T) /\ Len(x) = Len(a) + Len(b)
      /\ Len(a) \in Nat /\ Len(b) \in Nat
      /\ \A i \in 1 .. Len(a) + Len(b) :
           x[i] = IF i <= Len(a) THEN a[i] ELSE b[i - Len(a)]
  BY ConcatProperties, LenProperties
<1>2. \A i \in 1 .. Len(x) : x[i] \in T
  BY <1>1, ElementOfSeq
<1> HIDE DEF x
<1>3. SubSeq(x, Len(a) + 1, Len(x)) = b
  <2> DEFINE y == SubSeq(x, Len(a) + 1, Len(x))
  <2>1. /\ y \in Seq(T) /\ Len(y) = Len(b)
        /\ \A i \in 1 .. Len(b) : y[i] = x[Len(a) + i]
    <3>1. \A i \in Len(a) + 1 .. Len(x) : x[i] \in T
      BY <1>1, <1>2
    <3>2. /\ y \in Seq(T)
          /\ Len(y) = IF Len(a) + 1 <= Len(x) THEN Len(x) - (Len(a) + 1) + 1 ELSE 0
          /\ \A i \in 1 .. Len(x) - (Len(a) + 1) + 1 : y[i] = x[Len(a) + 1 + i - 1]
      BY <1>1, <3>1, SubSeqProperties
    <3> QED
      BY <1>1, <3>2
  <2> HIDE DEF y
  <2>2. ASSUME NEW i \in 1 .. Len(y)
        PROVE  y[i] = b[i]
    <3>1. y[i] = x[Len(a) + i]
      BY <2>1
    <3>2. /\ Len(a) + i \in 1 .. Len(a) + Len(b) /\ ~ (Len(a) + i <= Len(a))
          /\ (Len(a) + i) - Len(a) = i
      BY <1>1, <2>1
    <3>3. x[Len(a) + i] = b[(Len(a) + i) - Len(a)]
      BY <1>1, <3>2
    <3> QED
      BY <3>1, <3>2, <3>3
  <2>3. y = b
    BY <2>1, <2>2, SeqEqual
  <2> QED
    BY <2>3 DEF y
<1>4. SubSeq(x, 1, Len(a)) = a
  <2> DEFINE y == SubSeq(x, 1, Len(a))
  <2>1. /\ y \in Seq(T) /\ Len(y) = Len(a)
        /\ \A i \in 1 .. Len(a) : y[i] = x[i]
    <3>1. \A i \in 1 .. Len(a) : x[i] \in T
      BY <1>1, <1>2
    <3>2. /\ y \in Seq(T)
          /\ Len(y) = IF 1 <= Len(a) THEN Len(a) - 1 + 1 ELSE 0
          /\ \A i \in 1 .. Len(a) - 1 + 1 : y[i] = x[1 + i - 1]
      BY <1>1, <3>1, SubSeqProperties
    <3> QED
      BY <1>1, <3>2
  <2> HIDE DEF y
  <2>2. \A i \in 1 .. Len(y) : y[i] = a[i]
    BY <1>1, <2>1
  <2>3. y = a
    BY <2>1, <2>2, SeqEqual
  <2> QED
    BY <2>3 DEF y
<1> QED
  BY <1>3, <1>4 DEF After, x

\* The name at the head of rest ends at e.
EndsAt(rest, e) == NameEnd(rest) = {e}

\* A name ends at the zero byte put after it, and the data follows.
LEMMA NameThenData ==
  ASSUME NEW T, NEW c \in Seq(T), NEW d \in Seq(T), Zero \in T,
         \A i \in 1 .. Len(c) : c[i] \notin {Zero, NotUtf8}
  PROVE  LET rest == c \o (<<Zero>> \o d) IN
         /\ rest \in Seq(T) /\ EndsAt(rest, Len(c) + 1)
         /\ SubSeq(rest, 1, Len(c)) = c /\ After(rest, Len(c) + 1) = d
<1> DEFINE z == <<Zero>>
           t == z \o d
           rest == c \o t
<1>1. z \in Seq(T) /\ Len(z) = 1 /\ z[1] = Zero
  OBVIOUS
<1>2. /\ t \in Seq(T) /\ Len(t) = 1 + Len(d) /\ Len(d) \in Nat /\ Len(c) \in Nat
      /\ t[1] = Zero
  BY <1>1, ConcatProperties, LenProperties
<1>3. /\ rest \in Seq(T) /\ Len(rest) = Len(c) + Len(t)
      /\ \A i \in 1 .. Len(c) + Len(t) :
           rest[i] = IF i <= Len(c) THEN c[i] ELSE t[i - Len(c)]
  BY <1>2, ConcatProperties
<1>4. /\ \A i \in 1 .. Len(c) : rest[i] = c[i]
      /\ rest[Len(c) + 1] = Zero /\ Len(c) + 1 \in 1 .. Len(rest)
  BY <1>2, <1>3
<1>5. SubSeq(rest, 1, Len(c)) = c
  BY <1>2, AfterConcat
<1>6. After(rest, Len(c) + 1) = d
  <2>1. rest = (c \o z) \o d
    BY <1>1, ConcatAssociative
  <2>2. c \o z \in Seq(T) /\ Len(c \o z) = Len(c) + 1
    BY <1>1, ConcatProperties
  <2> HIDE DEF rest
  <2> QED
    BY <2>1, <2>2, AfterConcat
<1> HIDE DEF rest
<1>7. EndsName(rest, Len(c) + 1)
  BY <1>2, <1>4 DEF EndsName
<1>8. ASSUME NEW i \in 1 .. Len(rest), EndsName(rest, i)
      PROVE  i = Len(c) + 1
  <2>1. ~ (i <= Len(c))
    BY <1>2, <1>4, <1>8 DEF EndsName
  <2>2. ~ (i > Len(c) + 1)
    BY <1>2, <1>4, <1>8 DEF EndsName
  <2> QED
    BY <1>2, <1>3, <2>1, <2>2
<1>9. NameEnd(rest) = {Len(c) + 1}
  BY <1>4, <1>7, <1>8 DEF NameEnd
<1> QED
  BY <1>3, <1>5, <1>6, <1>9 DEF rest, EndsAt

\* The parts of a datagram, in whatever order they are put together.
Over(T, h, c, z, d) == h \in Seq(T) /\ c \in Seq(T) /\ z \in Seq(T) /\ d \in Seq(T)

\* Both ways in which the encoders append the parts are the parts one after the other.
Regrouped(h, c, z, d) ==
  /\ h \o c \o z \o d = h \o (c \o (z \o d))
  /\ h \o (c \o z) \o d = h \o (c \o (z \o d))

\* Appending is associative.
LEMMA Regroup ==
  ASSUME NEW T, NEW h, NEW c, NEW z, NEW d, Over(T, h, c, z, d)
  PROVE  Regrouped(h, c, z, d)
<1> DEFINE S == Seq(T)
           join(r, s) == r \o s
<1>1. \A r, s, t \in S : join(join(r, s), t) = join(r, join(s, t))
  BY ConcatAssociative
<1>2. h \in S /\ c \in S /\ z \in S /\ d \in S /\ join(c, z) \in S
  BY ConcatProperties DEF Over
<1> HIDE DEF S, join
<1>3. join(join(h, c), z) = join(h, join(c, z)) /\ join(join(c, z), d) = join(c, join(z, d))
  BY ONLY <1>1, <1>2
<1>4. join(join(h, join(c, z)), d) = join(h, join(join(c, z), d))
  BY ONLY <1>1, <1>2
<1> QED
  BY ONLY <1>3, <1>4 DEF join, Regrouped

\* What a datagram's cells may be.
CellsOf(c) ==
  {MAGIC_SHORT, MAGIC_FRAGMENT, Zero} \cup Int \cup Cells \cup {c[i] : i \in DOMAIN c}

\* The cells of a datagram that carries the name c.
LEMMA CellsTyped ==
  ASSUME NEW c \in Channels, NEW d \in Seq(Cells)
  PROVE  /\ c \in Seq(CellsOf(c)) /\ d \in Seq(CellsOf(c))
         /\ Zero \in CellsOf(c) /\ <<Zero>> \in Seq(CellsOf(c))
<1> DEFINE T == CellsOf(c)
<1>1. Cells \subseteq T /\ {c[i] : i \in DOMAIN c} \subseteq T /\ Zero \in T
  BY DEF CellsOf
<1>2. c \in Seq({c[i] : i \in DOMAIN c})
  BY NamesAssumption
<1> HIDE DEF T
<1>3. c \in Seq(T)
  BY <1>1, <1>2, SeqMonotonic
<1>4. d \in Seq(T)
  BY <1>1, SeqMonotonic
<1> QED
  BY <1>1, <1>3, <1>4 DEF T

\* The header's cells come first.
LEMMA HeaderCells ==
  ASSUME NEW T, NEW h \in Seq(T), NEW r \in Seq(T), Len(h) >= 2
  PROVE  /\ Len(h \o r) \in Nat /\ Len(h \o r) >= Len(h) /\ h \o r # <<>>
         /\ \A i \in 1 .. Len(h) : (h \o r)[i] = h[i]
<1> DEFINE x == h \o r
<1>1. /\ x \in Seq(T) /\ Len(x) = Len(h) + Len(r) /\ Len(h) \in Nat /\ Len(r) \in Nat
      /\ \A i \in 1 .. Len(h) + Len(r) : x[i] = IF i <= Len(h) THEN h[i] ELSE r[i - Len(h)]
  BY ConcatProperties, LenProperties
<1> HIDE DEF x
<1>2. x # <<>>
  BY <1>1
<1>3. \A i \in 1 .. Len(h) : x[i] = h[i]
  BY <1>1
<1> QED
  BY <1>1, <1>2, <1>3 DEF x

\* Both parsers, of a datagram with a header and a name that ends at e.
LEMMA ShortParsed ==
  ASSUME NEW buf, Len(buf) \in Nat, Len(buf) >= 2,
         NEW e, EndsAt(After(buf, 2), e)
  PROVE  parse_short_message(buf) =
           [sequence_number |-> buf[2], channel |-> SubSeq(After(buf, 2), 1, e - 1),
            data |-> After(After(buf, 2), e)]
<1>1. (CHOOSE i \in NameEnd(After(buf, 2)) : TRUE) = e
  BY DEF EndsAt
<1>2. ~ (Len(buf) < SHORT_HEADER_SIZE) /\ NameEnd(After(buf, 2)) # {} /\ SHORT_HEADER_SIZE = 2
  BY DEF SHORT_HEADER_SIZE, EndsAt
<1> QED
  BY <1>1, <1>2, Zenon DEF parse_short_message

\* The byte put after a name, and the two headers.
Stop == <<Zero>>
ShortHeader(q) == <<MAGIC_SHORT, q>>
FragmentHeader(q, size, o, j, n) == <<MAGIC_FRAGMENT, q, size, o, j, n>>

\* A header, a name, and data, put together and taken apart.
LEMMA TakenApart ==
  ASSUME NEW c \in Channels, NEW d \in Seq(Cells), NEW h \in Seq(CellsOf(c)), Len(h) >= 2
  PROVE  LET rest == c \o (Stop \o d)
             buf  == h \o rest
         IN  /\ Len(buf) \in Nat /\ Len(buf) >= Len(h) /\ buf # <<>>
             /\ \A i \in 1 .. Len(h) : buf[i] = h[i]
             /\ After(buf, Len(h)) = rest /\ EndsAt(rest, Len(c) + 1)
             /\ SubSeq(rest, 1, Len(c) + 1 - 1) = c /\ After(rest, Len(c) + 1) = d
             /\ h \o c \o Stop \o d = buf /\ h \o (c \o Stop) \o d = buf
<1>1. PICK T : T = CellsOf(c)
  OBVIOUS
<1>2. c \in Seq(T) /\ d \in Seq(T) /\ Stop \in Seq(T) /\ Zero \in T /\ h \in Seq(T)
  BY <1>1, CellsTyped DEF Stop
<1>3. \A i \in 1 .. Len(c) : c[i] \notin {Zero, NotUtf8}
  BY NamesAssumption
<1>4. PICK rest : rest = c \o (Stop \o d)
  OBVIOUS
<1>5. /\ rest \in Seq(T) /\ EndsAt(rest, Len(c) + 1)
      /\ SubSeq(rest, 1, Len(c)) = c /\ After(rest, Len(c) + 1) = d
  BY <1>2, <1>3, <1>4, NameThenData DEF Stop
<1>6. After(h \o rest, Len(h)) = rest
  BY <1>2, <1>5, AfterConcat
<1>7. /\ Len(h \o rest) \in Nat /\ Len(h \o rest) >= Len(h) /\ h \o rest # <<>>
      /\ \A i \in 1 .. Len(h) : (h \o rest)[i] = h[i]
  BY <1>2, <1>5, HeaderCells
<1>8. Len(c) + 1 - 1 = Len(c)
  BY <1>2, LenProperties
<1>9. h \o c \o Stop \o d = h \o rest /\ h \o (c \o Stop) \o d = h \o rest
  <2>1. PICK z : z = Stop /\ Over(T, h, c, z, d)
    BY <1>2 DEF Over
  <2>2. Regrouped(h, c, z, d)
    BY ONLY <2>1, Regroup
  <2>3. /\ h \o c \o Stop \o d = h \o (c \o (Stop \o d))
        /\ h \o (c \o Stop) \o d = h \o (c \o (Stop \o d))
    BY <2>1, <2>2 DEF Regrouped
  <2> QED
    BY <1>4, <2>3
<1> QED
  BY <1>4, <1>5, <1>6, <1>7, <1>8, <1>9

\* parse_short reads back what encode_short_message wrote.
LEMMA ShortCells ==
  ASSUME NEW c \in Channels, NEW d \in Seq(Cells), NEW q \in Int
  PROVE  parse_datagram(ShortHeader(q) \o c \o Stop \o d) =
           [sequence_number |-> q, channel |-> c, data |-> d]
<1>1. PICK T : T = CellsOf(c)
  OBVIOUS
<1>2. PICK h : h = ShortHeader(q)
  OBVIOUS
<1>3. h \in Seq(T) /\ Len(h) = 2 /\ h[1] = MAGIC_SHORT /\ h[2] = q
  <2>1. MAGIC_SHORT \in T /\ q \in T
    BY <1>1 DEF CellsOf
  <2> QED
    BY <1>2, <2>1 DEF ShortHeader
<1>4. h \in Seq(CellsOf(c)) /\ Len(h) >= 2
  BY <1>1, <1>3
<1>5. PICK rest : rest = c \o (Stop \o d)
  OBVIOUS
<1>6. PICK buf : buf = h \o rest
  OBVIOUS
<1>7. /\ Len(buf) \in Nat /\ Len(buf) >= Len(h) /\ buf # <<>>
      /\ \A i \in 1 .. Len(h) : buf[i] = h[i]
      /\ After(buf, Len(h)) = rest /\ EndsAt(rest, Len(c) + 1)
      /\ SubSeq(rest, 1, Len(c) + 1 - 1) = c /\ After(rest, Len(c) + 1) = d
      /\ h \o c \o Stop \o d = buf
  BY <1>4, <1>5, <1>6, TakenApart
<1>8. Len(buf) >= 2 /\ buf[1] = MAGIC_SHORT /\ buf[2] = q
  BY <1>3, <1>7
<1>9. PICK e : e = Len(c) + 1
  OBVIOUS
<1>10. After(buf, 2) = rest /\ EndsAt(After(buf, 2), e)
  BY <1>3, <1>7, <1>9
<1>11. parse_short_message(buf) =
         [sequence_number |-> buf[2], channel |-> SubSeq(After(buf, 2), 1, e - 1),
          data |-> After(After(buf, 2), e)]
  BY <1>7, <1>8, <1>10, ShortParsed
<1>12. parse_short_message(buf) = [sequence_number |-> q, channel |-> c, data |-> d]
  <2>1. SubSeq(rest, 1, e - 1) = c /\ After(rest, e) = d
    BY <1>7, <1>9
  <2> QED
    BY <1>8, <1>10, <1>11, <2>1, Zenon
<1>13. parse_datagram(buf) = parse_short_message(buf)
  BY <1>7, <1>8, MagicAssumption DEF parse_datagram
<1> QED
  BY <1>2, <1>7, <1>12, <1>13

\* protocol.rs:60-84, 122-138: a short message, encoded and parsed, is itself, for
\* every name without a zero byte and every payload.
THEOREM ShortRoundTrip ==
  ASSUME NEW m \in Sound
  PROVE  parse_datagram(encode_short_message(m)) = m
<1>1. PICK c \in Channels, q \in Int, d \in Seq(Cells) :
        m = [channel |-> c, sequence_number |-> q, data |-> d]
  BY TransportAssumption DEF Sound, SeqNumbers
<1>2. encode_short_message(m) = ShortHeader(q) \o c \o Stop \o d
  BY <1>1 DEF encode_short_message, ShortHeader, Stop
<1> QED
  BY <1>1, <1>2, ShortCells

\* Fragments as they are encoded: the first one, and only it, has a name.
Fragment ==
  {f \in [sequence_number : Int, payload_size : Int, fragment_offset : Int,
          fragment_number : Int, n_fragments : Int,
          channel : Channels \cup {NoChannel}, data : Seq(Cells)] :
     f.channel # NoChannel <=> f.fragment_number = 0}

\* parse_fragment, when the name ends at e.
LEMMA FirstParsed ==
  ASSUME NEW buf, Len(buf) \in Nat, Len(buf) >= 6, buf[5] = 0,
         NEW e, EndsAt(After(buf, 6), e)
  PROVE  parse_fragment(buf) =
           FragmentPacket(buf, SubSeq(After(buf, 6), 1, e - 1), After(After(buf, 6), e))
<1>1. (CHOOSE i \in NameEnd(After(buf, 6)) : TRUE) = e
  BY DEF EndsAt
<1>2. /\ ~ (Len(buf) < FRAGMENT_HEADER_SIZE) /\ NameEnd(After(buf, 6)) # {}
      /\ FRAGMENT_HEADER_SIZE = 6
  BY DEF FRAGMENT_HEADER_SIZE, EndsAt
<1> QED
  BY <1>1, <1>2, Zenon DEF parse_fragment

\* parse_fragment reads back the first fragment, which carries the name.
LEMMA FirstCells ==
  ASSUME NEW c \in Channels, NEW d \in Seq(Cells),
         NEW q \in Int, NEW size \in Int, NEW o \in Int, NEW n \in Int
  PROVE  parse_datagram(FragmentHeader(q, size, o, 0, n) \o (c \o Stop) \o d) =
           [sequence_number |-> q, payload_size |-> size, fragment_offset |-> o,
            fragment_number |-> 0, n_fragments |-> n, channel |-> c, data |-> d]
<1>1. PICK T : T = CellsOf(c)
  OBVIOUS
<1>2. PICK h : h = FragmentHeader(q, size, o, 0, n)
  OBVIOUS
<1>3. /\ h \in Seq(T) /\ Len(h) = 6
      /\ h[1] = MAGIC_FRAGMENT /\ h[2] = q /\ h[3] = size /\ h[4] = o /\ h[5] = 0 /\ h[6] = n
  <2>1. MAGIC_FRAGMENT \in T /\ q \in T /\ size \in T /\ o \in T /\ 0 \in T /\ n \in T
    BY <1>1 DEF CellsOf
  <2> QED
    BY <1>2, <2>1 DEF FragmentHeader
<1>4. h \in Seq(CellsOf(c)) /\ Len(h) >= 2
  BY <1>1, <1>3
<1>5. PICK rest : rest = c \o (Stop \o d)
  OBVIOUS
<1>6. PICK buf : buf = h \o rest
  OBVIOUS
<1>7. /\ Len(buf) \in Nat /\ Len(buf) >= Len(h) /\ buf # <<>>
      /\ \A i \in 1 .. Len(h) : buf[i] = h[i]
      /\ After(buf, Len(h)) = rest /\ EndsAt(rest, Len(c) + 1)
      /\ SubSeq(rest, 1, Len(c) + 1 - 1) = c /\ After(rest, Len(c) + 1) = d
      /\ h \o (c \o Stop) \o d = buf
  BY <1>4, <1>5, <1>6, TakenApart
<1>8. /\ Len(buf) >= 6 /\ buf[1] = MAGIC_FRAGMENT /\ buf[2] = q /\ buf[3] = size
      /\ buf[4] = o /\ buf[5] = 0 /\ buf[6] = n
  BY <1>3, <1>7
<1>9. PICK e : e = Len(c) + 1
  OBVIOUS
<1>10. After(buf, 6) = rest /\ EndsAt(After(buf, 6), e)
  BY <1>3, <1>7, <1>9
<1>11. parse_fragment(buf) =
         FragmentPacket(buf, SubSeq(After(buf, 6), 1, e - 1), After(After(buf, 6), e))
  BY <1>7, <1>8, <1>10, FirstParsed
<1>12. SubSeq(rest, 1, e - 1) = c /\ After(rest, e) = d
  BY <1>7, <1>9
<1>13. parse_fragment(buf) = FragmentPacket(buf, c, d)
  BY <1>10, <1>11, <1>12, Zenon
<1>14. parse_datagram(buf) = parse_fragment(buf)
  BY <1>7, <1>8, MagicAssumption DEF parse_datagram
<1>15. FragmentPacket(buf, c, d) =
         [sequence_number |-> q, payload_size |-> size, fragment_offset |-> o,
          fragment_number |-> 0, n_fragments |-> n, channel |-> c, data |-> d]
  BY <1>8 DEF FragmentPacket
<1> QED
  BY <1>2, <1>7, <1>13, <1>14, <1>15, Zenon

\* parse_fragment reads back a later fragment, which carries no name.
LEMMA LaterRoundTrip ==
  ASSUME NEW f \in Fragment, f.fragment_number # 0
  PROVE  parse_datagram(encode_fragment(f)) = f
<1>1. PICK q \in Int, size \in Int, o \in Int, j \in Int, n \in Int, d \in Seq(Cells) :
        /\ f = [sequence_number |-> q, payload_size |-> size, fragment_offset |-> o,
                fragment_number |-> j, n_fragments |-> n, channel |-> NoChannel, data |-> d]
        /\ j # 0
  BY DEF Fragment
<1>2. PICK T : T = {MAGIC_FRAGMENT} \cup Int \cup Cells
  OBVIOUS
<1>3. PICK h : h = FragmentHeader(q, size, o, j, n)
  OBVIOUS
<1>4. /\ h \in Seq(T) /\ Len(h) = 6 /\ Len(h) >= 2
      /\ h[1] = MAGIC_FRAGMENT /\ h[2] = q /\ h[3] = size /\ h[4] = o /\ h[5] = j /\ h[6] = n
  <2>1. MAGIC_FRAGMENT \in T /\ q \in T /\ size \in T /\ o \in T /\ j \in T /\ n \in T
    BY <1>2
  <2> QED
    BY <1>3, <2>1 DEF FragmentHeader
<1>5. d \in Seq(T)
  BY <1>2, SeqMonotonic
<1>6. h \o <<>> = h
  BY <1>4, ConcatEmptySeq
<1>7. PICK buf : buf = h \o d
  OBVIOUS
<1>8. encode_fragment(f) = buf
  BY <1>1, <1>3, <1>6, <1>7 DEF encode_fragment, FragmentHeader
<1>9. /\ Len(buf) \in Nat /\ Len(buf) >= Len(h) /\ buf # <<>>
      /\ \A i \in 1 .. Len(h) : buf[i] = h[i]
  BY <1>4, <1>5, <1>7, HeaderCells
<1>10. /\ Len(buf) >= 6 /\ buf[1] = MAGIC_FRAGMENT /\ buf[2] = q /\ buf[3] = size
       /\ buf[4] = o /\ buf[5] = j /\ buf[6] = n
  BY <1>4, <1>9
<1>11. After(buf, Len(h)) = d
  BY <1>4, <1>5, <1>7, AfterConcat
<1>12. After(buf, 6) = d
  BY <1>4, <1>11
<1>13. ~ (Len(buf) < FRAGMENT_HEADER_SIZE) /\ FRAGMENT_HEADER_SIZE = 6 /\ buf[5] # 0
  BY <1>1, <1>9, <1>10 DEF FRAGMENT_HEADER_SIZE
<1>14. parse_fragment(buf) = FragmentPacket(buf, NoChannel, d)
  BY <1>12, <1>13, Zenon DEF parse_fragment
<1>15. parse_datagram(buf) = parse_fragment(buf)
  BY <1>9, <1>10, MagicAssumption DEF parse_datagram
<1>16. FragmentPacket(buf, NoChannel, d) = f
  BY <1>1, <1>10 DEF FragmentPacket
<1> QED
  BY <1>8, <1>14, <1>15, <1>16

\* protocol.rs:86-117, 143-173: so is a fragment, whatever its header says.
THEOREM FragmentRoundTrip ==
  ASSUME NEW f \in Fragment
  PROVE  parse_datagram(encode_fragment(f)) = f
<1>1. CASE f.fragment_number = 0
  <2>1. PICK q \in Int, size \in Int, o \in Int, n \in Int, c \in Channels, d \in Seq(Cells) :
          /\ f = [sequence_number |-> q, payload_size |-> size, fragment_offset |-> o,
                  fragment_number |-> 0, n_fragments |-> n, channel |-> c, data |-> d]
          /\ c # NoChannel
    BY <1>1 DEF Fragment
  <2>2. encode_fragment(f) = FragmentHeader(q, size, o, 0, n) \o (c \o Stop) \o d
    BY <2>1 DEF encode_fragment, FragmentHeader, Stop
  <2>3. parse_datagram(FragmentHeader(q, size, o, 0, n) \o (c \o Stop) \o d) =
          [sequence_number |-> q, payload_size |-> size, fragment_offset |-> o,
           fragment_number |-> 0, n_fragments |-> n, channel |-> c, data |-> d]
    BY FirstCells, SMTT(30)
  <2> QED
    BY <2>1, <2>2, <2>3
<1> QED
  BY <1>1, LaterRoundTrip

-----------------------------------------------------------------------------
(* Fragments of one message.                                               *)

\* A cast of what fits.
LEMMA Unchanged ==
  ASSUME NEW n \in Nat, NEW i \in Nat, i < n
  PROVE  i % n = i
  OBVIOUS

\* A slice of the payload.
LEMMA SliceOf ==
  ASSUME NEW S, NEW d \in Seq(S), NEW a \in Nat, NEW b \in Nat, a < b, b <= Len(d)
  PROVE  /\ SubSeq(d, a + 1, b) \in Seq(S) /\ Len(SubSeq(d, a + 1, b)) = b - a
         /\ \A i \in 1 .. b - a : SubSeq(d, a + 1, b)[i] = d[a + i]
<1>1. PICK first \in Int : first = a + 1
  OBVIOUS
<1>2. \A i \in first .. b : d[i] \in S
  BY <1>1
<1>3. /\ SubSeq(d, first, b) \in Seq(S)
      /\ Len(SubSeq(d, first, b)) = IF first <= b THEN b - first + 1 ELSE 0
      /\ \A i \in 1 .. b - first + 1 : SubSeq(d, first, b)[i] = d[first + i - 1]
  BY <1>2, SubSeqProperties
<1>4. b - first + 1 = b - a /\ \A i \in 1 .. b - a : first + i - 1 = a + i
  BY <1>1
<1> QED
  BY <1>1, <1>3, <1>4

\* The fields of a message that send takes.
LEMMA SoundType ==
  ASSUME NEW m \in Sound
  PROVE  /\ m.channel \in Channels /\ m.sequence_number \in SeqNumbers
         /\ m.sequence_number \in Int /\ m.data \in Seq(Cells)
         /\ Len(m.data) \in Nat /\ Len(m.data) < U32
         /\ m = [channel |-> m.channel, sequence_number |-> m.sequence_number,
                 data |-> m.data]
  BY TransportAssumption DEF Sound, SeqNumbers

\* A message is split only if it is not empty, in one part at least, and in no more
\* than a u16 counts.
LEMMA PartsType ==
  ASSUME NEW m \in Sound, Splits(m)
  PROVE  Parts(m) \in Nat \ {0} /\ Parts(m) < U16 /\ Len(m.data) # 0
<1>1. PICK c \in Channels, size \in Nat : c = m.channel /\ size = Len(m.data)
  BY SoundType
<1>0. size # 0
  BY <1>1, Capacities DEF Splits, Fits
<1>2. FirstCapacity(c) \in Nat \ {0} /\ SubsequentCapacity \in Nat \ {0} /\ Count(c, size) < U16
  BY <1>1, Capacities DEF Splits, Sound
<1>3. SaturatingSub(size, FirstCapacity(c)) \in Nat
  BY <1>2 DEF SaturatingSub
<1>4. Count(c, size) \in Nat \ {0}
  BY <1>2, <1>3, RoundedUp DEF Count
<1> QED
  BY <1>0, <1>1, <1>2, <1>4 DEF Parts

\* The slice of each part is in bounds and not empty.
LEMMA CallCorrect ==
  ASSUME NEW m \in Sound, Splits(m), NEW j \in 0 .. Parts(m) - 1
  PROVE  CallOK(Call(m, j))
<1>1. /\ Parts(m) \in Nat \ {0} /\ j \in Nat /\ j < Parts(m)
  BY PartsType
<1>2. PICK c \in Channels, F \in Nat, S \in Nat :
        c = m.channel /\ F = FirstCapacity(c) /\ S = SubsequentCapacity
  BY SoundType, Capacities
<1>3. PICK offset : offset = IF j = 0 THEN 0 ELSE F + (j - 1) * S
  OBVIOUS
<1>4. offset \in Nat
  BY <1>1, <1>2, <1>3
<1>5. Call(m, j) = [channel |-> c, data |-> m.data, sequence_number |-> m.sequence_number,
                    n_fragments |-> Parts(m), frag_num |-> j, offset |-> offset]
  BY <1>2, <1>3 DEF Call
<1>6. Call(m, j) \in Calls
  BY <1>1, <1>4, <1>5, SoundType DEF Calls
<1>7. Parts(m) = Count(c, Len(m.data)) /\ FirstCapacity(c) # 0 /\ SubsequentCapacity # 0
  BY <1>2 DEF Parts, Splits
<1>8. Len(m.data) # 0
  BY PartsType
<1> QED
  BY <1>1, <1>2, <1>3, <1>5, <1>6, <1>7, <1>8 DEF CallOK

\* Fragment j of m is a fragment with the bytes of Span(m, j).
LEMMA PartFacts ==
  ASSUME NEW m \in Sound, Splits(m), NEW j \in 0 .. Parts(m) - 1
  PROVE  LET o == Call(m, j)
             f == Part(m, j)
         IN  /\ o.offset \in Nat /\ ChunkEnd(o) \in Nat
             /\ o.offset < ChunkEnd(o) /\ ChunkEnd(o) <= Len(m.data)
             /\ f \in Fragment
             /\ f.sequence_number = m.sequence_number /\ f.payload_size = Len(m.data)
             /\ f.fragment_offset = o.offset /\ f.fragment_number = j
             /\ f.n_fragments = Parts(m)
             /\ j = 0 => f.channel = m.channel
             /\ f.data \in Seq(Cells) /\ Len(f.data) = ChunkEnd(o) - o.offset
             /\ \A i \in 1 .. Len(f.data) : f.data[i] = m.data[o.offset + i]
<1>1. PICK o : o = Call(m, j)
  OBVIOUS
<1>2. PICK f : f = Part(m, j)
  OBVIOUS
<1>3. CallOK(o)
  BY <1>1, CallCorrect
<1>4. PICK size \in Nat, offset \in Nat, end \in Nat, d \in Seq(Cells) :
        /\ size = Len(d) /\ offset = o.offset /\ end = ChunkEnd(o) /\ d = m.data
        /\ offset < end /\ end <= size /\ size < U32
  <2>1. o.data = m.data
    BY <1>1 DEF Call
  <2>2. o.offset \in Nat
    BY <1>3 DEF CallOK, Calls
  <2>3. ChunkEnd(o) \in Nat /\ o.offset < ChunkEnd(o) /\ ChunkEnd(o) <= Len(o.data)
    BY <1>3, Slice
  <2> QED
    BY <2>1, <2>2, <2>3, SoundType
<1>5. /\ o.channel = m.channel /\ o.data = d /\ o.sequence_number = m.sequence_number
      /\ o.n_fragments = Parts(m) /\ o.frag_num = j
  BY <1>1, <1>4 DEF Call
<1>6. PICK chunk : chunk = Chunk(o)
  OBVIOUS
<1>7. /\ chunk \in Seq(Cells) /\ Len(chunk) = end - offset
      /\ \A i \in 1 .. end - offset : chunk[i] = d[offset + i]
  <2>1. chunk = SubSeq(d, offset + 1, end)
    BY <1>4, <1>5, <1>6 DEF Chunk
  <2>2. offset < end /\ end <= Len(d)
    BY <1>4
  <2> QED
    BY <2>1, <2>2, SliceOf
<1>8. f = [sequence_number |-> m.sequence_number, payload_size |-> size,
           fragment_offset |-> offset, fragment_number |-> j, n_fragments |-> Parts(m),
           channel |-> IF j = 0 THEN m.channel ELSE NoChannel, data |-> chunk]
  <2>1. size % U32 = size /\ offset % U32 = offset
    <3>1. U32 \in Nat /\ offset < U32 /\ size < U32
      BY <1>4, TransportAssumption
    <3> QED
      BY <3>1, Unchanged
  <2> QED
    BY <1>1, <1>2, <1>4, <1>5, <1>6, <2>1 DEF Part, FragmentOf
<1>9. f \in Fragment
  <2>1. Parts(m) \in Int /\ m.channel \in Channels /\ m.sequence_number \in Int
    BY PartsType, SoundType
  <2>2. m.channel # NoChannel
    BY <2>1, NamesAssumption
  <2> QED
    BY <1>7, <1>8, <2>1, <2>2 DEF Fragment
<1>10. /\ f.sequence_number = m.sequence_number /\ f.payload_size = size
       /\ f.fragment_offset = offset /\ f.fragment_number = j /\ f.n_fragments = Parts(m)
       /\ j = 0 => f.channel = m.channel
       /\ f.data = chunk
  BY <1>8
<1> QED
  BY <1>1, <1>2, <1>4, <1>7, <1>9, <1>10

\* Every byte of the payload is in some fragment.
LEMMA Covered ==
  ASSUME NEW m \in Sound, Splits(m), NEW i \in 1 .. Len(m.data)
  PROVE  \E j \in 0 .. Parts(m) - 1 : i \in Span(m, j)
<1>1. PICK c \in Channels, size \in Nat, F \in Nat \ {0}, S \in Nat \ {0}, n \in Nat \ {0} :
        /\ c = m.channel /\ size = Len(m.data) /\ F = FirstCapacity(c)
        /\ S = SubsequentCapacity /\ n = Parts(m)
  BY SoundType, PartsType, Capacities DEF Splits
<1>2. i \in Nat \ {0} /\ i <= size
  BY <1>1
<1>3. ASSUME NEW j \in 0 .. n - 1
      PROVE  i \in Span(m, j) <=>
               IF j = 0 THEN i <= F ELSE F + (j - 1) * S < i /\ i <= F + (j - 1) * S + S
  <2>1. PICK offset : offset = IF j = 0 THEN 0 ELSE F + (j - 1) * S
    OBVIOUS
  <2>2. (j - 1) * S \in Int /\ (j # 0 => (j - 1) * S >= 0)
    BY <1>1
  <2>3. PICK o : o = Call(m, j)
    OBVIOUS
  <2>4. o.offset = offset /\ o.frag_num = j /\ o.channel = c /\ Len(o.data) = size
    BY <1>1, <2>1, <2>3 DEF Call
  <2>5. ChunkEnd(o) = IF j = 0 THEN Least(F, size) ELSE Least(offset + S, size)
    BY <1>1, <2>4 DEF ChunkEnd
  <2>6. Span(m, j) = offset + 1 .. ChunkEnd(o)
    BY <2>3, <2>4 DEF Span
  <2>7. CASE j = 0
    BY <1>2, <2>1, <2>5, <2>6, <2>7 DEF Least
  <2>8. CASE j # 0
    BY <1>2, <2>1, <2>2, <2>5, <2>6, <2>8 DEF Least
  <2> QED
    BY <2>7, <2>8
<1>4. CASE i <= F
  BY <1>1, <1>3, <1>4
<1>5. CASE i > F
  <2>1. PICK k \in Nat : k * S < i - F /\ i - F <= k * S + S
    <3>1. PICK r \in Nat : r = i - F - 1
      BY <1>2, <1>5
    <3>2. PICK k \in Nat : k * S <= r /\ r < k * S + S
      <4>1. (r \div S) \in Nat /\ (r \div S) * S <= r /\ r < (r \div S) * S + S
        BY <3>1
      <4> QED
        BY <4>1
    <3>3. k * S \in Nat
      OBVIOUS
    <3> QED
      BY <1>2, <1>5, <3>1, <3>2, <3>3
  <2>2. k + 1 < n
    <3>1. PICK r \in Nat : r = SaturatingSub(size, F) /\ r = size - F
      BY <1>2, <1>5 DEF SaturatingSub
    <3>2. PICK q : q = (r + S - 1) \div S
      OBVIOUS
    <3>3. n = 1 + q
      BY <1>1, <3>1, <3>2 DEF Parts, Count
    <3>4. q \in Nat /\ (q <= k <=> r <= k * S)
      BY <3>2, RoundedUp
    <3>5. k * S \in Nat
      OBVIOUS
    <3> QED
      BY <1>2, <2>1, <3>1, <3>3, <3>4, <3>5
  <2>3. PICK j \in 0 .. n - 1 : j = k + 1
    BY <2>2
  <2>4. j # 0 /\ (j - 1) * S = k * S /\ k * S \in Nat
    BY <2>3
  <2>5. F + (j - 1) * S < i /\ i <= F + (j - 1) * S + S
    BY <1>2, <2>1, <2>4
  <2>6. i \in Span(m, j)
    BY <1>3, <2>4, <2>5
  <2> QED
    BY <1>1, <2>6
<1> QED
  BY <1>2, <1>4, <1>5
=============================================================================
