--------------------- MODULE FragmentReassemblerProofs ---------------------
(***************************************************************************)
(* Proofs about FragmentReassembler, for any set of fragments that may     *)
(* arrive, any timeout and any max_message_size.                           *)
(***************************************************************************)
EXTENDS FragmentReassembler, SequenceTheorems, FiniteSetTheorems, TLAPS

(* A set of fragments as it should be.                                     *)
Good(set) == set \in FragmentSets /\ SetSound(set)

(* The fields of a fragment that parse_fragment may yield.                 *)
LEMMA FragmentType ==
  ASSUME NEW f \in Fragments
  PROVE  /\ f.sequence_number \in SeqNumbers
         /\ f.payload_size \in Nat
         /\ f.fragment_offset \in Nat
         /\ f.fragment_number \in Nat
         /\ f.n_fragments \in Nat
         /\ f.fragment_number = 0 => f.channel \in Channels
         /\ f.data \in Seq(Bytes)
BY FragmentsAssumption

(* A new buffer, and one that a fragment has been written to.              *)
LEMMA NewBuffer ==
  ASSUME NEW n \in Nat
  PROVE  [i \in 1 .. n |-> Zero] \in Seq(Bytes) /\ Len([i \in 1 .. n |-> Zero]) = n
BY ZeroAssumption

(* copy_from_slice, in bounds, changes bytes of the buffer and not its     *)
(* length.                                                                 *)
LEMMA OverwriteType ==
  ASSUME NEW buffer \in Seq(Bytes), NEW offset \in Nat, NEW data \in Seq(Bytes),
         offset + Len(data) <= Len(buffer)
  PROVE  /\ Overwrite(buffer, offset, data) \in Seq(Bytes)
         /\ Len(Overwrite(buffer, offset, data)) = Len(buffer)
<1>1. Len(buffer) \in Nat /\ Len(data) \in Nat
  BY LenProperties
<1>2. \A i \in offset + 1 .. offset + Len(data) : i - offset \in 1 .. Len(data)
  BY <1>1
<1>3. \A i \in 1 .. Len(buffer) :
        (IF i \in offset + 1 .. offset + Len(data) THEN data[i - offset] ELSE buffer[i])
          \in Bytes
  BY <1>2, ElementOfSeq
<1>4. Overwrite(buffer, offset, data) =
        [i \in 1 .. Len(buffer) |->
           IF i \in offset + 1 .. offset + Len(data) THEN data[i - offset] ELSE buffer[i]]
  BY <1>1 DEF Overwrite
<1>. QED BY <1>1, <1>3, <1>4

(* The set process works on is sound, whether it was there or is new.      *)
LEMMA EntryGood ==
  ASSUME NEW p, \A k \in DOMAIN p : Good(p[k]),
         NEW key, NEW f \in Fragments, f.payload_size <= MaxMessageSize
  PROVE  Good(Entry(p, key, f))
<1>1. Good(NewSet(f))
  <2>1. NewSet(f) \in FragmentSets
    <3>1. \A buffer \in Seq(Bytes) :
            [channel |-> NoChannel, payload_size |-> f.payload_size,
             n_fragments |-> f.n_fragments, fragments_received |-> 0,
             buffer |-> buffer, received_mask |-> {}, age |-> 0] \in FragmentSets
      BY FragmentType, SizesAssumption DEF FragmentSets
    <3>. QED BY <3>1, FragmentType, NewBuffer DEF NewSet
  <2>2. Cardinality({}) = 0
    BY FS_EmptySet
  <2>3. SetSound(NewSet(f))
    BY <2>2, FragmentType, NewBuffer DEF NewSet, SetSound
  <2>. QED BY <2>1, <2>3 DEF Good
<1>2. \A set : Good(set) /\ f.fragment_number = 0 => Good([set EXCEPT !.channel = f.channel])
  BY FragmentType DEF Good, FragmentSets, SetSound
<1>. QED BY <1>1, <1>2 DEF Entry

(* There are n fragment numbers below n_fragments.                         *)
LEMMA NumbersBelow ==
  ASSUME NEW n \in Nat
  PROVE  IsFiniteSet(0 .. n - 1) /\ Cardinality(0 .. n - 1) = n
<1>1. 0 \in Int /\ n - 1 \in Int /\ (0 > n - 1 <=> n = 0)
  OBVIOUS
<1>2. /\ IsFiniteSet(0 .. n - 1)
      /\ Cardinality(0 .. n - 1) = IF 0 > n - 1 THEN 0 ELSE (n - 1) - 0 + 1
  BY <1>1, FS_Interval
<1>. QED BY <1>1, <1>2

(* Storing an accepted fragment counts it, once, and leaves a sound set    *)
(* behind unless it completes the message.                                 *)
LEMMA StoreGood ==
  ASSUME NEW set, Good(set), NEW f \in Fragments, Accepts(set, f)
  PROVE  /\ Store(set, f) \in FragmentSets
         /\ Store(set, f).n_fragments = set.n_fragments
         /\ Store(set, f).fragments_received = set.fragments_received + 1
         /\ Store(set, f).fragments_received # set.n_fragments => Good(Store(set, f))
<1> DEFINE mask == set.received_mask
           n == set.n_fragments
<1>1. /\ mask \subseteq 0 .. n - 1 /\ n \in Nat
      /\ set.fragments_received = Cardinality(mask)
      /\ f.fragment_number \in 0 .. n - 1 /\ f.fragment_number \notin mask
  BY FragmentType DEF Good, FragmentSets, SetSound, Accepts
<1>2. IsFiniteSet(mask)
  <2>1. IsFiniteSet(0 .. n - 1)
    BY <1>1, NumbersBelow
  <2>. QED BY <1>1, <2>1, FS_Subset
<1>3. /\ Cardinality(mask \cup {f.fragment_number}) = Cardinality(mask) + 1
      /\ Cardinality(mask) \in Nat
  BY <1>1, <1>2, FS_AddElement, FS_CardinalityType
<1>4. Cardinality(mask \cup {f.fragment_number}) <= n
  <2>1. mask \cup {f.fragment_number} \subseteq 0 .. n - 1
    BY <1>1
  <2>2. IsFiniteSet(0 .. n - 1) /\ Cardinality(0 .. n - 1) = n
    BY <1>1, NumbersBelow
  <2>. QED BY <2>1, <2>2, FS_Subset
<1>5. Store(set, f) \in FragmentSets
  <2>1. \A buffer \in Seq(Bytes), m \in SUBSET Nat, count \in Nat :
          [set EXCEPT !.buffer = buffer, !.received_mask = m,
                      !.fragments_received = count] \in FragmentSets
    BY DEF Good, FragmentSets
  <2>2. Overwrite(set.buffer, f.fragment_offset, f.data) \in Seq(Bytes)
    BY FragmentType, OverwriteType DEF Good, FragmentSets, Accepts
  <2>3. mask \cup {f.fragment_number} \in SUBSET Nat /\ set.fragments_received + 1 \in Nat
    BY FragmentType DEF Good, FragmentSets
  <2>. QED BY <2>1, <2>2, <2>3 DEF Store
<1>6. /\ Store(set, f).n_fragments = n
      /\ Store(set, f).fragments_received = set.fragments_received + 1
      /\ Store(set, f).received_mask = mask \cup {f.fragment_number}
      /\ Store(set, f).payload_size = set.payload_size
      /\ Len(Store(set, f).buffer) = Len(set.buffer)
  BY FragmentType, OverwriteType DEF Store, Good, FragmentSets, Accepts
<1>7. Store(set, f).fragments_received # n => SetSound(Store(set, f))
  BY <1>1, <1>3, <1>4, <1>6 DEF SetSound, Good
<1>. QED BY <1>5, <1>6, <1>7 DEF Good

-----------------------------------------------------------------------------
(* The invariant: every pending set is sound.                              *)
Inv == TypeOK /\ SetsSound

(* The sets that survive expire_stale are as they were.                    *)
LEMMA ExpiredSets ==
  ASSUME Inv
  PROVE  /\ DOMAIN expire_stale(pending) \subseteq DOMAIN pending
         /\ \A k \in DOMAIN expire_stale(pending) :
              /\ expire_stale(pending)[k] = pending[k]
              /\ Good(pending[k])
              /\ ~ Stale(pending[k])
BY DEF expire_stale, Without, Inv, TypeOK, SetsSound, Good

(* A new reassembler has no sets.                                          *)
LEMMA InitInv == Init => Inv
BY DEF Init, Inv, TypeOK, SetsSound

(* process and the passing of time keep every set sound.                   *)
LEMMA NextInv == Inv /\ [Next]_rvars => Inv'
<1> SUFFICES ASSUME Inv, [Next]_rvars PROVE Inv'
  OBVIOUS
<1>1. ASSUME NEW sender \in Addresses, NEW f \in Fragments, process(sender, f)
      PROVE  Inv'
  <2> DEFINE key == <<sender, f.sequence_number>>
             live == expire_stale(pending)
             set == Entry(live, key, f)
  <2>1. key \in FragmentKeys /\ f.sequence_number \in SeqNumbers
    BY FragmentType DEF FragmentKeys
  <2>2. DOMAIN live \subseteq FragmentKeys /\ \A k \in DOMAIN live : Good(live[k])
    BY ExpiredSets DEF Inv, TypeOK
  <2>3. CASE ProcessOversized(sender, f)
    BY <2>2, <2>3 DEF ProcessOversized, Inv, TypeOK, SetsSound, Good
  <2>4. CASE ProcessRejected(sender, f)
    <3>1. Good(set)
      BY <2>2, <2>4, EntryGood DEF ProcessRejected
    <3>. QED
      BY <2>1, <2>2, <2>4, <3>1
      DEF ProcessRejected, With, Inv, TypeOK, SetsSound, Good
  <2>5. CASE ProcessStored(sender, f)
    <3>1. Good(set)
      BY <2>2, <2>5, EntryGood DEF ProcessStored
    <3>2. Good(Store(set, f))
      BY <2>5, <3>1, StoreGood DEF ProcessStored
    <3>. QED
      BY <2>1, <2>2, <2>5, <3>2
      DEF ProcessStored, With, Inv, TypeOK, SetsSound, Good
  <2>6. CASE ProcessCompleted(sender, f)
    <3>1. Good(set)
      BY <2>2, <2>6, EntryGood DEF ProcessCompleted
    <3>2. Store(set, f) \in FragmentSets
      BY <2>6, <3>1, StoreGood DEF ProcessCompleted
    <3>3. returned' \in LcmMessages
      BY <2>1, <2>6, <3>1, <3>2 DEF ProcessCompleted, LcmMessages, Good, FragmentSets
    <3>. QED
      BY <2>2, <2>6, <3>3 DEF ProcessCompleted, Without, Inv, TypeOK, SetsSound, Good
  <2>. QED BY <1>1, <2>3, <2>4, <2>5, <2>6 DEF process
<1>2. CASE Tick
  <2>1. \A k \in DOMAIN pending : Good(pending[k])
    BY DEF Inv, TypeOK, SetsSound, Good
  <2>2. \A k \in DOMAIN pending' : Good(pending'[k])
    <3> SUFFICES ASSUME NEW k \in DOMAIN pending PROVE Good(pending'[k])
      BY <1>2 DEF Tick
    <3>1. pending'[k] = [pending[k] EXCEPT !.age =
            IF pending[k].age > Timeout THEN pending[k].age ELSE pending[k].age + 1]
      BY <1>2 DEF Tick
    <3>2. pending[k] \in FragmentSets /\ SetSound(pending[k])
      BY <2>1 DEF Good
    <3>3. (IF pending[k].age > Timeout THEN pending[k].age ELSE pending[k].age + 1)
            \in 0 .. Timeout + 1
      BY <3>2, SizesAssumption DEF FragmentSets
    <3>4. \A age \in 0 .. Timeout + 1 :
            LET aged == [pending[k] EXCEPT !.age = age]
            IN  aged \in FragmentSets /\ SetSound(aged)
      BY <3>2 DEF FragmentSets, SetSound
    <3>. QED BY <3>1, <3>3, <3>4 DEF Good
  <2>. QED BY <1>2, <2>2 DEF Tick, Inv, TypeOK, SetsSound, Good
<1>3. CASE UNCHANGED rvars
  BY <1>3 DEF rvars, Inv, TypeOK, SetsSound
<1>. QED BY <1>1, <1>2, <1>3 DEF Next, Arrival

(* Hence they are sound in every state of the reassembler.                 *)
LEMMA Invariant == Spec => []Inv
BY InitInv, NextInv, PTL DEF Spec

(* The reassembler's state is well typed whatever arrives.                 *)
THEOREM TypeCorrect == Spec => []TypeOK
<1>1. Inv => TypeOK
  BY DEF Inv
<1>. QED BY <1>1, Invariant, PTL

(* Whatever fragments arrive, a set's counter, mask and buffer agree, no   *)
(* complete set stays behind and no buffer exceeds max_message_size.       *)
THEOREM SetsAreSound == Spec => []SetsSound
<1>1. Inv => SetsSound
  BY DEF Inv
<1>. QED BY <1>1, Invariant, PTL

-----------------------------------------------------------------------------
(* Steps.                                                                  *)

(* The set process works on has not timed out, and what is known of it     *)
(* besides the channel is what was known before, if it was there.          *)
LEMMA EntryFresh ==
  ASSUME Inv, NEW key, NEW f \in Fragments, f.payload_size <= MaxMessageSize
  PROVE  LET set == Entry(expire_stale(pending), key, f) IN
         /\ ~ Stale(set)
         /\ key \in DOMAIN expire_stale(pending)
              => /\ set.n_fragments = pending[key].n_fragments
                 /\ set.fragments_received = pending[key].fragments_received
                 /\ set.payload_size = pending[key].payload_size
<1> DEFINE live == expire_stale(pending)
<1>1. CASE key \in DOMAIN live
  <2>1. live[key] = pending[key] /\ pending[key] \in FragmentSets /\ ~ Stale(pending[key])
    BY <1>1, ExpiredSets DEF Good
  <2>. QED BY <1>1, <2>1 DEF Entry, Stale, FragmentSets
<1>2. CASE key \notin DOMAIN live
  BY <1>2, SizesAssumption DEF Entry, NewSet, Stale
<1>. QED BY <1>1, <1>2

(* A fragment that has arrived leaves no set behind that has timed out.    *)
THEOREM NoneStaleLeft == Spec => NoneStale
<1>1. ASSUME Inv, NEW sender \in Addresses, NEW f \in Fragments, process(sender, f)
      PROVE  \A k \in DOMAIN pending' : ~ Stale(pending'[k])
  <2> DEFINE key == <<sender, f.sequence_number>>
             live == expire_stale(pending)
             set == Entry(live, key, f)
  <2>1. \A k \in DOMAIN live : ~ Stale(live[k])
    BY <1>1, ExpiredSets
  <2>2. CASE ProcessOversized(sender, f)
    BY <2>1, <2>2 DEF ProcessOversized
  <2>3. CASE ProcessRejected(sender, f)
    <3>1. ~ Stale(set)
      BY <1>1, <2>3, EntryFresh DEF ProcessRejected
    <3>. QED BY <2>1, <2>3, <3>1 DEF ProcessRejected, With
  <2>4. CASE ProcessStored(sender, f)
    <3>1. ~ Stale(set) /\ Good(set)
      BY <1>1, <2>4, EntryFresh, EntryGood, ExpiredSets DEF ProcessStored
    <3>2. ~ Stale(Store(set, f))
      BY <3>1 DEF Store, Stale, Good, FragmentSets
    <3>. QED BY <2>1, <2>4, <3>2 DEF ProcessStored, With
  <2>5. CASE ProcessCompleted(sender, f)
    BY <2>1, <2>5 DEF ProcessCompleted, Without
  <2>. QED BY <1>1, <2>2, <2>3, <2>4, <2>5 DEF process
<1>2. Inv /\ [Next]_rvars
        => [~ Tick => \A k \in DOMAIN pending' : ~ Stale(pending'[k])]_rvars
  BY <1>1 DEF Next, Arrival
<1>. QED BY <1>2, Invariant, PTL DEF Spec, NoneStale

(* A set disappears because it has timed out, or because the one fragment  *)
(* it lacked has arrived and the whole message is returned.                *)
THEOREM SetsOnlyLeaveProperly == Spec => SetsLeaveProperly
<1> DEFINE Proper(k) ==
      \/ Stale(pending[k])
      \/ /\ returned' # NoMessage
         /\ returned'.sequence_number = k[2]
         /\ Len(returned'.data) = pending[k].payload_size
         /\ pending[k].fragments_received = pending[k].n_fragments - 1
<1>1. ASSUME Inv, NEW sender \in Addresses, NEW f \in Fragments, process(sender, f),
             NEW k \in DOMAIN pending \ DOMAIN pending'
      PROVE  Proper(k)
  <2> DEFINE key == <<sender, f.sequence_number>>
             live == expire_stale(pending)
             set == Entry(live, key, f)
  <2>1. k \notin DOMAIN live => Stale(pending[k])
    BY DEF expire_stale, Without
  <2>2. CASE ProcessOversized(sender, f)
    BY <1>1, <2>1, <2>2 DEF ProcessOversized
  <2>3. CASE ProcessRejected(sender, f)
    BY <1>1, <2>1, <2>3 DEF ProcessRejected, With
  <2>4. CASE ProcessStored(sender, f)
    BY <1>1, <2>1, <2>4 DEF ProcessStored, With
  <2>5. CASE ProcessCompleted(sender, f) /\ k \in DOMAIN live
    <3>1. k = key
      BY <1>1, <2>5 DEF ProcessCompleted, Without
    <3>2. Good(set) /\ Good(pending[k])
      BY <1>1, <2>5, EntryGood, ExpiredSets DEF ProcessCompleted
    <3>3. /\ set.n_fragments = pending[k].n_fragments
          /\ set.fragments_received = pending[k].fragments_received
          /\ set.payload_size = pending[k].payload_size
      BY <1>1, <2>5, <3>1, EntryFresh DEF ProcessCompleted
    <3>4. /\ Store(set, f).fragments_received = set.fragments_received + 1
          /\ Store(set, f).fragments_received = set.n_fragments
      BY <2>5, <3>2, StoreGood DEF ProcessCompleted
    <3>5. pending[k].fragments_received = pending[k].n_fragments - 1
      BY <3>2, <3>3, <3>4 DEF Good, FragmentSets
    <3>6. Len(Store(set, f).buffer) = Len(set.buffer) /\ Len(set.buffer) = set.payload_size
      <4>1. Accepts(set, f)
        BY <2>5 DEF ProcessCompleted
      <4> HIDE DEF set
      <4>. QED BY <3>2, <4>1, FragmentType, OverwriteType
               DEF Accepts, Store, Good, FragmentSets, SetSound
    <3>7. returned' = [channel |-> set.channel, sequence_number |-> k[2],
                       data |-> Store(set, f).buffer]
      BY <2>5, <3>1 DEF ProcessCompleted
    <3>8. returned' # NoMessage
      <4>1. k[2] \in SeqNumbers /\ Store(set, f).buffer \in Seq(Bytes)
        BY <2>5, <3>1, <3>2, FragmentType, StoreGood DEF ProcessCompleted, FragmentSets
      <4>2. set.channel \in Channels \cup {NoChannel}
        BY <3>2 DEF Good, FragmentSets
      <4>3. returned' \in LcmMessages
        BY <3>7, <4>1, <4>2 DEF LcmMessages
      <4>. QED BY <4>3, NoMessageAssumption
    <3>. QED BY <3>3, <3>5, <3>6, <3>7, <3>8
  <2>. QED BY <1>1, <2>1, <2>2, <2>3, <2>4, <2>5 DEF process
<1>2. Inv /\ [Next]_rvars => [\A k \in DOMAIN pending \ DOMAIN pending' : Proper(k)]_rvars
  <2>1. Tick => DOMAIN pending' = DOMAIN pending
    BY DEF Tick
  <2>. QED BY <1>1, <2>1 DEF Next, Arrival
<1>. QED BY <1>2, Invariant, PTL DEF Spec, SetsLeaveProperly
=============================================================================
