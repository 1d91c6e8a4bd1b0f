------------------------ MODULE FragmentReassembler ------------------------
(***************************************************************************)
(* The FragmentReassembler of fragment.rs: what process does to the        *)
(* pending fragment sets, for any fragment that parse_fragment can yield.  *)
(*                                                                         *)
(* Time is counted in units of which Timeout make the timeout; a set's     *)
(* created_at is kept as its age, which stops at Timeout + 1 (an older set *)
(* is treated the same). received_mask is the set of the fragment numbers  *)
(* whose flag is up; its length is n_fragments.                            *)
(***************************************************************************)
EXTENDS Integers, Sequences, FiniteSets

CONSTANTS
  Addresses,       \* sender addresses (ip, port) as recv_from reports them
  SeqNumbers,      \* sequence numbers a fragment may carry
  Channels,        \* channel names
  NoChannel,       \* the empty channel of a set whose fragment 0 is missing
  Bytes, Zero,     \* payload bytes; Zero fills a new buffer
  Fragments,       \* the fragments that may arrive
  NoMessage,       \* process returned None
  Timeout,         \* the reassembly timeout
  MaxMessageSize   \* max_message_size

ASSUME SizesAssumption == Timeout \in Nat /\ MaxMessageSize \in Nat
ASSUME ZeroAssumption == Zero \in Bytes

\* The messages process may return.
LcmMessages ==
  [channel : Channels \cup {NoChannel}, sequence_number : SeqNumbers,
   data : Seq(Bytes)]
ASSUME NoMessageAssumption == NoMessage \notin LcmMessages

\* A parsed fragment. Only fragment 0 carries a channel (parse_fragment).
ASSUME FragmentsAssumption ==
  \A f \in Fragments :
    /\ f.sequence_number \in SeqNumbers
    /\ {f.payload_size, f.fragment_offset, f.fragment_number, f.n_fragments} \subseteq Nat
    /\ f.fragment_number = 0 => f.channel \in Channels
    /\ f.data \in Seq(Bytes)

VARIABLES
  pending,   \* HashMap<FragmentKey, FragmentSet>
  returned   \* what the last call of process returned

rvars == <<pending, returned>>

FragmentKeys == Addresses \X SeqNumbers

Init == pending = <<>> /\ returned = NoMessage

-----------------------------------------------------------------------------
(* Operations on the map and on one set.                                   *)

Without(p, keys) == [k \in DOMAIN p \ keys |-> p[k]]
With(p, key, set) ==
  [k \in DOMAIN p \cup {key} |-> IF k = key THEN set ELSE p[k]]

Stale(set) == set.age > Timeout
\* Mutant: only sets that have received nothing are thrown away.
expire_empty(p) ==
  Without(p, {k \in DOMAIN p : Stale(p[k]) /\ p[k].fragments_received = 0})
expire_stale(p) == Without(p, {k \in DOMAIN p : Stale(p[k])})

NewSet(f) ==
  [channel |-> NoChannel, payload_size |-> f.payload_size,
   n_fragments |-> f.n_fragments, fragments_received |-> 0,
   buffer |-> [i \in 1 .. f.payload_size |-> Zero],
   received_mask |-> {}, age |-> 0]

\* pending.entry(key).or_insert_with(..), then the channel of a fragment 0 is
\* stored in the set, whatever the checks that follow say.
Entry(p, key, f) ==
  LET set == IF key \in DOMAIN p THEN p[key] ELSE NewSet(f)
  IN  IF f.fragment_number = 0 THEN [set EXCEPT !.channel = f.channel] ELSE set

Consistent(set, f) ==
  f.payload_size = set.payload_size /\ f.n_fragments = set.n_fragments

\* Mutant: duplicates are not looked for.
AcceptsAgain(set, f) ==
  /\ Consistent(set, f)
  /\ f.fragment_number < set.n_fragments
  /\ f.fragment_offset + Len(f.data) <= Len(set.buffer)

\* Mutant: the data may reach past the buffer's end.
AcceptsPastEnd(set, f) ==
  /\ Consistent(set, f)
  /\ f.fragment_number < set.n_fragments
  /\ f.fragment_number \notin set.received_mask

\* The four early returns after the entry: inconsistent metadata, a number
\* out of range, a duplicate, and data beyond the end of the buffer.
Accepts(set, f) ==
  /\ Consistent(set, f)
  /\ f.fragment_number < set.n_fragments
  /\ f.fragment_number \notin set.received_mask
  /\ f.fragment_offset + Len(f.data) <= Len(set.buffer)

\* Data that reached past the end, where the code would panic, would show as a
\* buffer that has outgrown the payload's size.
Overwrite(buffer, offset, data) ==
  LET end == offset + Len(data) IN
  [i \in 1 .. (IF end > Len(buffer) THEN end ELSE Len(buffer)) |->
     IF i \in offset + 1 .. end THEN data[i - offset]
     ELSE IF i <= Len(buffer) THEN buffer[i] ELSE Zero]

Store(set, f) ==
  [set EXCEPT !.buffer = Overwrite(@, f.fragment_offset, f.data),
              !.received_mask = @ \cup {f.fragment_number},
              !.fragments_received = @ + 1]

-----------------------------------------------------------------------------
(* process(fragment, sender), one disjunct per way it returns. Each of     *)
(* them first discards the sets that have timed out.                       *)

\* Mutant: the set is given up with the fragment.
ProcessOversizedDrops(sender, f) ==
  /\ f.payload_size > MaxMessageSize
  /\ pending' = Without(expire_stale(pending), {<<sender, f.sequence_number>>})
  /\ returned' = NoMessage

ProcessOversized(sender, f) ==
  /\ f.payload_size > MaxMessageSize
  /\ pending' = expire_stale(pending)
  /\ returned' = NoMessage

\* The entry is created, and given a channel, even when the fragment is then
\* refused.
ProcessRejected(sender, f) ==
  LET key == <<sender, f.sequence_number>>
      set == Entry(expire_stale(pending), key, f)
  IN  /\ f.payload_size <= MaxMessageSize
      /\ ~ Accepts(set, f)
      /\ pending' = With(expire_stale(pending), key, set)
      /\ returned' = NoMessage

\* Mutant: sets keyed by the sequence number alone.
ProcessStoredAnySender(sender, f) ==
  LET key == <<f.sequence_number>>
      set == Entry(expire_stale(pending), key, f)
  IN  /\ f.payload_size <= MaxMessageSize
      /\ Accepts(set, f)
      /\ Store(set, f).fragments_received # set.n_fragments
      /\ pending' = With(expire_stale(pending), key, Store(set, f))
      /\ returned' = NoMessage

ProcessStored(sender, f) ==
  LET key == <<sender, f.sequence_number>>
      set == Entry(expire_stale(pending), key, f)
  IN  /\ f.payload_size <= MaxMessageSize
      /\ Accepts(set, f)
      /\ Store(set, f).fragments_received # set.n_fragments
      /\ pending' = With(expire_stale(pending), key, Store(set, f))
      /\ returned' = NoMessage

ProcessCompleted(sender, f) ==
  LET key == <<sender, f.sequence_number>>
      set == Entry(expire_stale(pending), key, f)
  IN  /\ f.payload_size <= MaxMessageSize
      /\ Accepts(set, f)
      /\ Store(set, f).fragments_received = set.n_fragments
      /\ pending' = Without(expire_stale(pending), {key})
      /\ returned' = [channel |-> set.channel, sequence_number |-> f.sequence_number,
                      data |-> Store(set, f).buffer]

process(sender, f) ==
  \/ ProcessOversized(sender, f)
  \/ ProcessRejected(sender, f)
  \/ ProcessStored(sender, f)
  \/ ProcessCompleted(sender, f)

\* Time passes for the sets that wait. Nothing is discarded until a fragment
\* arrives.
Tick ==
  /\ pending' = [k \in DOMAIN pending |->
                   [pending[k] EXCEPT !.age = IF @ > Timeout THEN @ ELSE @ + 1]]
  /\ UNCHANGED returned

Arrival == \E sender \in Addresses, f \in Fragments : process(sender, f)

Next == Arrival \/ Tick

Spec == Init /\ [][Next]_rvars

-----------------------------------------------------------------------------
(* Properties.                                                             *)

FragmentSets ==
  [channel : Channels \cup {NoChannel}, payload_size : Nat, n_fragments : Nat,
   fragments_received : Nat, buffer : Seq(Bytes), received_mask : SUBSET Nat,
   age : 0 .. Timeout + 1]

\* The type invariant.
TypeOK ==
  /\ DOMAIN pending \subseteq FragmentKeys
  /\ \A k \in DOMAIN pending : pending[k] \in FragmentSets
  /\ returned \in LcmMessages \cup {NoMessage}

\* Whatever fragments arrive, a set's counter agrees with its mask, the mask
\* stays within n_fragments, no complete set stays behind (one with
\* n_fragments = 0 is never complete), no data is copied past the end of its buffer,
\* and that, whose size the sender chooses, is within max_message_size (fragment.rs:57-67, 95-149).
SetSound(set) ==
  /\ set.received_mask \subseteq 0 .. set.n_fragments - 1
  /\ set.fragments_received = Cardinality(set.received_mask)
  /\ set.n_fragments # 0 => set.fragments_received < set.n_fragments
  /\ Len(set.buffer) = set.payload_size
  /\ set.payload_size <= MaxMessageSize
SetsSound == \A k \in DOMAIN pending : SetSound(pending[k])

\* A fragment that has arrived leaves no set behind that has timed out, its
\* own included: a late fragment never completes a stale set
\* (fragment.rs:54-55, 153-171).
NoneStale ==
  [][~ Tick => \A k \in DOMAIN pending' : ~ Stale(pending'[k])]_rvars

\* A set only disappears because it has timed out, or because the one fragment
\* number it lacked arrived and its message is returned (fragment.rs:139-149).
SetsLeaveProperly ==
  [][\A k \in DOMAIN pending \ DOMAIN pending' :
       \/ Stale(pending[k])
       \/ /\ returned' # NoMessage
          /\ returned'.sequence_number = k[2]
          /\ Len(returned'.data) = pending[k].payload_size
          /\ pending[k].fragments_received = pending[k].n_fragments - 1]_rvars

\* A fragment whose metadata contradict the set's is dropped: the set is what
\* it was (fragment.rs:95-103).
InconsistentDropped ==
  [][\A sender \in Addresses, f \in Fragments :
       LET key == <<sender, f.sequence_number>> IN
       ProcessRejected(sender, f) /\ key \in DOMAIN expire_stale(pending)
           /\ ~ Consistent(pending[key], f)
         => pending' = expire_stale(pending)]_rvars
=============================================================================
