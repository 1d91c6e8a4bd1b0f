------------------------- MODULE BridgeLedgerProofs -------------------------
(***************************************************************************)
(* Proofs about BridgeLedger, for every value of its constants: whatever   *)
(* the schedule and the other programs' numbers are, records and loopbacks *)
(* balance, and the shared set stays bounded until the counter wraps; and  *)
(* the loop prevention errs only once the circumstances it relies on have. *)
(***************************************************************************)
EXTENDS BridgeLedger, BridgeProofs, FunctionTheorems

(* A step of the ledger is a step of the bridge.                           *)
LEMMA LedgerSteps == [LedgerNext]_lvars => [Next]_vars
BY DEF LedgerNext, lvars, Next, Environment, Z2lNext, L2zNext, L2zCheck,
       LedgerTake, LedgerTransmit, LedgerRecord, LedgerSuppress, LedgerCheckPast,
       LedgerOther

-----------------------------------------------------------------------------
(* How many messages of the bridge a queue holds.                          *)

(* The places of the bridge's own messages in a queue are finitely many.   *)
LEMMA PlacesFinite ==
  ASSUME NEW q \in Seq(Messages)
  PROVE  IsFiniteSet(OwnPlaces(q)) /\ Cardinality(OwnPlaces(q)) \in Nat
<1>1. Len(q) \in Nat
  BY LenProperties
<1>2. IsFiniteSet(1 .. Len(q))
  BY <1>1, FS_Interval
<1>. QED BY <1>2, FS_Subset, FS_CardinalityType DEF OwnPlaces

(* A datagram that enters the socket adds a place if it is the bridge's.   *)
LEMMA PlacesAppend ==
  ASSUME NEW q \in Seq(Messages), NEW m \in Messages
  PROVE  Cardinality(OwnPlaces(Append(q, m)))
           = Cardinality(OwnPlaces(q)) + (IF m.src = Self THEN 1 ELSE 0)
<1> DEFINE r == Append(q, m)
           n == Len(q) + 1
<1>1. /\ Len(q) \in Nat /\ Len(r) = n
      /\ \A i \in 1 .. n : r[i] = IF i = n THEN m ELSE q[i]
  BY QueueAppend
<1> HIDE DEF r
<1>2. n \notin OwnPlaces(q)
  BY <1>1 DEF OwnPlaces
<1>3. CASE m.src = Self
  <2>1. OwnPlaces(r) = OwnPlaces(q) \cup {n}
    BY <1>1, <1>3 DEF OwnPlaces
  <2>. QED BY <1>2, <1>3, <2>1, PlacesFinite, FS_AddElement DEF r
<1>4. CASE m.src # Self
  <2>1. OwnPlaces(r) = OwnPlaces(q)
    BY <1>1, <1>4 DEF OwnPlaces
  <2>. QED BY <1>4, <2>1, PlacesFinite DEF r
<1>. QED BY <1>3, <1>4

(* A message taken off the head gives up a place if it is the bridge's.    *)
LEMMA PlacesTail ==
  ASSUME NEW q \in Seq(Messages), q # <<>>
  PROVE  Cardinality(OwnPlaces(q))
           = Cardinality(OwnPlaces(Tail(q))) + (IF Head(q).src = Self THEN 1 ELSE 0)
<1> DEFINE r == Tail(q)
           shift == [i \in OwnPlaces(r) |-> i + 1]
           moved == OwnPlaces(q) \ {1}
<1>1. /\ r \in Seq(Messages) /\ Len(q) \in Nat /\ 1 \in 1 .. Len(q)
      /\ Len(r) = Len(q) - 1 /\ Head(q) = q[1]
      /\ \A i \in 1 .. Len(r) : r[i] = q[i + 1]
  BY QueueTail
<1> HIDE DEF r
<1>2. Cardinality(moved) = Cardinality(OwnPlaces(r))
  <2>1. shift \in [OwnPlaces(r) -> moved]
    BY <1>1 DEF OwnPlaces
  <2>2. \A a, b \in OwnPlaces(r) : shift[a] = shift[b] => a = b
    BY <1>1 DEF OwnPlaces
  <2>3. \A t \in moved : \E s \in OwnPlaces(r) : shift[s] = t
    <3>1. SUFFICES ASSUME NEW t \in moved PROVE t - 1 \in OwnPlaces(r) /\ shift[t - 1] = t
      OBVIOUS
    <3>2. t \in 2 .. Len(q) /\ q[t].src = Self
      BY <1>1 DEF OwnPlaces
    <3>3. t - 1 \in 1 .. Len(r) /\ r[t - 1] = q[t]
      BY <1>1, <3>2
    <3>4. t - 1 \in OwnPlaces(r)
      BY <3>2, <3>3 DEF OwnPlaces
    <3>. QED BY <3>2, <3>4
  <2>4. shift \in Bijection(OwnPlaces(r), moved)
    BY <2>1, <2>2, <2>3, Fun_IsBij
  <2>5. ExistsBijection(OwnPlaces(r), moved)
    BY <2>4, Fun_ExistsBij
  <2>. QED BY <1>1, <2>5, PlacesFinite, FS_Bijection
<1>3. /\ Cardinality(moved) = IF 1 \in OwnPlaces(q) THEN Cardinality(OwnPlaces(q)) - 1
                                                    ELSE Cardinality(OwnPlaces(q))
      /\ Cardinality(OwnPlaces(q)) \in Nat
  BY PlacesFinite, FS_RemoveElement
<1>4. 1 \in OwnPlaces(q) <=> Head(q).src = Self
  BY <1>1 DEF OwnPlaces
<1>. QED BY <1>2, <1>3, <1>4 DEF r

-----------------------------------------------------------------------------
(* Records and loopbacks balance.                                          *)

LedgerType == unsettled \in Int /\ IsFiniteSet(sent_sequences)

AccountsInv == TypeOK /\ LedgerType /\ AccountsBalance

(* The terms of the balance are integers.                                  *)
LEMMA TermsType ==
  ASSUME AccountsInv
  PROVE  /\ unsettled \in Int
         /\ Cardinality(sent_sequences) \in Nat
         /\ Cardinality(OwnPlaces(socket)) \in Nat
         /\ Returning \in Nat
BY PlacesFinite, FS_CardinalityType DEF AccountsInv, TypeOK, LedgerType, Returning

(* A multicast message is on its way back or lost, and its record is due.  *)
LEMMA AccountsTransmit ==
  AccountsInv /\ LedgerTransmit => LedgerType' /\ AccountsBalance'
<1> SUFFICES ASSUME AccountsInv, LedgerTransmit PROVE LedgerType' /\ AccountsBalance'
  OBVIOUS
<1> DEFINE loss == IF socket' = socket THEN 1 ELSE 0
<1>1. /\ socket \in Seq(Messages) /\ z2l_msg \in Messages /\ z2l_msg.src = Self
      /\ z2l_pc = "send" /\ z2l_pc' = "record"
      /\ UNCHANGED <<sent_sequences, l2z_pc, l2z_msg>>
  BY DEF AccountsInv, TypeOK, LedgerTransmit, Z2lTransmit, l2z_vars
<1>2. unsettled' = unsettled + loss
  BY DEF LedgerTransmit, Book
<1>3. Returning' = Returning + 1 - loss
  <2>1. CASE socket' = socket
    BY <1>1, <2>1, TermsType DEF Returning
  <2>2. CASE socket' = Append(socket, z2l_msg)
    <3>1. socket' # socket
      BY <1>1, <2>2, QueueAppend
    <3>2. Cardinality(OwnPlaces(socket')) = Cardinality(OwnPlaces(socket)) + 1
      BY <1>1, <2>2, TermsType, PlacesAppend
    <3>. QED BY <1>1, <3>1, <3>2, TermsType DEF Returning
  <2>. QED BY <2>1, <2>2 DEF LedgerTransmit, Z2lTransmit
<1>4. loss \in Int
  OBVIOUS
<1> HIDE DEF loss
<1>5. LedgerType'
  BY <1>1, <1>2, <1>4 DEF AccountsInv, LedgerType
<1>6. AccountsBalance'
  BY <1>1, <1>2, <1>3, <1>4, TermsType DEF AccountsInv, AccountsBalance
<1>. QED BY <1>5, <1>6

(* Recording adds one record, renewed or new, and pruning books what it    *)
(* throws away.                                                            *)
LEMMA AccountsRecord ==
  AccountsInv /\ LedgerRecord => LedgerType' /\ AccountsBalance'
<1> SUFFICES ASSUME AccountsInv, LedgerRecord PROVE LedgerType' /\ AccountsBalance'
  OBVIOUS
<1> DEFINE recorded == sent_sequences \cup {z2l_msg.seq}
           again == IF z2l_msg.seq \in sent_sequences THEN 1 ELSE 0
           gone == Cardinality(recorded) - Cardinality(sent_sequences')
<1>1. /\ z2l_pc = "record" /\ z2l_pc' = "recv"
      /\ sent_sequences' \subseteq recorded
      /\ UNCHANGED <<socket, l2z_pc, l2z_msg>>
  BY DEF LedgerRecord, Z2lRecord, l2z_vars, prune_sent_sequences
<1>2. /\ IsFiniteSet(recorded)
      /\ Cardinality(recorded) = Cardinality(sent_sequences) + 1 - again
      /\ IsFiniteSet(sent_sequences') /\ Cardinality(sent_sequences') \in Nat
  <2>1. IsFiniteSet(sent_sequences) /\ Cardinality(sent_sequences) \in Nat
    BY FS_CardinalityType DEF AccountsInv, LedgerType
  <2>2. /\ IsFiniteSet(recorded)
        /\ Cardinality(recorded) = IF z2l_msg.seq \in sent_sequences
                                   THEN Cardinality(sent_sequences)
                                   ELSE Cardinality(sent_sequences) + 1
    BY <2>1, FS_AddElement
  <2>3. IsFiniteSet(sent_sequences')
    BY <1>1, <2>2, FS_Subset
  <2>4. Cardinality(sent_sequences') \in Nat
    BY <2>3, FS_CardinalityType
  <2> QED
    BY <2>1, <2>2, <2>3, <2>4
<1>3. unsettled' = unsettled + (- gone - again)
  BY DEF LedgerRecord, Book
<1>4. Returning' = Returning
  BY <1>1 DEF Returning
<1>5. gone \in Int /\ again \in Int
  BY <1>2, TermsType
<1>6. Cardinality(sent_sequences') + gone + again = Cardinality(sent_sequences) + 1
  BY <1>2, <1>5, TermsType
<1> HIDE DEF gone, again, recorded
<1>7. LedgerType'
  BY <1>2, <1>3, <1>5, TermsType DEF LedgerType
<1>8. AccountsBalance'
  BY <1>1, <1>2, <1>3, <1>4, <1>5, <1>6, TermsType DEF AccountsInv, AccountsBalance
<1>. QED BY <1>7, <1>8

(* Suppressing a message spends one record: on a loopback, or on another   *)
(* program's message, which is booked.                                     *)
LEMMA AccountsSuppress ==
  AccountsInv /\ LedgerSuppress => LedgerType' /\ AccountsBalance'
<1> SUFFICES ASSUME AccountsInv, LedgerSuppress PROVE LedgerType' /\ AccountsBalance'
  OBVIOUS
<1> DEFINE own == IF l2z_msg.src = Self THEN 1 ELSE 0
<1>1. /\ l2z_pc = "check" /\ l2z_pc' = "recv"
      /\ l2z_msg.seq \in sent_sequences
      /\ sent_sequences' = sent_sequences \ {l2z_msg.seq}
      /\ UNCHANGED <<socket, z2l_pc>>
  BY DEF LedgerSuppress, L2zSuppress, z2l_vars
<1>2. /\ IsFiniteSet(sent_sequences')
      /\ Cardinality(sent_sequences') = Cardinality(sent_sequences) - 1
  BY <1>1, FS_RemoveElement DEF AccountsInv, LedgerType
<1>3. unsettled' = unsettled + (own - 1)
  BY TermsType DEF LedgerSuppress, Book
<1>4. Returning' = Returning - own
  BY <1>1, TermsType DEF Returning
<1>5. own \in Int
  OBVIOUS
<1> HIDE DEF own
<1>. QED BY <1>1, <1>2, <1>3, <1>4, <1>5, TermsType
     DEF AccountsInv, LedgerType, AccountsBalance

(* A message that passes the check leaves its record, if it has one, alone. *)
LEMMA AccountsCheckPast ==
  AccountsInv /\ LedgerCheckPast => LedgerType' /\ AccountsBalance'
<1> SUFFICES ASSUME AccountsInv, LedgerCheckPast PROVE LedgerType' /\ AccountsBalance'
  OBVIOUS
<1> DEFINE own == IF l2z_msg.src = Self THEN 1 ELSE 0
<1>1. /\ l2z_pc = "check" /\ l2z_pc' # "check"
      /\ UNCHANGED <<socket, z2l_pc, sent_sequences>>
  BY DEF LedgerCheckPast, L2zSkip, L2zPass, z2l_vars
<1>2. unsettled' = unsettled + own
  BY DEF LedgerCheckPast, Book
<1>3. Returning' = Returning - own
  BY <1>1, TermsType DEF Returning
<1>. QED BY <1>1, <1>2, <1>3, TermsType DEF AccountsInv, LedgerType, AccountsBalance

(* The other steps change neither a record nor how many of the bridge's    *)
(* messages are on their way back.                                         *)
LEMMA AccountsOther ==
  ASSUME AccountsInv, LedgerTake \/ LedgerOther \/ UNCHANGED lvars
  PROVE  LedgerType' /\ AccountsBalance'
<1>1. UNCHANGED <<sent_sequences, unsettled>> /\ (z2l_pc' = "record" <=> z2l_pc = "record")
  BY DEF LedgerTake, LedgerOther, Z2lTake, Environment, SampleArrives, AppSends,
         Z2lDeclare, Z2lRecvFails, Z2lSkip, Z2lSendFails, L2zRecv, L2zPublish,
         z2l_vars, l2z_vars, lvars, vars
<1>2. Returning' = Returning
  <2>1. CASE AppSends
    <3>1. PICK m \in Messages : m.src \in Apps /\ socket' = Append(socket, m)
      BY <2>1 DEF AppSends
    <3>2. Cardinality(OwnPlaces(socket')) = Cardinality(OwnPlaces(socket))
      BY <3>1, OriginsAssumption, PlacesAppend, TermsType DEF AccountsInv, TypeOK
    <3>. QED BY <2>1, <3>2 DEF AppSends, Returning, l2z_vars
  <2>2. CASE L2zRecv
    <3>1. /\ socket \in Seq(Messages) /\ socket # <<>> /\ socket' = Tail(socket)
          /\ l2z_pc = "recv" /\ l2z_pc' = "check" /\ l2z_msg' = Head(socket)
      BY <2>2 DEF L2zRecv, AccountsInv, TypeOK
    <3>2. /\ Cardinality(OwnPlaces(socket)) = Cardinality(OwnPlaces(socket'))
                + (IF l2z_msg'.src = Self THEN 1 ELSE 0)
          /\ Cardinality(OwnPlaces(socket')) \in Nat
      BY <3>1, PlacesTail, PlacesFinite, QueueTail
    <3>. QED BY <3>1, <3>2 DEF Returning
  <2>3. CASE /\ UNCHANGED socket
             /\ \/ UNCHANGED <<l2z_pc, l2z_msg>>
                \/ l2z_pc # "check" /\ l2z_pc' # "check"
    BY <2>3 DEF Returning
  <2>. QED BY <2>1, <2>2, <2>3
       DEF LedgerTake, LedgerOther, Z2lTake, Environment, SampleArrives, Z2lDeclare,
           Z2lRecvFails, Z2lSkip, Z2lSendFails, L2zPublish, z2l_vars, l2z_vars, lvars, vars
<1>. QED BY <1>1, <1>2 DEF AccountsInv, LedgerType, AccountsBalance

(* Hence the balance is inductive.                                         *)
LEMMA AccountsNext == AccountsInv /\ [LedgerNext]_lvars => AccountsInv'
<1>1. AccountsInv /\ [LedgerNext]_lvars => TypeOK'
  BY LedgerSteps, NextType DEF AccountsInv
<1>2. AccountsInv /\ [LedgerNext]_lvars => LedgerType' /\ AccountsBalance'
  BY AccountsTransmit, AccountsRecord, AccountsSuppress, AccountsCheckPast, AccountsOther
  DEF LedgerNext
<1>. QED BY <1>1, <1>2 DEF AccountsInv

(* At the start nothing has been recorded and nothing is on its way.       *)
LEMMA AccountsInit == LedgerInit => AccountsInv
<1> SUFFICES ASSUME LedgerInit PROVE AccountsInv
  OBVIOUS
<1>1. TypeOK /\ LedgerType
  BY InitType, FS_EmptySet DEF LedgerInit, Init, LedgerType
<1>2. OwnPlaces(socket) = {}
  BY EmptySeq DEF LedgerInit, Init, OwnPlaces
<1>3. sent_sequences = {} /\ Cardinality({}) = 0 /\ unsettled = 0
  BY FS_EmptySet DEF LedgerInit, Init
<1>4. z2l_pc # "record" /\ Returning = 0
  <2>1. z2l_pc # "record" /\ l2z_pc # "check"
    BY DEF LedgerInit, Init
  <2>2. Cardinality(OwnPlaces(socket)) = 0
    BY <1>2, <1>3
  <2>. QED BY <2>1, <2>2 DEF Returning
<1>. QED BY <1>1, <1>3, <1>4 DEF AccountsInv, AccountsBalance

(* And it holds in every run, whatever the circumstances.                  *)
LEMMA AccountsInvariant == LedgerSpec => []AccountsInv
BY AccountsInit, AccountsNext, PTL DEF LedgerSpec

(* Every record of a sent number is matched by a loopback under way, lost  *)
(* or checked too early, so that the number of foreign messages taken for  *)
(* loopbacks never exceeds the number of loopbacks that did not settle     *)
(* their own record (zenoh_to_lcm.rs:108-114, lcm_to_zenoh.rs:44-54).      *)
THEOREM AccountsAlwaysBalance == LedgerSpec => []AccountsBalance
<1>1. AccountsInv => AccountsBalance
  BY DEF AccountsInv
<1>. QED BY <1>1, AccountsInvariant, PTL

-----------------------------------------------------------------------------
(* Loop prevention, as long as its circumstances last.                     *)

WhileTimely == timely => TimelyInv

(* A step that keeps the circumstances keeps what holds in them.           *)
LEMMA WhileTimelyNext == WhileTimely /\ [LedgerNext]_lvars => WhileTimely'
<1> SUFFICES ASSUME WhileTimely, [LedgerNext]_lvars, timely' PROVE TimelyInv'
  BY DEF WhileTimely
<1>1. timely /\ [Next /\ Timely']_vars
  <2>1. CASE LedgerNext
    BY <2>1, LedgerSteps DEF LedgerNext
  <2>2. CASE UNCHANGED lvars
    BY <2>2 DEF lvars
  <2>. QED BY <2>1, <2>2
<1>. QED BY <1>1, TimelyNext DEF WhileTimely

(* So it holds in every run.                                               *)
LEMMA WhileTimelyInvariant == LedgerSpec => []WhileTimely
<1>1. LedgerInit => WhileTimely
  BY TimelyInit DEF LedgerInit, WhileTimely
<1>. QED BY <1>1, WhileTimelyNext, PTL DEF LedgerSpec

(* As long as loopbacks are not read before their number is recorded, no   *)
(* other program uses a number the bridge is using and the LCM -> Zenoh    *)
(* task is at most a window behind, no message the bridge sent to LCM is   *)
(* published back to Zenoh (zenoh_to_lcm.rs:31-33, lcm_to_zenoh.rs:43-54). *)
THEOREM NeverEchoesWhileTimely == LedgerSpec => []NoEchoWhileTimely
<1>1. WhileTimely => NoEchoWhileTimely
  BY DEF WhileTimely, TimelyInv, NoEchoWhileTimely
<1>. QED BY <1>1, WhileTimelyInvariant, PTL

(* In the same circumstances every message of the bridge that is on its    *)
(* way back is on record, or about to be: pruning never throws away a      *)
(* record that is still needed (zenoh_to_lcm.rs:19-24, 108-113).           *)
THEOREM AlwaysOnRecordWhileTimely == LedgerSpec => []OnRecordWhileTimely
<1>1. WhileTimely => OnRecordWhileTimely
  BY DEF WhileTimely, TimelyInv, OnRecordWhileTimely
<1>. QED BY <1>1, WhileTimelyInvariant, PTL

-----------------------------------------------------------------------------
(* Until the counter wraps, pruning bounds the shared set.                 *)

\* Before the wrap, taken is the counter, every record is below
\* it, and the number being sent is the last one taken.
NumbersInOrder ==
  /\ taken < SeqMod => seq_counter = taken
  /\ \A s \in sent_sequences : s < taken
  /\ z2l_pc \in {"send", "record"} => z2l_msg.seq = taken - 1

BoundInv ==
  /\ AccountsInv
  /\ taken \in Nat
  /\ taken <= SeqMod => NumbersInOrder /\ Cardinality(sent_sequences) <= PruneAt

(* A set of numbers up to the latest is within the limit once pruned: the  *)
(* window and the latest number are no more than PruneAt numbers.          *)
LEMMA PrunedSetSmall ==
  ASSUME NEW latest \in Nat, NEW seqs, seqs \subseteq 0 .. latest
  PROVE  /\ IsFiniteSet(seqs)
         /\ Cardinality(prune_sent_sequences(seqs, latest)) <= PruneAt
<1>1. IsFiniteSet(seqs) /\ Cardinality(seqs) \in Nat
  <2>1. IsFiniteSet(0 .. latest)
    BY FS_Interval
  <2>. QED BY <2>1, FS_Subset, FS_CardinalityType
<1>2. CASE Cardinality(seqs) > PruneAt
  <2> DEFINE kept == {s \in seqs : s >= Cutoff(latest)}
             low == Cutoff(latest)
  <2>1. low \in Nat /\ low <= latest /\ latest - low <= Window
    BY WindowAssumption DEF Cutoff
  <2>2. kept \subseteq low .. latest
    <3>1. \A s \in kept : s \in 0 .. latest /\ s >= low
      OBVIOUS
    <3> HIDE DEF kept, low
    <3>2. \A s \in kept : s \in low .. latest
      BY <2>1, <3>1
    <3>. QED BY <3>2
  <2>3. /\ IsFiniteSet(low .. latest)
        /\ Cardinality(low .. latest) = latest - low + 1
    <3> HIDE DEF low
    <3>1. low \in Int /\ latest \in Int /\ ~ (low > latest)
      BY <2>1
    <3>. QED BY <3>1, FS_Interval
  <2>4. Cardinality(kept) \in Nat /\ Cardinality(kept) <= Cardinality(low .. latest)
    BY <2>2, <2>3, FS_Subset, FS_CardinalityType
  <2>5. prune_sent_sequences(seqs, latest) = kept
    BY <1>2 DEF prune_sent_sequences
  <2> HIDE DEF kept, low
  <2>6. Cardinality(kept) <= PruneAt
    BY <2>1, <2>3, <2>4, WindowAssumption
  <2>. QED BY <1>1, <2>5, <2>6
<1>3. CASE ~ (Cardinality(seqs) > PruneAt)
  BY <1>1, <1>3, WindowAssumption DEF prune_sent_sequences
<1>. QED BY <1>1, <1>2, <1>3

(* Only taking a number changes the count of numbers taken.                *)
LEMMA TakenSame ==
  ASSUME [LedgerNext]_lvars, ~ LedgerTake
  PROVE  taken' = taken
BY DEF LedgerNext, LedgerTransmit, LedgerRecord, LedgerSuppress, LedgerCheckPast,
       LedgerOther, lvars

(* Taking a number keeps the numbers in order up to the wrap.              *)
LEMMA BoundTake ==
  ASSUME BoundInv, [LedgerNext]_lvars, LedgerTake
  PROVE  BoundInv'
<1>1. AccountsInv'
  BY AccountsNext DEF BoundInv
<1>2. /\ taken \in Nat /\ SeqMod \in Nat
      /\ taken' = IF taken <= SeqMod THEN taken + 1 ELSE taken
  BY SeqModAssumption DEF BoundInv, LedgerTake
<1>3. /\ UNCHANGED sent_sequences
      /\ z2l_msg'.seq = seq_counter /\ seq_counter' = (seq_counter + 1) % SeqMod
  BY DEF LedgerTake, Z2lTake
<1>4. ASSUME taken' <= SeqMod
      PROVE  NumbersInOrder' /\ Cardinality(sent_sequences') <= PruneAt
  <2>1. taken' = taken + 1 /\ taken < SeqMod /\ taken <= SeqMod
    BY <1>2, <1>4
  <2>2. /\ seq_counter = taken
        /\ \A s \in sent_sequences : s < taken
        /\ Cardinality(sent_sequences) <= PruneAt
        /\ sent_sequences \subseteq Nat
    BY <2>1 DEF BoundInv, NumbersInOrder, AccountsInv, TypeOK, SeqNumbers
  <2>3. taken' < SeqMod => seq_counter' = taken'
    BY <1>2, <1>3, <2>1, <2>2
  <2>4. \A s \in sent_sequences' : s < taken'
    BY <1>2, <1>3, <2>1, <2>2
  <2>5. z2l_msg'.seq = taken' - 1
    BY <1>2, <1>3, <2>1, <2>2
  <2>. QED BY <1>3, <2>2, <2>3, <2>4, <2>5 DEF NumbersInOrder
<1>. QED BY <1>1, <1>2, <1>4 DEF BoundInv

(* Recording inserts the latest number, and prunes what has become too much. *)
LEMMA BoundRecord ==
  ASSUME BoundInv, [LedgerNext]_lvars, LedgerRecord
  PROVE  BoundInv'
<1> DEFINE recorded == sent_sequences \cup {z2l_msg.seq}
<1>1. AccountsInv'
  BY AccountsNext DEF BoundInv
<1>2. taken \in Nat /\ taken' = taken
  BY DEF BoundInv, LedgerRecord
<1>3. /\ z2l_pc = "record" /\ z2l_pc' = "recv" /\ UNCHANGED seq_counter
      /\ sent_sequences' = prune_sent_sequences(recorded, z2l_msg.seq)
      /\ z2l_msg.seq \in Nat /\ sent_sequences \subseteq Nat
  BY MessageFields
  DEF LedgerRecord, Z2lRecord, BoundInv, AccountsInv, TypeOK, SeqNumbers
<1>4. ASSUME taken' <= SeqMod
      PROVE  NumbersInOrder' /\ Cardinality(sent_sequences') <= PruneAt
  <2>1. NumbersInOrder
    BY <1>2, <1>4 DEF BoundInv
  <2>2. z2l_msg.seq = taken - 1 /\ \A s \in sent_sequences : s < taken
    BY <1>3, <2>1 DEF NumbersInOrder
  <2>3. recorded \subseteq 0 .. z2l_msg.seq
    <3>1. \A s \in recorded : s \in 0 .. z2l_msg.seq
      BY <1>2, <1>3, <2>2
    <3>. QED BY <3>1
  <2>4. Cardinality(sent_sequences') <= PruneAt
    BY <1>3, <2>3, PrunedSetSmall
  <2>5. \A s \in sent_sequences' : s < taken'
    <3>1. sent_sequences' \subseteq recorded
      BY <1>3 DEF prune_sent_sequences
    <3>. QED BY <1>2, <2>2, <3>1
  <2>. QED BY <1>2, <1>3, <2>1, <2>4, <2>5 DEF NumbersInOrder
<1>. QED BY <1>1, <1>2, <1>4 DEF BoundInv

(* The other steps take records away at most.                              *)
LEMMA BoundOther ==
  ASSUME BoundInv, [LedgerNext]_lvars, ~ LedgerTake, ~ LedgerRecord
  PROVE  BoundInv'
<1>1. AccountsInv'
  BY AccountsNext DEF BoundInv
<1>2. taken \in Nat /\ taken' = taken
  BY TakenSame DEF BoundInv
<1>3. /\ sent_sequences' \subseteq sent_sequences /\ UNCHANGED seq_counter
      /\ z2l_pc' \in {"send", "record"} => z2l_pc \in {"send", "record"} /\ UNCHANGED z2l_msg
  BY DEF LedgerNext, LedgerTransmit, LedgerSuppress, LedgerCheckPast, LedgerOther,
         Environment, SampleArrives, AppSends, Z2lDeclare, Z2lRecvFails, Z2lSkip,
         Z2lTransmit, Z2lSendFails, L2zRecv, L2zSuppress, L2zSkip, L2zPass, L2zPublish,
         z2l_vars, l2z_vars, vars, lvars
<1>4. Cardinality(sent_sequences') <= Cardinality(sent_sequences)
      /\ Cardinality(sent_sequences') \in Nat /\ Cardinality(sent_sequences) \in Nat
  BY <1>3, FS_Subset, FS_CardinalityType DEF BoundInv, AccountsInv, LedgerType
<1>5. ASSUME taken' <= SeqMod
      PROVE  NumbersInOrder' /\ Cardinality(sent_sequences') <= PruneAt
  <2>1. NumbersInOrder /\ Cardinality(sent_sequences) <= PruneAt
    BY <1>2, <1>5 DEF BoundInv
  <2>2. NumbersInOrder'
    BY <1>2, <1>3, <2>1 DEF NumbersInOrder
  <2>. QED BY <1>4, <2>1, <2>2, WindowAssumption
<1>. QED BY <1>1, <1>2, <1>5 DEF BoundInv

(* The bound holds at the start and is kept by every step.                 *)
LEMMA BoundInvariant == LedgerSpec => []BoundInv
<1>1. LedgerInit => BoundInv
  BY AccountsInit, FS_EmptySet, SeqModAssumption, WindowAssumption
  DEF LedgerInit, Init, BoundInv, NumbersInOrder
<1>2. BoundInv /\ [LedgerNext]_lvars => BoundInv'
  BY BoundTake, BoundRecord, BoundOther
<1>. QED BY <1>1, <1>2, PTL DEF LedgerSpec

(* Until the u32 counter has wrapped, the set shared by the two tasks      *)
(* holds at most 10_000 numbers between two critical sections, however     *)
(* many loopbacks are lost (zenoh_to_lcm.rs:14-24, 109-114).               *)
THEOREM SentSetStaysBounded == LedgerSpec => []SentSetBounded
<1>1. BoundInv => SentSetBounded
  BY DEF BoundInv, SentSetBounded
<1>. QED BY <1>1, BoundInvariant, PTL
=============================================================================
