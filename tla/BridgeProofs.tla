---------------------------- MODULE BridgeProofs ----------------------------
(***************************************************************************)
(* Proofs about Bridge, for every value of its constants.                  *)
(***************************************************************************)
EXTENDS Bridge, SequenceTheorems, FiniteSetTheorems, TLAPS

(* What a FIFO of elements of S is after an Append or a Tail.              *)
LEMMA QueueAppend ==
  ASSUME NEW S, NEW q \in Seq(S), NEW e \in S
  PROVE  /\ Append(q, e) \in Seq(S)
         /\ Len(q) \in Nat
         /\ Len(Append(q, e)) = Len(q) + 1
         /\ \A i \in 1 .. Len(q) + 1 :
              Append(q, e)[i] = IF i = Len(q) + 1 THEN e ELSE q[i]
BY AppendProperties, LenProperties

(* What a FIFO loses when its head is received.                             *)
LEMMA QueueTail ==
  ASSUME NEW S, NEW q \in Seq(S), q # <<>>
  PROVE  /\ Tail(q) \in Seq(S)
         /\ Head(q) \in S
         /\ Head(q) = q[1]
         /\ Len(q) \in Nat /\ 1 \in 1 .. Len(q)
         /\ Len(Tail(q)) = Len(q) - 1
         /\ \A i \in 1 .. Len(Tail(q)) : i + 1 \in 1 .. Len(q) /\ Tail(q)[i] = q[i + 1]
BY HeadTailProperties, EmptySeq, LenProperties

(* The fields of a message, whoever sent it.                               *)
LEMMA MessageFields ==
  ASSUME NEW m \in Messages
  PROVE  /\ m # NoMessage
         /\ m.seq \in SeqNumbers
         /\ m.src \in {Self} \cup Apps
BY NoMessageAssumption DEF Messages

(* The type invariant holds of every execution: the pc of each task        *)
(* determines whether it holds a message, and the message the              *)
(* Zenoh -> LCM task sends is always one of the bridge's own.              *)
LEMMA InitType == Init => TypeOK
<1>1. 0 \in SeqNumbers
  BY SeqModAssumption DEF SeqNumbers
<1>. QED BY <1>1, CapsAssumption, EmptySeq DEF Init, TypeOK

(* Every step of the two tasks and of their environment keeps the types.   *)
LEMMA NextType == TypeOK /\ [Next]_vars => TypeOK'
<1> SUFFICES ASSUME TypeOK, [Next]_vars PROVE TypeOK'
  OBVIOUS
<1> USE DEF TypeOK
<1>1. CASE Z2lDeclare
  BY <1>1 DEF Z2lDeclare, l2z_vars
<1>2. CASE SampleArrives
  <2>1. PICK sample \in Samples : subscriber' = Append(subscriber, sample)
    BY <1>2 DEF SampleArrives
  <2>2. subscriber' \in Seq(Samples) /\ Len(subscriber') <= SubscriberCap
    BY <1>2, <2>1, QueueAppend, CapsAssumption DEF SampleArrives
  <2>. QED BY <1>2, <2>2 DEF SampleArrives, l2z_vars
<1>3. CASE Z2lRecvFails
  BY <1>3 DEF Z2lRecvFails, l2z_vars
<1>4. CASE Z2lSkip
  <2>1. subscriber' \in Seq(Samples) /\ Len(subscriber') <= SubscriberCap
    BY <1>4, QueueTail, CapsAssumption DEF Z2lSkip
  <2>. QED BY <1>4, <2>1 DEF Z2lSkip, l2z_vars
<1>5. CASE Z2lTake
  <2>1. subscriber' \in Seq(Samples) /\ Len(subscriber') <= SubscriberCap
    BY <1>5, QueueTail, CapsAssumption DEF Z2lTake
  <2>2. seq_counter' \in SeqNumbers
    BY <1>5, SeqModAssumption DEF Z2lTake, SeqNumbers
  <2>3. Head(subscriber) \in Samples
    BY <1>5, QueueTail DEF Z2lTake
  <2>4. z2l_msg' \in Messages /\ z2l_msg'.src = Self
    BY <1>5, <2>3 DEF Z2lTake, RelayedToLcm, Samples, Messages
  <2>. QED BY <1>5, <2>1, <2>2, <2>4 DEF Z2lTake, l2z_vars
<1>6. CASE Z2lTransmit
  <2>1. socket' \in Seq(Messages) /\ Len(socket') <= SocketCap
    BY <1>6, QueueAppend, CapsAssumption DEF Z2lTransmit
  <2>. QED BY <1>6, <2>1 DEF Z2lTransmit, l2z_vars
<1>7. CASE Z2lSendFails
  BY <1>7 DEF Z2lSendFails, l2z_vars
<1>8. CASE Z2lRecord
  <2>1. z2l_msg.seq \in SeqNumbers
    BY <1>8, MessageFields DEF Z2lRecord
  <2>2. sent_sequences' \subseteq SeqNumbers
    BY <1>8, <2>1 DEF Z2lRecord, prune_sent_sequences
  <2>. QED BY <1>8, <2>2 DEF Z2lRecord, l2z_vars
<1>9. CASE AppSends
  <2>1. PICK m \in Messages : socket' = Append(socket, m)
    BY <1>9 DEF AppSends
  <2>2. socket' \in Seq(Messages) /\ Len(socket') <= SocketCap
    BY <1>9, <2>1, QueueAppend, CapsAssumption DEF AppSends
  <2>. QED BY <1>9, <2>2 DEF AppSends, z2l_vars, l2z_vars
<1>10. CASE L2zRecv
  <2>1. socket' \in Seq(Messages) /\ Len(socket') <= SocketCap /\ l2z_msg' \in Messages
    BY <1>10, QueueTail, CapsAssumption DEF L2zRecv
  <2>. QED BY <1>10, <2>1 DEF L2zRecv, z2l_vars
<1>11. CASE L2zSuppress
  BY <1>11 DEF L2zSuppress, z2l_vars
<1>12. CASE L2zSkip
  BY <1>12 DEF L2zSkip, z2l_vars
<1>13. CASE L2zPass
  BY <1>13 DEF L2zPass, z2l_vars
<1>14. CASE L2zPublish
  BY <1>14 DEF L2zPublish, z2l_vars
<1>15. CASE UNCHANGED vars
  BY <1>15 DEF vars, z2l_vars, l2z_vars
<1>. QED
  BY <1>1, <1>2, <1>3, <1>4, <1>5, <1>6, <1>7, <1>8, <1>9, <1>10, <1>11, <1>12,
     <1>13, <1>14, <1>15 DEF Next, Environment, Z2lNext, L2zNext, L2zCheck

(* Both tasks hold a message exactly between taking it up and letting it   *)
(* go, and the counter, the set and the queues stay in their ranges        *)
(* (zenoh_to_lcm.rs:65-123, lcm_to_zenoh.rs:34-99).                        *)
THEOREM TypeCorrect == Spec => []TypeOK
BY InitType, NextType, PTL DEF Spec

-----------------------------------------------------------------------------
(* Pruning.                                                                *)

(* A number that the cutoff drops is more than a window old. The counter   *)
(* may have wrapped: then the numbers above latest are older, but the      *)
(* cutoff, which saturates at 0, never reaches them.                       *)
LEMMA CutoffSparesRecent ==
  ASSUME NEW latest \in SeqNumbers, NEW s \in SeqNumbers,
         Age(latest, s) <= Window
  PROVE  s >= Cutoff(latest)
BY WindowAssumption, SeqModAssumption DEF Age, Cutoff, SeqNumbers

(* What pruning keeps: everything that is at most a window old, and        *)
(* nothing that was not there.                                             *)
LEMMA PruneKeepsRecent ==
  ASSUME NEW latest \in SeqNumbers, NEW seqs \in SUBSET SeqNumbers
  PROVE  /\ prune_sent_sequences(seqs, latest) \subseteq seqs
         /\ \A s \in seqs : Age(latest, s) <= Window
                              => s \in prune_sent_sequences(seqs, latest)
BY CutoffSparesRecent DEF prune_sent_sequences

(* A loopback less than a window late is never deprived of its record, and *)
(* that includes the moment at which the counter wraps.                    *)
THEOREM PruneSafe == Spec => PruneSparesRecent
<1>1. TypeOK /\ [Next]_vars
        => [Z2lRecord => \A s \in sent_sequences \ sent_sequences' :
                           Age(z2l_msg.seq, s) > Window]_vars
  <2> SUFFICES ASSUME TypeOK, Z2lRecord,
                      NEW s \in sent_sequences, s \notin sent_sequences'
               PROVE  Age(z2l_msg.seq, s) > Window
    OBVIOUS
  <2>1. z2l_msg.seq \in SeqNumbers /\ sent_sequences \subseteq SeqNumbers
    BY MessageFields DEF TypeOK, Z2lRecord
  <2>2. ~ (Age(z2l_msg.seq, s) <= Window)
    BY <2>1, PruneKeepsRecent DEF Z2lRecord
  <2>3. Age(z2l_msg.seq, s) \in Int /\ Window \in Int
    BY <2>1, SeqModAssumption, WindowAssumption DEF Age, SeqNumbers
  <2>. QED BY <2>2, <2>3
<1>. QED BY <1>1, TypeCorrect, PTL DEF Spec, PruneSparesRecent

-----------------------------------------------------------------------------
(* Loop prevention, in the circumstances it relies on.                     *)

(* Where the bridge's own numbers and the foreign ones are.                *)
LEMMA Whereabouts ==
  ASSUME NEW q
  PROVE  /\ q \in OwnNumbers <=>
              \/ \E i \in 1 .. Len(socket) : socket[i].src = Self /\ socket[i].seq = q
              \/ l2z_pc = "check" /\ l2z_msg.src = Self /\ l2z_msg.seq = q
         /\ q \in ForeignNumbers <=>
              \/ \E i \in 1 .. Len(socket) : socket[i].src # Self /\ socket[i].seq = q
              \/ l2z_pc = "check" /\ l2z_msg.src # Self /\ l2z_msg.seq = q
BY DEF OwnNumbers, ForeignNumbers, Unchecked

(* Numbers under way are numbers of the counter.                           *)
LEMMA OwnNumbersType == TypeOK => OwnNumbers \subseteq SeqNumbers
<1> SUFFICES ASSUME TypeOK, NEW q \in OwnNumbers PROVE q \in SeqNumbers
  OBVIOUS
<1>1. \A i \in 1 .. Len(socket) : socket[i] \in Messages
  BY ElementOfSeq DEF TypeOK
<1>. QED BY <1>1, Whereabouts, MessageFields DEF TypeOK

(* While the task is at most a window behind, recording a number discards  *)
(* no record that is still needed.                                         *)
LEMMA RecordSparesLoopbacks ==
  ASSUME TypeOK, KeepsUp, NumberFresh, Z2lRecord,
         NEW q \in OwnNumbers, q \in sent_sequences \cup {z2l_msg.seq}
  PROVE  q \in sent_sequences'
<1> DEFINE latest == z2l_msg.seq
<1>1. latest \in SeqNumbers /\ q \in SeqNumbers
  BY OwnNumbersType, MessageFields DEF TypeOK, Z2lRecord
<1>2. seq_counter = (latest + 1) % SeqMod /\ Age(seq_counter, q) \in 1 .. Window + 1
  BY DEF KeepsUp, NumberFresh, Z2lRecord
<1>3. seq_counter = IF latest + 1 = SeqMod THEN 0 ELSE latest + 1
  BY <1>1, <1>2, SeqModAssumption DEF SeqNumbers
<1>4. Age(latest, q) <= Window
  BY <1>1, <1>2, <1>3, SeqModAssumption, WindowAssumption DEF Age, SeqNumbers
<1>. QED BY <1>1, <1>4, PruneKeepsRecent DEF Z2lRecord, TypeOK

(* Nothing is under way at first.                                          *)
LEMMA TimelyInit == Init => TimelyInv
<1> SUFFICES ASSUME Init PROVE TimelyInv
  OBVIOUS
<1>1. Len(socket) = 0 /\ OwnNumbers = {} /\ ForeignNumbers = {}
  BY Whereabouts DEF Init
<1>. QED
  BY <1>1, InitType
  DEF Init, TimelyInv, Timely, LoopbackRecorded, NumbersApart, KeepsUp,
      EveryLoopbackOnRecord, LoopbacksDistinct, NumberFresh, NoEcho

(* The counter has not come round to a number still under way.             *)
LEMMA TimelyTake ==
  TimelyInv /\ Z2lTake
    => EveryLoopbackOnRecord' /\ LoopbacksDistinct' /\ NumberFresh' /\ NoEcho'
<1> SUFFICES ASSUME TimelyInv, Z2lTake
             PROVE  EveryLoopbackOnRecord' /\ LoopbacksDistinct' /\ NumberFresh' /\ NoEcho'
  OBVIOUS
<1>1. OwnNumbers' = OwnNumbers
  BY DEF Z2lTake, OwnNumbers, Unchecked, l2z_vars
<1>2. seq_counter \notin OwnNumbers
  BY SeqModAssumption DEF TimelyInv, Timely, KeepsUp, Age, TypeOK, SeqNumbers
<1>. QED
  BY <1>1, <1>2
  DEF Z2lTake, l2z_vars, TimelyInv, EveryLoopbackOnRecord, LoopbacksDistinct,
      NumberFresh, NoEcho

(* The loopback enters the socket; its record is what z2l is about to make. *)
LEMMA TimelyTransmit ==
  TimelyInv /\ Z2lTransmit
    => EveryLoopbackOnRecord' /\ LoopbacksDistinct' /\ NumberFresh' /\ NoEcho'
<1> SUFFICES ASSUME TimelyInv, Z2lTransmit
             PROVE  EveryLoopbackOnRecord' /\ LoopbacksDistinct' /\ NumberFresh' /\ NoEcho'
  OBVIOUS
<1> USE DEF Z2lTransmit, l2z_vars, TimelyInv
<1>1. z2l_msg \in Messages /\ z2l_msg.src = Self /\ socket \in Seq(Messages)
  BY DEF TypeOK
<1>2. z2l_msg.seq \notin OwnNumbers
  BY DEF NumberFresh
<1>3. CASE socket' = Append(socket, z2l_msg)
  <2>1. \A i \in 1 .. Len(socket') : socket'[i] =
          IF i = Len(socket) + 1 THEN z2l_msg ELSE socket[i]
    BY <1>1, <1>3, QueueAppend
  <2>2. Len(socket) \in Nat /\ Len(socket') = Len(socket) + 1
    BY <1>1, <1>3, QueueAppend
  <2>3. \A i \in 1 .. Len(socket') : i # Len(socket) + 1 => i \in 1 .. Len(socket)
    BY <2>2
  <2>4. OwnNumbers' \subseteq OwnNumbers \cup {z2l_msg.seq}
    <3> SUFFICES ASSUME NEW q \in OwnNumbers', q # z2l_msg.seq PROVE q \in OwnNumbers
      OBVIOUS
    <3>1. \/ \E i \in 1 .. Len(socket') : socket'[i].src = Self /\ socket'[i].seq = q
          \/ l2z_pc' = "check" /\ l2z_msg'.src = Self /\ l2z_msg'.seq = q
      BY DEF OwnNumbers, Unchecked
    <3>. QED BY <2>1, <2>3, <3>1, Whereabouts
  <2>5. LoopbacksDistinct'
    BY <1>2, <2>1, <2>3, Whereabouts DEF LoopbacksDistinct
  <2>. QED BY <2>4, <2>5 DEF EveryLoopbackOnRecord, NumberFresh, NoEcho
<1>4. CASE UNCHANGED socket
  <2>1. OwnNumbers' = OwnNumbers
    BY <1>4 DEF OwnNumbers, Unchecked
  <2>. QED
    BY <1>4, <2>1 DEF EveryLoopbackOnRecord, LoopbacksDistinct, NumberFresh, NoEcho
<1>. QED BY <1>3, <1>4

(* The record is made, and pruning spares the others that are needed.      *)
LEMMA TimelyRecord ==
  TimelyInv /\ Z2lRecord
    => EveryLoopbackOnRecord' /\ LoopbacksDistinct' /\ NumberFresh' /\ NoEcho'
<1> SUFFICES ASSUME TimelyInv, Z2lRecord
             PROVE  EveryLoopbackOnRecord' /\ LoopbacksDistinct' /\ NumberFresh' /\ NoEcho'
  OBVIOUS
<1>1. OwnNumbers' = OwnNumbers
  BY DEF Z2lRecord, OwnNumbers, Unchecked, l2z_vars
<1>2. OwnNumbers \subseteq sent_sequences'
  BY RecordSparesLoopbacks
  DEF TimelyInv, Timely, EveryLoopbackOnRecord, Z2lRecord
<1>. QED
  BY <1>1, <1>2
  DEF Z2lRecord, l2z_vars, TimelyInv, EveryLoopbackOnRecord, LoopbacksDistinct,
      NumberFresh, NoEcho

(* Another program's message adds no number of the bridge's own.           *)
LEMMA TimelyAppSends ==
  TimelyInv /\ AppSends
    => EveryLoopbackOnRecord' /\ LoopbacksDistinct' /\ NumberFresh' /\ NoEcho'
<1> SUFFICES ASSUME TimelyInv, AppSends
             PROVE  EveryLoopbackOnRecord' /\ LoopbacksDistinct' /\ NumberFresh' /\ NoEcho'
  OBVIOUS
<1> USE DEF z2l_vars, l2z_vars, TimelyInv
<1>1. PICK m \in Messages : m.src \in Apps /\ socket' = Append(socket, m)
  BY DEF AppSends
<1>2. m.src # Self
  BY <1>1, OriginsAssumption
<1>3. socket \in Seq(Messages)
  BY DEF TypeOK
<1>4. \A i \in 1 .. Len(socket') :
        socket'[i] = IF i = Len(socket) + 1 THEN m ELSE socket[i]
  BY <1>1, <1>3, QueueAppend
<1>5. \A i \in 1 .. Len(socket') : i # Len(socket) + 1 => i \in 1 .. Len(socket)
  BY <1>1, <1>3, QueueAppend
<1>6. OwnNumbers' \subseteq OwnNumbers
  <2> SUFFICES ASSUME NEW q \in OwnNumbers' PROVE q \in OwnNumbers
    OBVIOUS
  <2>1. \/ \E i \in 1 .. Len(socket') : socket'[i].src = Self /\ socket'[i].seq = q
        \/ l2z_pc' = "check" /\ l2z_msg'.src = Self /\ l2z_msg'.seq = q
    BY DEF OwnNumbers, Unchecked
  <2>. QED BY <1>2, <1>4, <1>5, <2>1, Whereabouts DEF AppSends
<1>7. LoopbacksDistinct'
  BY <1>2, <1>4, <1>5 DEF LoopbacksDistinct, AppSends
<1>. QED BY <1>6, <1>7 DEF AppSends, EveryLoopbackOnRecord, NumberFresh, NoEcho

(* The head of the socket moves to the check.                              *)
LEMMA TimelyRecv ==
  TimelyInv /\ L2zRecv
    => EveryLoopbackOnRecord' /\ LoopbacksDistinct' /\ NumberFresh' /\ NoEcho'
<1> SUFFICES ASSUME TimelyInv, L2zRecv
             PROVE  EveryLoopbackOnRecord' /\ LoopbacksDistinct' /\ NumberFresh' /\ NoEcho'
  OBVIOUS
<1> USE DEF z2l_vars, TimelyInv, L2zRecv
<1>1. socket \in Seq(Messages) /\ socket # <<>>
  BY DEF TypeOK
<1>2. /\ l2z_msg' = socket[1] /\ 1 \in 1 .. Len(socket)
      /\ \A i \in 1 .. Len(socket') :
           i + 1 \in 1 .. Len(socket) /\ socket'[i] = socket[i + 1]
  BY <1>1, QueueTail
<1>3. OwnNumbers' \subseteq OwnNumbers
  <2> SUFFICES ASSUME NEW q \in OwnNumbers' PROVE q \in OwnNumbers
    OBVIOUS
  <2>1. \/ \E i \in 1 .. Len(socket') : socket'[i].src = Self /\ socket'[i].seq = q
        \/ l2z_pc' = "check" /\ l2z_msg'.src = Self /\ l2z_msg'.seq = q
    BY DEF OwnNumbers, Unchecked
  <2>. QED BY <1>2, <2>1, Whereabouts
<1>4. LoopbacksDistinct'
  <2>1. \A i, j \in 1 .. Len(socket') : i # j => i + 1 # j + 1
    OBVIOUS
  <2>2. \A i \in 1 .. Len(socket') : i + 1 # 1
    OBVIOUS
  <2>. QED BY <1>2, <2>1, <2>2 DEF LoopbacksDistinct
<1>. QED BY <1>3, <1>4 DEF EveryLoopbackOnRecord, NumberFresh, NoEcho

(* A message is skipped: it is one of the bridge's own, whose record it    *)
(* uses up, and no other message under way needs that record.              *)
LEMMA TimelySuppress ==
  TimelyInv /\ L2zSuppress
    => EveryLoopbackOnRecord' /\ LoopbacksDistinct' /\ NumberFresh' /\ NoEcho'
<1> SUFFICES ASSUME TimelyInv, L2zSuppress
             PROVE  EveryLoopbackOnRecord' /\ LoopbacksDistinct' /\ NumberFresh' /\ NoEcho'
  OBVIOUS
<1> USE DEF z2l_vars, TimelyInv, L2zSuppress
<1>1. l2z_msg.src = Self
  BY Whereabouts DEF Timely, NumbersApart, BridgeNumbers
<1>2. OwnNumbers' \subseteq OwnNumbers \ {l2z_msg.seq}
  <2> SUFFICES ASSUME NEW q \in OwnNumbers' PROVE q \in OwnNumbers \ {l2z_msg.seq}
    OBVIOUS
  <2>1. \E i \in 1 .. Len(socket) : socket[i].src = Self /\ socket[i].seq = q
    BY DEF OwnNumbers, Unchecked
  <2>. QED BY <1>1, <2>1, Whereabouts DEF LoopbacksDistinct
<1>. QED
  BY <1>2 DEF EveryLoopbackOnRecord, LoopbacksDistinct, NumberFresh, NoEcho

(* A message passes the check: it is not one of the bridge's own, for that *)
(* would be on record.                                                     *)
LEMMA TimelyPast ==
  TimelyInv /\ (L2zSkip \/ L2zPass)
    => EveryLoopbackOnRecord' /\ LoopbacksDistinct' /\ NumberFresh' /\ NoEcho'
<1> SUFFICES ASSUME TimelyInv, L2zSkip \/ L2zPass
             PROVE  EveryLoopbackOnRecord' /\ LoopbacksDistinct' /\ NumberFresh' /\ NoEcho'
  OBVIOUS
<1> USE DEF z2l_vars, TimelyInv, L2zSkip, L2zPass
<1>1. l2z_msg.src # Self
  <2> SUFFICES ASSUME l2z_msg.src = Self PROVE FALSE
    OBVIOUS
  <2>1. l2z_msg.seq \in OwnNumbers
    BY Whereabouts
  <2>. QED BY <2>1 DEF Timely, LoopbackRecorded, EveryLoopbackOnRecord
<1>2. OwnNumbers' \subseteq OwnNumbers
  BY DEF OwnNumbers, Unchecked
<1>. QED
  BY <1>1, <1>2 DEF EveryLoopbackOnRecord, LoopbacksDistinct, NumberFresh, NoEcho

(* The remaining steps touch no message before the check and no record.    *)
LEMMA TimelyOther ==
  /\ TimelyInv
  /\ \/ SampleArrives \/ Z2lDeclare \/ Z2lRecvFails \/ Z2lSkip \/ Z2lSendFails
     \/ L2zPublish \/ UNCHANGED vars
  => EveryLoopbackOnRecord' /\ LoopbacksDistinct' /\ NumberFresh' /\ NoEcho'
<1> SUFFICES
      ASSUME TimelyInv,
             \/ SampleArrives \/ Z2lDeclare \/ Z2lRecvFails \/ Z2lSkip \/ Z2lSendFails
             \/ L2zPublish \/ UNCHANGED vars
      PROVE  EveryLoopbackOnRecord' /\ LoopbacksDistinct' /\ NumberFresh' /\ NoEcho'
  OBVIOUS
<1>1. UNCHANGED <<sent_sequences, socket, seq_counter>>
  BY DEF SampleArrives, Z2lDeclare, Z2lRecvFails, Z2lSkip, Z2lSendFails, L2zPublish,
         vars, z2l_vars, l2z_vars
<1>2. /\ \/ UNCHANGED <<z2l_pc, z2l_msg>>
         \/ z2l_pc # "record" /\ z2l_pc' \notin {"send", "record"}
      /\ \/ UNCHANGED <<l2z_pc, l2z_msg>>
         \/ l2z_pc = "publish" /\ l2z_pc' = "recv"
  BY DEF SampleArrives, Z2lDeclare, Z2lRecvFails, Z2lSkip, Z2lSendFails, L2zPublish,
         vars, z2l_vars, l2z_vars
<1>3. OwnNumbers' = OwnNumbers
  BY <1>1, <1>2 DEF OwnNumbers, Unchecked
<1>. QED
  BY <1>1, <1>2, <1>3
  DEF TimelyInv, EveryLoopbackOnRecord, LoopbacksDistinct, NumberFresh, NoEcho

(* The invariant behind NoEcho is inductive as long as Timely holds.       *)
LEMMA TimelyNext == TimelyInv /\ [Next /\ Timely']_vars => TimelyInv'
<1> SUFFICES ASSUME TimelyInv, [Next /\ Timely']_vars PROVE TimelyInv'
  OBVIOUS
<1>1. TypeOK'
  BY NextType DEF TimelyInv
<1>2. Timely'
  <2>1. CASE UNCHANGED vars
    BY <2>1 DEF TimelyInv, Timely, LoopbackRecorded, NumbersApart, KeepsUp,
         OwnNumbers, ForeignNumbers, Unchecked, BridgeNumbers, vars, z2l_vars, l2z_vars
  <2>. QED BY <2>1
<1>3. EveryLoopbackOnRecord' /\ LoopbacksDistinct' /\ NumberFresh' /\ NoEcho'
  BY TimelyTake, TimelyTransmit, TimelyRecord, TimelyAppSends, TimelyRecv,
     TimelySuppress, TimelyPast, TimelyOther
  DEF Next, Environment, Z2lNext, L2zNext, L2zCheck
<1>. QED BY <1>1, <1>2, <1>3 DEF TimelyInv
=============================================================================
