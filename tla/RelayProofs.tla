---------------------------- MODULE RelayProofs ----------------------------
(***************************************************************************)
(* Two bridges implement Relay as long as they are in the circumstances    *)
(* their loop prevention relies on: for any prefixes, filters, channels    *)
(* and scripts, and whatever is lost on the way. In all circumstances they *)
(* bring nothing that was not posted, and multiply nothing.                *)
(***************************************************************************)
EXTENDS BridgedSites, SequenceTheorems, FiniteSetTheorems, FunctionTheorems, TLAPS

(* What is proved of one bridge, for each of the two.                      *)
ProofsA == INSTANCE BridgeProofs WITH
  Self <- SelfA, Apps <- {App}, Unmappable <- UnmappableUnder(PrefixA),
  Allow <- Allow.A, Deny <- Deny.A,
  seq_counter <- a_seq_counter, sent_sequences <- a_sent_sequences,
  subscriber <- a_subscriber, z2l_pc <- a_z2l_pc, z2l_msg <- a_z2l_msg,
  socket <- a_socket, l2z_pc <- a_l2z_pc, l2z_msg <- a_l2z_msg

ProofsB == INSTANCE BridgeProofs WITH
  Self <- SelfB, Apps <- {App}, Unmappable <- UnmappableUnder(PrefixB),
  Allow <- Allow.B, Deny <- Deny.B,
  seq_counter <- b_seq_counter, sent_sequences <- b_sent_sequences,
  subscriber <- b_subscriber, z2l_pc <- b_z2l_pc, z2l_msg <- b_z2l_msg,
  socket <- b_socket, l2z_pc <- b_l2z_pc, l2z_msg <- b_l2z_msg

-----------------------------------------------------------------------------
(* Each of the two is a Bridge: what Bridge and BridgeProofs define is the *)
(* same, and a step of the two sites is one of each bridge, or none.       *)

\* BridgeProofs may be used of the bridge of A.
LEMMA AssumptionsA ==
  /\ ProofsA!OriginsAssumption /\ ProofsA!ChannelsAssumption
  /\ ProofsA!SeqModAssumption /\ ProofsA!WindowAssumption
  /\ ProofsA!CapsAssumption /\ ProofsA!NoMessageAssumption
BY BridgesAssumption
DEF ProofsA!OriginsAssumption, ProofsA!ChannelsAssumption,
    ProofsA!SeqModAssumption, ProofsA!WindowAssumption,
    ProofsA!CapsAssumption, ProofsA!NoMessageAssumption,
    ProofsA!Messages, ProofsA!SeqNumbers, UnmappableUnder, Sites

\* Its invariant means the same in the two instances.
LEMMA SameInvA ==
  /\ SiteA!TimelyInv <=> ProofsA!TimelyInv
  /\ (SiteA!TimelyInv <=> ProofsA!TimelyInv)'
BY DEF SiteA!TimelyInv, ProofsA!TimelyInv, SiteA!TypeOK, ProofsA!TypeOK,
    SiteA!SeqNumbers, ProofsA!SeqNumbers, SiteA!Messages, ProofsA!Messages,
    SiteA!Samples, ProofsA!Samples, SiteA!Timely, ProofsA!Timely,
    SiteA!LoopbackRecorded, ProofsA!LoopbackRecorded, SiteA!NumbersApart,
    ProofsA!NumbersApart, SiteA!KeepsUp, ProofsA!KeepsUp, SiteA!Age, ProofsA!Age,
    SiteA!OwnNumbers, ProofsA!OwnNumbers, SiteA!ForeignNumbers,
    ProofsA!ForeignNumbers, SiteA!Unchecked, ProofsA!Unchecked,
    SiteA!BridgeNumbers, ProofsA!BridgeNumbers, SiteA!EveryLoopbackOnRecord,
    ProofsA!EveryLoopbackOnRecord, SiteA!LoopbacksDistinct,
    ProofsA!LoopbacksDistinct, SiteA!NumberFresh, ProofsA!NumberFresh,
    SiteA!NoEcho, ProofsA!NoEcho

\* So do its circumstances.
LEMMA SameTimelyA == (SiteA!Timely <=> ProofsA!Timely)'
BY DEF SiteA!Timely, ProofsA!Timely, SiteA!LoopbackRecorded,
    ProofsA!LoopbackRecorded, SiteA!NumbersApart, ProofsA!NumbersApart,
    SiteA!KeepsUp, ProofsA!KeepsUp, SiteA!Age, ProofsA!Age, SiteA!SeqNumbers,
    ProofsA!SeqNumbers, SiteA!OwnNumbers, ProofsA!OwnNumbers,
    SiteA!ForeignNumbers, ProofsA!ForeignNumbers, SiteA!Unchecked,
    ProofsA!Unchecked, SiteA!BridgeNumbers, ProofsA!BridgeNumbers

\* So does each of its actions.
LEMMA SameNextA == SiteA!Next => ProofsA!Next
<1> USE DEF SiteA!z2l_vars, ProofsA!z2l_vars, SiteA!l2z_vars, ProofsA!l2z_vars
<1>1. SiteA!Z2lDeclare => ProofsA!Z2lDeclare
  BY DEF SiteA!Z2lDeclare, ProofsA!Z2lDeclare
<1>2. SiteA!SampleArrives => ProofsA!SampleArrives
  BY DEF SiteA!SampleArrives, ProofsA!SampleArrives, SiteA!Samples, ProofsA!Samples
<1>3. SiteA!Z2lRecvFails => ProofsA!Z2lRecvFails
  BY DEF SiteA!Z2lRecvFails, ProofsA!Z2lRecvFails
<1>4. SiteA!Z2lSkip => ProofsA!Z2lSkip
  BY DEF SiteA!Z2lSkip, ProofsA!Z2lSkip, SiteA!RelayedToLcm, ProofsA!RelayedToLcm,
      SiteA!is_allowed, ProofsA!is_allowed
<1>5. SiteA!Z2lTake => ProofsA!Z2lTake
  BY DEF SiteA!Z2lTake, ProofsA!Z2lTake, SiteA!RelayedToLcm, ProofsA!RelayedToLcm,
      SiteA!is_allowed, ProofsA!is_allowed
<1>6. SiteA!Z2lTransmit => ProofsA!Z2lTransmit
  BY DEF SiteA!Z2lTransmit, ProofsA!Z2lTransmit
<1>7. SiteA!Z2lSendFails => ProofsA!Z2lSendFails
  BY DEF SiteA!Z2lSendFails, ProofsA!Z2lSendFails
<1>8. SiteA!Z2lRecord => ProofsA!Z2lRecord
  <2>1. \A seqs : SiteA!Cardinality(seqs) = ProofsA!Cardinality(seqs)
    BY DEF SiteA!Cardinality, ProofsA!Cardinality, SiteA!IsFiniteSet, ProofsA!IsFiniteSet
  <2>2. \A seqs, latest : SiteA!prune_sent_sequences(seqs, latest)
                             = ProofsA!prune_sent_sequences(seqs, latest)
    BY <2>1 DEF SiteA!prune_sent_sequences, ProofsA!prune_sent_sequences,
           SiteA!Cutoff, ProofsA!Cutoff
  <2> QED
    BY <2>2 DEF SiteA!Z2lRecord, ProofsA!Z2lRecord
<1>9. SiteA!AppSends => ProofsA!AppSends
  BY DEF SiteA!AppSends, ProofsA!AppSends, SiteA!Messages, ProofsA!Messages,
      SiteA!SeqNumbers, ProofsA!SeqNumbers
<1>10. SiteA!L2zRecv => ProofsA!L2zRecv
  BY DEF SiteA!L2zRecv, ProofsA!L2zRecv
<1>11. SiteA!L2zSuppress => ProofsA!L2zSuppress
  BY DEF SiteA!L2zSuppress, ProofsA!L2zSuppress
<1>12. SiteA!L2zSkip => ProofsA!L2zSkip
  BY DEF SiteA!L2zSkip, ProofsA!L2zSkip, SiteA!RelayedToZenoh, ProofsA!RelayedToZenoh,
      SiteA!is_allowed, ProofsA!is_allowed
<1>13. SiteA!L2zPass => ProofsA!L2zPass
  BY DEF SiteA!L2zPass, ProofsA!L2zPass, SiteA!RelayedToZenoh, ProofsA!RelayedToZenoh,
      SiteA!is_allowed, ProofsA!is_allowed
<1>14. SiteA!L2zPublish => ProofsA!L2zPublish
  BY DEF SiteA!L2zPublish, ProofsA!L2zPublish
<1> QED
  BY <1>1, <1>2, <1>3, <1>4, <1>5, <1>6, <1>7, <1>8, <1>9, <1>10, <1>11, <1>12,
       <1>13, <1>14
  DEF SiteA!Next, ProofsA!Next, SiteA!Environment, ProofsA!Environment,
      SiteA!Z2lNext, ProofsA!Z2lNext, SiteA!L2zNext, ProofsA!L2zNext,
      SiteA!L2zCheck, ProofsA!L2zCheck

\* BridgeProofs may be used of the bridge of B.
LEMMA AssumptionsB ==
  /\ ProofsB!OriginsAssumption /\ ProofsB!ChannelsAssumption
  /\ ProofsB!SeqModAssumption /\ ProofsB!WindowAssumption
  /\ ProofsB!CapsAssumption /\ ProofsB!NoMessageAssumption
BY BridgesAssumption
DEF ProofsB!OriginsAssumption, ProofsB!ChannelsAssumption,
    ProofsB!SeqModAssumption, ProofsB!WindowAssumption,
    ProofsB!CapsAssumption, ProofsB!NoMessageAssumption,
    ProofsB!Messages, ProofsB!SeqNumbers, UnmappableUnder, Sites

\* Its invariant means the same in the two instances.
LEMMA SameInvB ==
  /\ SiteB!TimelyInv <=> ProofsB!TimelyInv
  /\ (SiteB!TimelyInv <=> ProofsB!TimelyInv)'
BY DEF SiteB!TimelyInv, ProofsB!TimelyInv, SiteB!TypeOK, ProofsB!TypeOK,
    SiteB!SeqNumbers, ProofsB!SeqNumbers, SiteB!Messages, ProofsB!Messages,
    SiteB!Samples, ProofsB!Samples, SiteB!Timely, ProofsB!Timely,
    SiteB!LoopbackRecorded, ProofsB!LoopbackRecorded, SiteB!NumbersApart,
    ProofsB!NumbersApart, SiteB!KeepsUp, ProofsB!KeepsUp, SiteB!Age, ProofsB!Age,
    SiteB!OwnNumbers, ProofsB!OwnNumbers, SiteB!ForeignNumbers,
    ProofsB!ForeignNumbers, SiteB!Unchecked, ProofsB!Unchecked,
    SiteB!BridgeNumbers, ProofsB!BridgeNumbers, SiteB!EveryLoopbackOnRecord,
    ProofsB!EveryLoopbackOnRecord, SiteB!LoopbacksDistinct,
    ProofsB!LoopbacksDistinct, SiteB!NumberFresh, ProofsB!NumberFresh,
    SiteB!NoEcho, ProofsB!NoEcho

\* So do its circumstances.
LEMMA SameTimelyB == (SiteB!Timely <=> ProofsB!Timely)'
BY DEF SiteB!Timely, ProofsB!Timely, SiteB!LoopbackRecorded,
    ProofsB!LoopbackRecorded, SiteB!NumbersApart, ProofsB!NumbersApart,
    SiteB!KeepsUp, ProofsB!KeepsUp, SiteB!Age, ProofsB!Age, SiteB!SeqNumbers,
    ProofsB!SeqNumbers, SiteB!OwnNumbers, ProofsB!OwnNumbers,
    SiteB!ForeignNumbers, ProofsB!ForeignNumbers, SiteB!Unchecked,
    ProofsB!Unchecked, SiteB!BridgeNumbers, ProofsB!BridgeNumbers

\* So does each of its actions.
LEMMA SameNextB == SiteB!Next => ProofsB!Next
<1> USE DEF SiteB!z2l_vars, ProofsB!z2l_vars, SiteB!l2z_vars, ProofsB!l2z_vars
<1>1. SiteB!Z2lDeclare => ProofsB!Z2lDeclare
  BY DEF SiteB!Z2lDeclare, ProofsB!Z2lDeclare
<1>2. SiteB!SampleArrives => ProofsB!SampleArrives
  BY DEF SiteB!SampleArrives, ProofsB!SampleArrives, SiteB!Samples, ProofsB!Samples
<1>3. SiteB!Z2lRecvFails => ProofsB!Z2lRecvFails
  BY DEF SiteB!Z2lRecvFails, ProofsB!Z2lRecvFails
<1>4. SiteB!Z2lSkip => ProofsB!Z2lSkip
  BY DEF SiteB!Z2lSkip, ProofsB!Z2lSkip, SiteB!RelayedToLcm, ProofsB!RelayedToLcm,
      SiteB!is_allowed, ProofsB!is_allowed
<1>5. SiteB!Z2lTake => ProofsB!Z2lTake
  BY DEF SiteB!Z2lTake, ProofsB!Z2lTake, SiteB!RelayedToLcm, ProofsB!RelayedToLcm,
      SiteB!is_allowed, ProofsB!is_allowed
<1>6. SiteB!Z2lTransmit => ProofsB!Z2lTransmit
  BY DEF SiteB!Z2lTransmit, ProofsB!Z2lTransmit
<1>7. SiteB!Z2lSendFails => ProofsB!Z2lSendFails
  BY DEF SiteB!Z2lSendFails, ProofsB!Z2lSendFails
<1>8. SiteB!Z2lRecord => ProofsB!Z2lRecord
  <2>1. \A seqs : SiteB!Cardinality(seqs) = ProofsB!Cardinality(seqs)
    BY DEF SiteB!Cardinality, ProofsB!Cardinality, SiteB!IsFiniteSet, ProofsB!IsFiniteSet
  <2>2. \A seqs, latest : SiteB!prune_sent_sequences(seqs, latest)
                             = ProofsB!prune_sent_sequences(seqs, latest)
    BY <2>1 DEF SiteB!prune_sent_sequences, ProofsB!prune_sent_sequences,
           SiteB!Cutoff, ProofsB!Cutoff
  <2> QED
    BY <2>2 DEF SiteB!Z2lRecord, ProofsB!Z2lRecord
<1>9. SiteB!AppSends => ProofsB!AppSends
  BY DEF SiteB!AppSends, ProofsB!AppSends, SiteB!Messages, ProofsB!Messages,
      SiteB!SeqNumbers, ProofsB!SeqNumbers
<1>10. SiteB!L2zRecv => ProofsB!L2zRecv
  BY DEF SiteB!L2zRecv, ProofsB!L2zRecv
<1>11. SiteB!L2zSuppress => ProofsB!L2zSuppress
  BY DEF SiteB!L2zSuppress, ProofsB!L2zSuppress
<1>12. SiteB!L2zSkip => ProofsB!L2zSkip
  BY DEF SiteB!L2zSkip, ProofsB!L2zSkip, SiteB!RelayedToZenoh, ProofsB!RelayedToZenoh,
      SiteB!is_allowed, ProofsB!is_allowed
<1>13. SiteB!L2zPass => ProofsB!L2zPass
  BY DEF SiteB!L2zPass, ProofsB!L2zPass, SiteB!RelayedToZenoh, ProofsB!RelayedToZenoh,
      SiteB!is_allowed, ProofsB!is_allowed
<1>14. SiteB!L2zPublish => ProofsB!L2zPublish
  BY DEF SiteB!L2zPublish, ProofsB!L2zPublish
<1> QED
  BY <1>1, <1>2, <1>3, <1>4, <1>5, <1>6, <1>7, <1>8, <1>9, <1>10, <1>11, <1>12,
       <1>13, <1>14
  DEF SiteB!Next, ProofsB!Next, SiteB!Environment, ProofsB!Environment,
      SiteB!Z2lNext, ProofsB!Z2lNext, SiteB!L2zNext, ProofsB!L2zNext,
      SiteB!L2zCheck, ProofsB!L2zCheck

\* A step of the two sites is a step of the bridge of A, or none of it.
LEMMA StepsA == [Next]_vars => [SiteA!Next]_a_vars
BY DEF Next, vars, APosts, AOwn, ASends, APublishes,
       BPosts, BOwn, BSends, BPublishes,
       SiteA!Next, SiteA!Environment, SiteA!Z2lNext, SiteA!L2zNext

\* A step of the two sites is a step of the bridge of B, or none of it.
LEMMA StepsB == [Next]_vars => [SiteB!Next]_b_vars
BY DEF Next, vars, BPosts, BOwn, BSends, BPublishes,
       APosts, AOwn, ASends, APublishes,
       SiteB!Next, SiteB!Environment, SiteB!Z2lNext, SiteB!L2zNext

(* Timely steps keep both bridges in what BridgeProofs calls TimelyInv: in *)
(* particular neither publishes what it has multicast itself.              *)
LEMMA BridgesTimely ==
  ASSUME SiteA!TimelyInv, SiteB!TimelyInv, [Next /\ Timely']_vars
  PROVE  SiteA!TimelyInv' /\ SiteB!TimelyInv'
<1>1. SiteA!TimelyInv'
  <2>1. [ProofsA!Next /\ ProofsA!Timely']_(ProofsA!vars)
    <3>1. CASE UNCHANGED a_vars
      BY <3>1 DEF a_vars, ProofsA!vars, ProofsA!z2l_vars, ProofsA!l2z_vars
    <3>2. CASE SiteA!Next /\ SiteA!Timely'
      BY <3>2, SameNextA, SameTimelyA
    <3>3. UNCHANGED vars => UNCHANGED a_vars
      BY DEF vars
    <3> QED
      BY <3>1, <3>2, <3>3, StepsA DEF Timely
  <2>2. ProofsA!TimelyInv'
    BY <2>1, SameInvA, AssumptionsA, ProofsA!TimelyNext
  <2> QED
    BY <2>2, SameInvA
<1>2. SiteB!TimelyInv'
  <2>1. [ProofsB!Next /\ ProofsB!Timely']_(ProofsB!vars)
    <3>1. CASE UNCHANGED b_vars
      BY <3>1 DEF b_vars, ProofsB!vars, ProofsB!z2l_vars, ProofsB!l2z_vars
    <3>2. CASE SiteB!Next /\ SiteB!Timely'
      BY <3>2, SameNextB, SameTimelyB
    <3>3. UNCHANGED vars => UNCHANGED b_vars
      BY DEF vars
    <3> QED
      BY <3>1, <3>2, <3>3, StepsB DEF Timely
  <2>2. ProofsB!TimelyInv'
    BY <2>1, SameInvB, AssumptionsB, ProofsB!TimelyNext
  <2> QED
    BY <2>2, SameInvB
<1> QED
  BY <1>1, <1>2

\* Both bridges start in that invariant.
LEMMA BridgesTimelyInit == Init => SiteA!TimelyInv /\ SiteB!TimelyInv
<1>1. Init => ProofsA!Init /\ ProofsB!Init
  BY DEF Init, SiteA!Init, ProofsA!Init, SiteB!Init, ProofsB!Init
<1> QED
  BY <1>1, SameInvA, SameInvB, AssumptionsA, AssumptionsB,
     ProofsA!TimelyInit, ProofsB!TimelyInit

-----------------------------------------------------------------------------
(* The line of one site.                                                   *)

AllMessages == [src : {SelfA, SelfB, App}, seq : 0 .. SeqMod - 1,
                chan : Channels, body : Bodies]
AllSamples == [key : Channels \cup {NoChannel}, body : Bodies]

\* What the line holds, by type; a message that is published is never a loopback.
LineType(s) ==
  /\ Socket[s] \in Seq(AllMessages)
  /\ L2zPc[s] \in {"check", "publish"} => L2zMsg[s] \in AllMessages
  /\ L2zPc[s] = "publish" => L2zMsg[s].src = App
  /\ Subscriber[s] \in Seq(AllSamples)
  /\ InSend(s) => Z2lMsg[s] \in AllMessages

\* The same without the last of these, which needs the circumstances.
LineHolds(s) ==
  /\ Socket[s] \in Seq(AllMessages)
  /\ Relaying(s) => L2zMsg[s] \in AllMessages
  /\ Subscriber[s] \in Seq(AllSamples)
  /\ InSend(s) => Z2lMsg[s] \in AllMessages

\* LineHolds follows from the types of the two bridges.
LEMMA LineHeld ==
  ASSUME SiteA!TypeOK, SiteB!TypeOK, NEW s \in Sites
  PROVE  LineHolds(s)
<1> USE DEF LineHolds, Socket, L2zPc, L2zMsg, Subscriber, InSend, Z2lPc, Z2lMsg,
            AllMessages, AllSamples,
            SiteA!TypeOK, SiteA!Messages, SiteA!SeqNumbers, SiteA!Samples,
            SiteB!TypeOK, SiteB!Messages, SiteB!SeqNumbers, SiteB!Samples
<1>1. Socket[s] \in Seq(AllMessages)
  <2>1. SiteA!Messages \subseteq AllMessages /\ SiteB!Messages \subseteq AllMessages
    OBVIOUS
  <2>2. a_socket \in Seq(AllMessages) /\ b_socket \in Seq(AllMessages)
    <3> HIDE DEF AllMessages, SiteA!Messages, SiteB!Messages
    <3> QED
      BY <2>1, SeqMonotonic
  <2> QED
    BY <2>2 DEF Sites
<1>2. Relaying(s) => L2zMsg[s] \in AllMessages
  BY DEF Sites, Relaying
<1>3. Subscriber[s] \in Seq(AllSamples)
  BY DEF Sites
<1>4. InSend(s) => Z2lMsg[s] \in AllMessages
  BY DEF Sites
<1> QED
  BY <1>1, <1>2, <1>3, <1>4

\* LineType follows from what BridgeProofs shows of each bridge.
LEMMA LineTyped ==
  ASSUME SiteA!TimelyInv, SiteB!TimelyInv, NEW s \in Sites
  PROVE  LineType(s)
<1>1. SiteA!TypeOK /\ SiteB!TypeOK
  BY DEF SiteA!TimelyInv, SiteB!TimelyInv
<1>2. L2zPc[s] = "publish" => L2zMsg[s].src = App
  <2>1. a_l2z_pc = "publish" => a_l2z_msg.src = App
    BY DEF SiteA!TimelyInv, SiteA!TypeOK, SiteA!NoEcho, SiteA!Messages
  <2>2. b_l2z_pc = "publish" => b_l2z_msg.src = App
    BY DEF SiteB!TimelyInv, SiteB!TypeOK, SiteB!NoEcho, SiteB!Messages
  <2> QED
    BY <2>1, <2>2 DEF Sites, L2zPc, L2zMsg
<1> QED
  BY <1>1, <1>2, LineHeld DEF LineType, LineHolds, Relaying

-----------------------------------------------------------------------------
(* What a step does to the line of the site s, at its two ends.            *)

FrontSame(s) ==
  /\ posted'[s] = posted[s] /\ Socket'[s] = Socket[s]
  /\ L2zPc'[s] = L2zPc[s] /\ L2zMsg'[s] = L2zMsg[s]

FrontPosts(s) ==
  /\ Len(posted[s]) < Len(script[s])
  /\ \E m \in AllMessages :
       /\ m.src = App
       /\ Post(m) = script[s][Len(posted[s]) + 1]
       /\ Socket'[s] = Append(Socket[s], m)
       /\ posted'[s] = Append(posted[s], Post(m))
  /\ L2zPc'[s] = L2zPc[s] /\ L2zMsg'[s] = L2zMsg[s]

FrontLoopsBack(s) ==
  /\ \E m \in AllMessages :
       /\ m.src # App /\ Socket'[s] = Append(Socket[s], m)
       /\ heard'[s] = Append(heard[s], Post(m))
  /\ posted'[s] = posted[s] /\ L2zPc'[s] = L2zPc[s] /\ L2zMsg'[s] = L2zMsg[s]

FrontReceives(s) ==
  /\ L2zPc[s] = "recv" /\ L2zPc'[s] = "check" /\ Socket[s] # <<>>
  /\ L2zMsg'[s] = Head(Socket[s]) /\ Socket'[s] = Tail(Socket[s])
  /\ posted'[s] = posted[s]

FrontPasses(s) ==
  /\ L2zPc[s] = "check" /\ L2zPc'[s] = "publish"
  /\ L2zMsg[s].chan \in Permitted[s] \ UnmappableUnder(Prefix[s])
  /\ posted'[s] = posted[s] /\ Socket'[s] = Socket[s] /\ L2zMsg'[s] = L2zMsg[s]

FrontLetsGo(s) ==
  /\ L2zPc'[s] = "recv"
  /\ posted'[s] = posted[s] /\ Socket'[s] = Socket[s]

BackSame(s) ==
  /\ Subscriber'[s] = Subscriber[s] /\ Z2lPc'[s] = Z2lPc[s] /\ Z2lMsg'[s] = Z2lMsg[s]
  /\ heard'[Other[s]] = heard[Other[s]]

BackSkips(s) ==
  /\ Subscriber[s] # <<>> /\ Subscriber'[s] = Tail(Subscriber[s])
  /\ Z2lPc'[s] = Z2lPc[s] /\ Z2lMsg'[s] = Z2lMsg[s]
  /\ heard'[Other[s]] = heard[Other[s]]

BackTakes(s) ==
  /\ Subscriber[s] # <<>> /\ Subscriber'[s] = Tail(Subscriber[s])
  /\ Z2lPc[s] = "recv" /\ Z2lPc'[s] = "send"
  /\ Z2lMsg'[s].chan = Head(Subscriber[s]).key
  /\ Z2lMsg'[s].body = Head(Subscriber[s]).body
  /\ Head(Subscriber[s]).key \in Permitted[Other[s]]
  /\ heard'[Other[s]] = heard[Other[s]]

BackIsHeard(s) ==
  /\ Z2lPc[s] = "send" /\ Z2lPc'[s] = "record"
  /\ heard'[Other[s]] = Append(heard[Other[s]], Post(Z2lMsg[s]))
  /\ Subscriber'[s] = Subscriber[s]

BackLetsGo(s) ==
  /\ Z2lPc'[s] # "send"
  /\ Subscriber'[s] = Subscriber[s] /\ heard'[Other[s]] = heard[Other[s]]

\* From one end to the other.
Published(s) ==
  /\ L2zPc[s] = "publish" /\ L2zPc'[s] = "recv"
  /\ posted'[s] = posted[s] /\ Socket'[s] = Socket[s]
  /\ Reaches(L2zMsg[s], Prefix[s], Prefix[Other[s]])
  /\ Subscriber'[s] =
       Append(Subscriber[s], Sample(L2zMsg[s], Prefix[s], Prefix[Other[s]]))
  /\ Sample(L2zMsg[s], Prefix[s], Prefix[Other[s]]) \in AllSamples
  /\ Z2lPc'[s] = Z2lPc[s] /\ Z2lMsg'[s] = Z2lMsg[s]
  /\ heard'[Other[s]] = heard[Other[s]]

FrontMoves(s) ==
  \/ FrontPosts(s) \/ FrontLoopsBack(s) \/ FrontReceives(s)
  \/ FrontPasses(s) \/ FrontLetsGo(s)
BackMoves(s) == BackSkips(s) \/ BackTakes(s) \/ BackIsHeard(s) \/ BackLetsGo(s)

LineMoves(s) ==
  \/ FrontSame(s) /\ BackSame(s)
  \/ FrontMoves(s) /\ BackSame(s)
  \/ FrontSame(s) /\ BackMoves(s)
  \/ Published(s)

\* The steps of the programs of A and of its bridge.
LEMMA MovesOfA ==
  ASSUME SiteA!TypeOK, SiteB!TypeOK, HistoryType,
         APosts \/ AOwn \/ ASends \/ APublishes
  PROVE  /\ script' = script
         /\ \A s \in Sites : LineMoves(s)
<1> USE DEF Socket, L2zPc, L2zMsg, Subscriber, Z2lPc, Z2lMsg, Sites, Other, Prefix,
            SiteA!z2l_vars, SiteA!l2z_vars, a_vars, b_vars, history,
            LineMoves, FrontMoves, BackMoves, FrontSame, BackSame
<1>1. CASE APosts
  <2>1. PICK m \in SiteA!Messages : m.src = App /\ a_socket' = Append(a_socket, m)
    BY <1>1 DEF APosts, SiteA!AppSends
  <2>2. a_socket \in Seq(SiteA!Messages)
    BY DEF SiteA!TypeOK
  <2>3. Last(a_socket') = m
    BY <2>1, <2>2, AppendProperties DEF Last
  <2>4. m \in AllMessages
    BY DEF SiteA!Messages, SiteA!SeqNumbers, AllMessages
  <2>5. FrontPosts("A") /\ BackSame("A") /\ FrontSame("B") /\ BackSame("B")
    BY <1>1, <2>1, <2>3, <2>4
    DEF APosts, SiteA!AppSends, Scripted, FrontPosts, HistoryType
  <2> QED
    BY <1>1, <2>5 DEF APosts
<1>2. CASE AOwn
  <2>1. CASE SiteA!Z2lDeclare
    <3>1. FrontSame("A") /\ BackSame("A") /\ FrontSame("B") /\ BackLetsGo("B")
      BY <1>2, <2>1 DEF AOwn, SiteA!Z2lDeclare, BackLetsGo
    <3> QED
      BY <1>2, <3>1 DEF AOwn
  <2>2. CASE SiteA!Z2lRecvFails
    <3>1. FrontSame("A") /\ BackSame("A") /\ FrontSame("B") /\ BackLetsGo("B")
      BY <1>2, <2>2 DEF AOwn, SiteA!Z2lRecvFails, BackLetsGo
    <3> QED
      BY <1>2, <3>1 DEF AOwn
  <2>3. CASE SiteA!Z2lSkip
    <3>1. FrontSame("A") /\ BackSame("A") /\ FrontSame("B") /\ BackSkips("B")
      BY <1>2, <2>3 DEF AOwn, SiteA!Z2lSkip, BackSkips
    <3> QED
      BY <1>2, <3>1 DEF AOwn
  <2>4. CASE SiteA!Z2lTake
    <3>1. Head(a_subscriber) \in SiteA!Samples /\ SiteA!RelayedToLcm(Head(a_subscriber).key)
      BY <2>4, HeadTailProperties, EmptySeq DEF SiteA!Z2lTake, SiteA!TypeOK
    <3>2. Head(a_subscriber).key \in Permitted["A"]
      BY <3>1 DEF SiteA!Samples, SiteA!RelayedToLcm, SiteA!is_allowed, Permitted
    <3>3. FrontSame("A") /\ BackSame("A") /\ FrontSame("B") /\ BackTakes("B")
      BY <1>2, <2>4, <3>2 DEF AOwn, SiteA!Z2lTake, BackTakes
    <3> QED
      BY <1>2, <3>3 DEF AOwn
  <2>5. CASE SiteA!Z2lRecord
    <3>1. FrontSame("A") /\ BackSame("A") /\ FrontSame("B") /\ BackLetsGo("B")
      BY <1>2, <2>5 DEF AOwn, SiteA!Z2lRecord, BackLetsGo
    <3> QED
      BY <1>2, <3>1 DEF AOwn
  <2>6. CASE SiteA!L2zRecv
    <3>1. FrontReceives("A") /\ BackSame("A") /\ FrontSame("B") /\ BackSame("B")
      BY <1>2, <2>6 DEF AOwn, SiteA!L2zRecv, FrontReceives
    <3> QED
      BY <1>2, <3>1 DEF AOwn
  <2>7. CASE SiteA!L2zSuppress
    <3>1. FrontLetsGo("A") /\ BackSame("A") /\ FrontSame("B") /\ BackSame("B")
      BY <1>2, <2>7 DEF AOwn, SiteA!L2zSuppress, FrontLetsGo
    <3> QED
      BY <1>2, <3>1 DEF AOwn
  <2>8. CASE SiteA!L2zSkip
    <3>1. FrontLetsGo("A") /\ BackSame("A") /\ FrontSame("B") /\ BackSame("B")
      BY <1>2, <2>8 DEF AOwn, SiteA!L2zSkip, FrontLetsGo
    <3> QED
      BY <1>2, <3>1 DEF AOwn
  <2>9. CASE SiteA!L2zPass
    <3>1. a_l2z_msg.chan \in Permitted["A"] \ UnmappableUnder(PrefixA)
      BY <2>9 DEF SiteA!L2zPass, SiteA!TypeOK, SiteA!Messages,
                  SiteA!RelayedToZenoh, SiteA!is_allowed, Permitted
    <3>2. FrontPasses("A") /\ BackSame("A") /\ FrontSame("B") /\ BackSame("B")
      BY <1>2, <2>9, <3>1 DEF AOwn, SiteA!L2zPass, FrontPasses
    <3> QED
      BY <1>2, <3>2 DEF AOwn
  <2> QED
    BY <1>2, <2>1, <2>2, <2>3, <2>4, <2>5, <2>6, <2>7, <2>8, <2>9 DEF AOwn, SiteA!L2zCheck
<1>3. CASE ASends
  <2>1. CASE SiteA!Z2lTransmit
    <3>1. a_z2l_msg \in AllMessages /\ a_z2l_msg.src = SelfA
      BY <2>1 DEF SiteA!Z2lTransmit, SiteA!TypeOK, SiteA!Messages,
                  SiteA!SeqNumbers, AllMessages
    <3>2. heard'["A"] = Append(heard["A"], Post(a_z2l_msg)) /\ heard'["B"] = heard["B"]
      BY <1>3, <2>1 DEF ASends, SiteA!Z2lTransmit, SiteA!Z2lSendFails, Hears, HistoryType
    <3>3. FrontSame("B") /\ BackIsHeard("B")
      BY <1>3, <2>1, <3>2 DEF ASends, SiteA!Z2lTransmit, BackIsHeard
    <3>4. FrontSame("A") \/ FrontLoopsBack("A")
      BY <1>3, <2>1, <3>1, <3>2, BridgesAssumption
      DEF ASends, SiteA!Z2lTransmit, FrontLoopsBack
    <3>5. BackSame("A")
      BY <1>3, <2>1, <3>2 DEF ASends, SiteA!Z2lTransmit
    <3> QED
      BY <1>3, <3>3, <3>4, <3>5 DEF ASends
  <2>2. CASE SiteA!Z2lSendFails
    <3>1. FrontSame("A") /\ BackSame("A") /\ FrontSame("B") /\ BackLetsGo("B")
      BY <1>3, <2>2 DEF ASends, SiteA!Z2lTransmit, SiteA!Z2lSendFails, BackLetsGo
    <3> QED
      BY <1>3, <3>1 DEF ASends
  <2> QED
    BY <1>3, <2>1, <2>2 DEF ASends
<1>4. CASE APublishes
  <2> DEFINE sample == Sample(a_l2z_msg, PrefixA, PrefixB)
  <2>1. SiteA!L2zPublish
    BY <1>4 DEF APublishes
  <2>2. FrontLetsGo("A") /\ BackSame("B")
    BY <1>4, <2>1 DEF APublishes, SiteA!L2zPublish, FrontLetsGo
  <2>3. CASE UNCHANGED b_vars
    <3>1. BackSame("A") /\ FrontSame("B")
      BY <1>4, <2>1, <2>3 DEF APublishes, SiteA!L2zPublish
    <3> QED
      BY <1>4, <2>2, <3>1 DEF APublishes
  <2>4. CASE /\ Reaches(a_l2z_msg, PrefixA, PrefixB)
             /\ SiteB!SampleArrives /\ Last(b_subscriber') = sample
    <3>1. PICK e \in SiteB!Samples : b_subscriber' = Append(b_subscriber, e)
      BY <2>4 DEF SiteB!SampleArrives
    <3>2. b_subscriber \in Seq(SiteB!Samples)
      BY DEF SiteB!TypeOK
    <3>3. e = sample
      BY <2>4, <3>1, <3>2, AppendProperties DEF Last
    <3>4. sample \in AllSamples
      BY <3>3 DEF SiteB!Samples, AllSamples
    <3> HIDE DEF sample
    <3>5. Published("A")
      BY <1>4, <2>1, <2>4, <3>1, <3>3, <3>4
      DEF APublishes, SiteA!L2zPublish, SiteB!SampleArrives, Published, sample
    <3>6. FrontSame("B")
      BY <1>4, <2>1, <2>4
      DEF APublishes, SiteA!L2zPublish, SiteB!SampleArrives, SiteB!z2l_vars, SiteB!l2z_vars
    <3> QED
      BY <1>4, <2>2, <3>5, <3>6 DEF APublishes
  <2> QED
    BY <1>4, <2>3, <2>4 DEF APublishes
<1> QED
  BY <1>1, <1>2, <1>3, <1>4

\* The steps of the programs of B and of its bridge.
LEMMA MovesOfB ==
  ASSUME SiteB!TypeOK, SiteA!TypeOK, HistoryType,
         BPosts \/ BOwn \/ BSends \/ BPublishes
  PROVE  /\ script' = script
         /\ \A s \in Sites : LineMoves(s)
<1> USE DEF Socket, L2zPc, L2zMsg, Subscriber, Z2lPc, Z2lMsg, Sites, Other, Prefix,
            SiteB!z2l_vars, SiteB!l2z_vars, b_vars, a_vars, history,
            LineMoves, FrontMoves, BackMoves, FrontSame, BackSame
<1>1. CASE BPosts
  <2>1. PICK m \in SiteB!Messages : m.src = App /\ b_socket' = Append(b_socket, m)
    BY <1>1 DEF BPosts, SiteB!AppSends
  <2>2. b_socket \in Seq(SiteB!Messages)
    BY DEF SiteB!TypeOK
  <2>3. Last(b_socket') = m
    BY <2>1, <2>2, AppendProperties DEF Last
  <2>4. m \in AllMessages
    BY DEF SiteB!Messages, SiteB!SeqNumbers, AllMessages
  <2>5. FrontPosts("B") /\ BackSame("B") /\ FrontSame("A") /\ BackSame("A")
    BY <1>1, <2>1, <2>3, <2>4
    DEF BPosts, SiteB!AppSends, Scripted, FrontPosts, HistoryType
  <2> QED
    BY <1>1, <2>5 DEF BPosts
<1>2. CASE BOwn
  <2>1. CASE SiteB!Z2lDeclare
    <3>1. FrontSame("B") /\ BackSame("B") /\ FrontSame("A") /\ BackLetsGo("A")
      BY <1>2, <2>1 DEF BOwn, SiteB!Z2lDeclare, BackLetsGo
    <3> QED
      BY <1>2, <3>1 DEF BOwn
  <2>2. CASE SiteB!Z2lRecvFails
    <3>1. FrontSame("B") /\ BackSame("B") /\ FrontSame("A") /\ BackLetsGo("A")
      BY <1>2, <2>2 DEF BOwn, SiteB!Z2lRecvFails, BackLetsGo
    <3> QED
      BY <1>2, <3>1 DEF BOwn
  <2>3. CASE SiteB!Z2lSkip
    <3>1. FrontSame("B") /\ BackSame("B") /\ FrontSame("A") /\ BackSkips("A")
      BY <1>2, <2>3 DEF BOwn, SiteB!Z2lSkip, BackSkips
    <3> QED
      BY <1>2, <3>1 DEF BOwn
  <2>4. CASE SiteB!Z2lTake
    <3>1. Head(b_subscriber) \in SiteB!Samples /\ SiteB!RelayedToLcm(Head(b_subscriber).key)
      BY <2>4, HeadTailProperties, EmptySeq DEF SiteB!Z2lTake, SiteB!TypeOK
    <3>2. Head(b_subscriber).key \in Permitted["B"]
      BY <3>1 DEF SiteB!Samples, SiteB!RelayedToLcm, SiteB!is_allowed, Permitted
    <3>3. FrontSame("B") /\ BackSame("B") /\ FrontSame("A") /\ BackTakes("A")
      BY <1>2, <2>4, <3>2 DEF BOwn, SiteB!Z2lTake, BackTakes
    <3> QED
      BY <1>2, <3>3 DEF BOwn
  <2>5. CASE SiteB!Z2lRecord
    <3>1. FrontSame("B") /\ BackSame("B") /\ FrontSame("A") /\ BackLetsGo("A")
      BY <1>2, <2>5 DEF BOwn, SiteB!Z2lRecord, BackLetsGo
    <3> QED
      BY <1>2, <3>1 DEF BOwn
  <2>6. CASE SiteB!L2zRecv
    <3>1. FrontReceives("B") /\ BackSame("B") /\ FrontSame("A") /\ BackSame("A")
      BY <1>2, <2>6 DEF BOwn, SiteB!L2zRecv, FrontReceives
    <3> QED
      BY <1>2, <3>1 DEF BOwn
  <2>7. CASE SiteB!L2zSuppress
    <3>1. FrontLetsGo("B") /\ BackSame("B") /\ FrontSame("A") /\ BackSame("A")
      BY <1>2, <2>7 DEF BOwn, SiteB!L2zSuppress, FrontLetsGo
    <3> QED
      BY <1>2, <3>1 DEF BOwn
  <2>8. CASE SiteB!L2zSkip
    <3>1. FrontLetsGo("B") /\ BackSame("B") /\ FrontSame("A") /\ BackSame("A")
      BY <1>2, <2>8 DEF BOwn, SiteB!L2zSkip, FrontLetsGo
    <3> QED
      BY <1>2, <3>1 DEF BOwn
  <2>9. CASE SiteB!L2zPass
    <3>1. b_l2z_msg.chan \in Permitted["B"] \ UnmappableUnder(PrefixB)
      BY <2>9 DEF SiteB!L2zPass, SiteB!TypeOK, SiteB!Messages,
                  SiteB!RelayedToZenoh, SiteB!is_allowed, Permitted
    <3>2. FrontPasses("B") /\ BackSame("B") /\ FrontSame("A") /\ BackSame("A")
      BY <1>2, <2>9, <3>1 DEF BOwn, SiteB!L2zPass, FrontPasses
    <3> QED
      BY <1>2, <3>2 DEF BOwn
  <2> QED
    BY <1>2, <2>1, <2>2, <2>3, <2>4, <2>5, <2>6, <2>7, <2>8, <2>9 DEF BOwn, SiteB!L2zCheck
<1>3. CASE BSends
  <2>1. CASE SiteB!Z2lTransmit
    <3>1. b_z2l_msg \in AllMessages /\ b_z2l_msg.src = SelfB
      BY <2>1 DEF SiteB!Z2lTransmit, SiteB!TypeOK, SiteB!Messages,
                  SiteB!SeqNumbers, AllMessages
    <3>2. heard'["B"] = Append(heard["B"], Post(b_z2l_msg)) /\ heard'["A"] = heard["A"]
      BY <1>3, <2>1 DEF BSends, SiteB!Z2lTransmit, SiteB!Z2lSendFails, Hears, HistoryType
    <3>3. FrontSame("A") /\ BackIsHeard("A")
      BY <1>3, <2>1, <3>2 DEF BSends, SiteB!Z2lTransmit, BackIsHeard
    <3>4. FrontSame("B") \/ FrontLoopsBack("B")
      BY <1>3, <2>1, <3>1, <3>2, BridgesAssumption
      DEF BSends, SiteB!Z2lTransmit, FrontLoopsBack
    <3>5. BackSame("B")
      BY <1>3, <2>1, <3>2 DEF BSends, SiteB!Z2lTransmit
    <3> QED
      BY <1>3, <3>3, <3>4, <3>5 DEF BSends
  <2>2. CASE SiteB!Z2lSendFails
    <3>1. FrontSame("B") /\ BackSame("B") /\ FrontSame("A") /\ BackLetsGo("A")
      BY <1>3, <2>2 DEF BSends, SiteB!Z2lTransmit, SiteB!Z2lSendFails, BackLetsGo
    <3> QED
      BY <1>3, <3>1 DEF BSends
  <2> QED
    BY <1>3, <2>1, <2>2 DEF BSends
<1>4. CASE BPublishes
  <2> DEFINE sample == Sample(b_l2z_msg, PrefixB, PrefixA)
  <2>1. SiteB!L2zPublish
    BY <1>4 DEF BPublishes
  <2>2. FrontLetsGo("B") /\ BackSame("A")
    BY <1>4, <2>1 DEF BPublishes, SiteB!L2zPublish, FrontLetsGo
  <2>3. CASE UNCHANGED a_vars
    <3>1. BackSame("B") /\ FrontSame("A")
      BY <1>4, <2>1, <2>3 DEF BPublishes, SiteB!L2zPublish
    <3> QED
      BY <1>4, <2>2, <3>1 DEF BPublishes
  <2>4. CASE /\ Reaches(b_l2z_msg, PrefixB, PrefixA)
             /\ SiteA!SampleArrives /\ Last(a_subscriber') = sample
    <3>1. PICK e \in SiteA!Samples : a_subscriber' = Append(a_subscriber, e)
      BY <2>4 DEF SiteA!SampleArrives
    <3>2. a_subscriber \in Seq(SiteA!Samples)
      BY DEF SiteA!TypeOK
    <3>3. e = sample
      BY <2>4, <3>1, <3>2, AppendProperties DEF Last
    <3>4. sample \in AllSamples
      BY <3>3 DEF SiteA!Samples, AllSamples
    <3> HIDE DEF sample
    <3>5. Published("B")
      BY <1>4, <2>1, <2>4, <3>1, <3>3, <3>4
      DEF BPublishes, SiteB!L2zPublish, SiteA!SampleArrives, Published, sample
    <3>6. FrontSame("A")
      BY <1>4, <2>1, <2>4
      DEF BPublishes, SiteB!L2zPublish, SiteA!SampleArrives, SiteA!z2l_vars, SiteA!l2z_vars
    <3> QED
      BY <1>4, <2>2, <3>5, <3>6 DEF BPublishes
  <2> QED
    BY <1>4, <2>3, <2>4 DEF BPublishes
<1> QED
  BY <1>1, <1>2, <1>3, <1>4

\* Every step is one of these on each of the two lines.
LEMMA Moves ==
  ASSUME SiteA!TypeOK, SiteB!TypeOK, HistoryType, [Next]_vars
  PROVE  /\ script' = script
         /\ \A s \in Sites : LineMoves(s)
<1>1. CASE Next
  BY <1>1, MovesOfA, MovesOfB DEF Next
<1>2. CASE UNCHANGED vars
  <2>1. \A s \in Sites : FrontSame(s) /\ BackSame(s)
    BY <1>2 DEF vars, a_vars, b_vars, history, FrontSame, BackSame, Socket, L2zPc,
                L2zMsg, Subscriber, Z2lPc, Z2lMsg
  <2> QED
    BY <1>2, <2>1 DEF vars, history, LineMoves
<1> QED
  BY <1>1, <1>2

-----------------------------------------------------------------------------
(* Which post a message is.                                                *)

\* What is posted, heard and scripted are sequences of posts.
LEMMA ScriptFacts ==
  ASSUME HistoryType, NEW s \in Sites
  PROVE  /\ posted[s] \in Seq(Posts) /\ script[s] \in Seq(Posts)
         /\ heard[Other[s]] \in Seq(Posts)
         /\ Len(posted[s]) \in Nat /\ DOMAIN posted[s] = 1 .. Len(posted[s])
         /\ Len(script[s]) \in Nat /\ DOMAIN script[s] = 1 .. Len(script[s])
<1>1. posted[s] \in Seq(Posts) /\ script[s] \in Seq(Posts) /\ heard[Other[s]] \in Seq(Posts)
  BY ScriptsAssumption DEF HistoryType, Sites, Other
<1> QED
  BY <1>1, LenProperties

(* A body stands for one message, so it tells which post a message is.     *)
LEMMA NthIs ==
  ASSUME HistoryType, NEW s \in Sites, NEW i \in DOMAIN script[s],
         NEW m, m.body = script[s][i].body
  PROVE  Nth(script[s], m) = i
<1>1. \A j \in DOMAIN script[s] : script[s][j].body = m.body => j = i
  BY ScriptsAssumption DEF HistoryType
<1> QED
  BY <1>1 DEF Nth

\* A message that is a post: the one with the number that Nth gives it.
LEMMA PostNumber ==
  ASSUME HistoryType, NEW s \in Sites, HistoryOK(s), NEW m, IsPost(s, m)
  PROVE  /\ Nth(script[s], m) \in 1 .. Len(posted[s])
         /\ posted[s][Nth(script[s], m)] = Post(m)
<1>1. PICK i \in DOMAIN posted[s] : posted[s][i] = Post(m)
  BY DEF IsPost
<1>2. i \in DOMAIN script[s] /\ script[s][i].body = m.body /\ i \in 1 .. Len(posted[s])
  BY <1>1, ScriptFacts DEF HistoryOK, Post
<1> QED
  BY <1>1, <1>2, NthIs

\* A message that stands for a post: the one with that number.
LEMMA StandInNumber ==
  ASSUME HistoryType, NEW s \in Sites, HistoryOK(s),
         NEW m, NEW channel, StandsForPost(s, channel, m.body)
  PROVE  LET i == Nth(script[s], m) IN
         /\ i \in 1 .. Len(posted[s])
         /\ posted[s][i].body = m.body /\ posted[s][i].chan \in Permitted[s]
         /\ channel # NoChannel
              => Prefix[Other[s]] \o channel = Prefix[s] \o posted[s][i].chan
<1>1. PICK i \in DOMAIN posted[s] :
        /\ posted[s][i].body = m.body /\ posted[s][i].chan \in Permitted[s]
        /\ channel # NoChannel
             => Prefix[Other[s]] \o channel = Prefix[s] \o posted[s][i].chan
  BY DEF StandsForPost
<1>2. i \in DOMAIN script[s] /\ script[s][i].body = m.body /\ i \in 1 .. Len(posted[s])
  BY <1>1, ScriptFacts DEF HistoryOK
<1> QED
  BY <1>1, <1>2, NthIs

(* All that the line holds, and has let through, has been posted.          *)
LEMMA LineNumbers ==
  ASSUME HistoryType, NEW s \in Sites, HistoryOK(s), FrontOK(s), BackOK(s)
  PROVE  Leaving(s) \cup Arriving(s) \cup Arrived(s) \subseteq 1 .. Len(posted[s])
<1>1. Leaving(s) \subseteq 1 .. Len(posted[s])
  BY PostNumber DEF FrontOK, Leaving
<1>2. Arriving(s) \subseteq 1 .. Len(posted[s])
  <2>1. \A i \in DOMAIN Subscriber[s] : Nth(script[s], Subscriber[s][i]) \in 1 .. Len(posted[s])
    <3> SUFFICES ASSUME NEW i \in DOMAIN Subscriber[s]
                 PROVE  Nth(script[s], Subscriber[s][i]) \in 1 .. Len(posted[s])
      OBVIOUS
    <3>1. StandsForPost(s, Subscriber[s][i].key, Subscriber[s][i].body)
      BY DEF BackOK
    <3> QED
      BY <3>1, StandInNumber
  <2>2. InSend(s) => Nth(script[s], Z2lMsg[s]) \in 1 .. Len(posted[s])
    BY StandInNumber DEF BackOK
  <2> QED
    BY <2>1, <2>2 DEF Arriving
<1>3. Arrived(s) \subseteq 1 .. Len(posted[s])
  BY ScriptFacts DEF Arrived
<1> QED
  BY <1>1, <1>2, <1>3

-----------------------------------------------------------------------------
(* The front of the line.                                                  *)

(* What is posted and heard stays, and so does what it means to be a post. *)
LEMMA HistoryKept ==
  ASSUME NEW s \in Sites, HistoryOK(s), script' = script, posted'[s] = posted[s],
         heard'[Other[s]] = heard[Other[s]]
  PROVE  /\ HistoryOK(s)' /\ Arrived(s)' = Arrived(s)
<1>1. Other[Other[s]] = s
  BY DEF Sites, Other
<1>2. Arrived(s)' = Arrived(s)
  BY DEF Arrived, BodiesOf
<1>3. Upto(Other[s])' = Upto(Other[s])
  BY <1>1, <1>2 DEF Upto
<1>4. BodiesOf(heard[Other[s]])' = BodiesOf(heard[Other[s]])
  BY DEF BodiesOf
<1>5. BodiesOf(posted[s])' = BodiesOf(posted[s])
  BY DEF BodiesOf
<1> QED
  BY <1>2, <1>3, <1>4, <1>5 DEF HistoryOK

\* Nothing happens in the second bridge.
LEMMA BackKept ==
  ASSUME NEW s \in Sites, BackOK(s), script' = script, BackSame(s),
         Arrived(s)' = Arrived(s),
         \A channel, body : StandsForPost(s, channel, body) => StandsForPost(s, channel, body)'
  PROVE  BackOK(s)' /\ Arriving(s)' = Arriving(s)
<1>1. Arriving(s)' = Arriving(s) /\ InSend(s)' = InSend(s)
  BY DEF BackSame, Arriving, InSend
<1>2. Subscriber'[s] = Subscriber[s] /\ Z2lMsg'[s] = Z2lMsg[s]
  BY DEF BackSame
<1> QED
  BY <1>1, <1>2 DEF BackOK

(* The programs post the next message of the script.                       *)
LEMMA LinePosts ==
  ASSUME HistoryType, NEW s \in Sites, script' = script, LineType(s), LineOK(s),
         FrontPosts(s), BackSame(s)
  PROVE  LineOK(s)' /\ Arrived(s)' = Arrived(s)
<1> DEFINE n == Len(posted[s])
<1>1. PICK m \in AllMessages :
        /\ m.src = App
        /\ Post(m) = script[s][n + 1]
        /\ Socket'[s] = Append(Socket[s], m)
        /\ posted'[s] = Append(posted[s], Post(m))
  BY DEF FrontPosts
<1>2. /\ n \in Nat /\ Len(script[s]) \in Nat /\ n < Len(script[s])
      /\ DOMAIN posted[s] = 1 .. n /\ n + 1 \in DOMAIN script[s]
  BY ScriptFacts DEF FrontPosts
<1>3. Post(m) \in Posts /\ Post(m).body = m.body
  BY DEF Post, Posts, AllMessages
<1>4. /\ Len(posted'[s]) = n + 1 /\ DOMAIN posted'[s] = 1 .. n + 1
      /\ \A i \in 1 .. n : posted'[s][i] = posted[s][i]
      /\ posted'[s][n + 1] = Post(m)
  BY <1>1, <1>2, <1>3, ScriptFacts, AppendProperties
<1>5. Nth(script[s], m) = n + 1
  BY <1>1, <1>2, <1>3, NthIs
<1>6. \A x : IsPost(s, x) => IsPost(s, x)'
  BY <1>2, <1>4 DEF IsPost
<1>7. \A c, b : StandsForPost(s, c, b) => StandsForPost(s, c, b)'
  <2> SUFFICES ASSUME NEW c, NEW b, StandsForPost(s, c, b) PROVE StandsForPost(s, c, b)'
    OBVIOUS
  <2>1. PICK i \in 1 .. n :
          /\ posted[s][i].body = b /\ posted[s][i].chan \in Permitted[s]
          /\ c # NoChannel => Prefix[Other[s]] \o c = Prefix[s] \o posted[s][i].chan
    BY <1>2 DEF StandsForPost
  <2>2. i \in DOMAIN posted'[s] /\ posted'[s][i] = posted[s][i]
    BY <1>2, <1>4
  <2> QED
    BY <2>1, <2>2 DEF StandsForPost
<1>8. IsPost(s, m)'
  BY <1>2, <1>4 DEF IsPost
<1>9. BodiesOf(posted[s]) \subseteq BodiesOf(posted[s])'
  BY <1>2, <1>4 DEF BodiesOf
<1>10. Arrived(s)' = Arrived(s)
  <2>1. m.body \notin BodiesOf(posted[s])
    <3> SUFFICES ASSUME NEW j \in 1 .. n, posted[s][j].body = m.body PROVE FALSE
      BY <1>2 DEF BodiesOf
    <3>1. script[s][j].body = m.body /\ j \in DOMAIN script[s]
      BY <1>2, ScriptFacts DEF LineOK, HistoryOK
    <3>2. Nth(script[s], m) = j
      BY <3>1, NthIs
    <3> QED
      BY <1>2, <1>5, <3>2
  <2>2. m.body \notin BodiesOf(heard[Other[s]])
    BY <2>1 DEF LineOK, HistoryOK
  <2>3. heard'[Other[s]] = heard[Other[s]]
    BY DEF BackSame
  <2> QED
    BY <1>2, <1>3, <1>4, <2>2, <2>3 DEF Arrived
<1>11. HistoryOK(s)'
  <2>1. Other[Other[s]] = s
    BY DEF Sites, Other
  <2>2. Upto(Other[s])' = Upto(Other[s])
    BY <1>10, <2>1 DEF Upto
  <2>3. heard'[Other[s]] = heard[Other[s]]
    BY DEF BackSame
  <2>4. \A i \in 1 .. n + 1 : posted'[s][i] = script[s][i]
    BY <1>1, <1>2, <1>4 DEF LineOK, HistoryOK
  <2>5. BodiesOf(heard[Other[s]])' \subseteq BodiesOf(posted[s])'
    BY <1>9, <2>3 DEF LineOK, HistoryOK, BodiesOf
  <2> QED
    BY <1>2, <1>4, <1>10, <2>2, <2>4, <2>5 DEF LineOK, HistoryOK
<1>12. BackOK(s)' /\ Arriving(s)' = Arriving(s)
  BY <1>7, <1>10, BackKept DEF LineOK
<1>13. Leaving(s) \cup Arriving(s) \cup Arrived(s) \subseteq 1 .. n
  BY LineNumbers DEF LineOK
<1>14. /\ Len(Socket[s]) \in Nat /\ DOMAIN Socket[s] = 1 .. Len(Socket[s])
       /\ DOMAIN Socket'[s] = 1 .. Len(Socket[s]) + 1
       /\ \A i \in 1 .. Len(Socket[s]) : Socket'[s][i] = Socket[s][i]
       /\ Socket'[s][Len(Socket[s]) + 1] = m
  BY <1>1, AppendProperties, LenProperties DEF LineType
<1>15. Waiting(s)' = Waiting(s) \cup {Len(Socket[s]) + 1}
  BY <1>1, <1>14 DEF Waiting
<1>16. Held(s)' = Held(s) /\ L2zMsg'[s] = L2zMsg[s] /\ L2zPc'[s] = L2zPc[s]
  BY DEF FrontPosts, Held
<1>17. Leaving(s)' = Leaving(s) \cup {n + 1}
  BY <1>5, <1>14, <1>15, <1>16 DEF Leaving, Waiting
<1>18. FrontOK(s)'
  <2>1. \A i \in Waiting(s) : i \in 1 .. Len(Socket[s]) /\ Nth(script[s], Socket[s][i]) \in 1 .. n
    BY <1>13, <1>14 DEF Waiting, Leaving
  <2>2. Held(s) => Nth(script[s], L2zMsg[s]) \in 1 .. n
    BY <1>13 DEF Leaving
  <2>3. \A i \in Waiting(s)' : IsPost(s, Socket[s][i])'
    BY <1>6, <1>8, <1>14, <1>15, <2>1 DEF LineOK, FrontOK
  <2>4. \A i, j \in Waiting(s)' : i < j =>
          Nth(script[s], Socket'[s][i]) < Nth(script[s], Socket'[s][j])
    <3> SUFFICES ASSUME NEW i \in Waiting(s)', NEW j \in Waiting(s)', i < j
                 PROVE  Nth(script[s], Socket'[s][i]) < Nth(script[s], Socket'[s][j])
      OBVIOUS
    <3>1. i \in Waiting(s) /\ i \in 1 .. Len(Socket[s]) /\ Socket'[s][i] = Socket[s][i]
      BY <1>14, <1>15, <2>1
    <3>2. CASE j \in Waiting(s)
      <4>1. Socket'[s][j] = Socket[s][j]
        BY <1>14, <2>1, <3>2
      <4> QED
        BY <3>1, <3>2, <4>1 DEF LineOK, FrontOK
    <3>3. CASE j = Len(Socket[s]) + 1
      <4>1. Nth(script[s], Socket'[s][j]) = n + 1
        BY <1>5, <1>14, <3>3
      <4>2. Nth(script[s], Socket'[s][i]) \in 1 .. n
        BY <2>1, <3>1
      <4> QED
        BY <1>2, <4>1, <4>2
    <3> QED
      BY <1>15, <3>2, <3>3
  <2>5. Held(s) => \A i \in Waiting(s)' : Nth(script[s], L2zMsg[s]) < Nth(script[s], Socket'[s][i])
    BY <1>2, <1>5, <1>14, <1>15, <2>1, <2>2 DEF LineOK, FrontOK
  <2> QED
    BY <1>6, <1>16, <2>3, <2>4, <2>5 DEF LineOK, FrontOK
<1>19. BackFirst(s)'
  BY <1>2, <1>10, <1>12, <1>13, <1>17 DEF LineOK, BackFirst
<1> QED
  BY <1>10, <1>11, <1>12, <1>18, <1>19 DEF LineOK

\* Nothing is posted.
LEMMA PostsKept ==
  ASSUME NEW s \in Sites, posted'[s] = posted[s]
  PROVE  /\ \A m : IsPost(s, m)' <=> IsPost(s, m)
         /\ \A c, b : StandsForPost(s, c, b)' <=> StandsForPost(s, c, b)
BY DEF IsPost, StandsForPost

\* Nothing happens in the first bridge.
LEMMA FrontKept ==
  ASSUME NEW s \in Sites, script' = script, FrontOK(s), FrontSame(s)
  PROVE  FrontOK(s)' /\ Leaving(s)' = Leaving(s)
<1>1. Waiting(s)' = Waiting(s) /\ Held(s)' = Held(s)
  BY DEF FrontSame, Waiting, Held
<1>2. Socket'[s] = Socket[s] /\ L2zMsg'[s] = L2zMsg[s] /\ L2zPc'[s] = L2zPc[s]
  BY DEF FrontSame
<1>3. \A m : IsPost(s, m)' <=> IsPost(s, m)
  BY PostsKept DEF FrontSame
<1>4. Leaving(s)' = Leaving(s)
  BY <1>1, <1>2 DEF Leaving
<1> QED
  BY <1>1, <1>2, <1>3, <1>4 DEF FrontOK

(* A step of the first bridge that posts nothing: the line only loses      *)
(* messages there.                                                         *)
LEMMA LineFrontMoves ==
  ASSUME NEW s \in Sites, script' = script, LineOK(s), posted'[s] = posted[s],
         BackSame(s), FrontOK(s)', Leaving(s)' \subseteq Leaving(s)
  PROVE  LineOK(s)' /\ Arrived(s)' = Arrived(s)
<1>1. heard'[Other[s]] = heard[Other[s]]
  BY DEF BackSame
<1>2. HistoryOK(s)' /\ Arrived(s)' = Arrived(s)
  BY <1>1, HistoryKept DEF LineOK
<1>3. BackOK(s)' /\ Arriving(s)' = Arriving(s)
  BY <1>2, BackKept, PostsKept DEF LineOK
<1>4. BackFirst(s)'
  BY <1>2, <1>3 DEF LineOK, BackFirst
<1> QED
  BY <1>2, <1>3, <1>4 DEF LineOK

(* A loopback is no post.                                                  *)
LEMMA LineLoopsBack ==
  ASSUME NEW s \in Sites, script' = script, LineType(s), LineOK(s), FrontLoopsBack(s)
  PROVE  FrontOK(s)' /\ Leaving(s)' \subseteq Leaving(s)
<1>1. PICK m \in AllMessages : m.src # App /\ Socket'[s] = Append(Socket[s], m)
  BY DEF FrontLoopsBack
<1>2. /\ Len(Socket[s]) \in Nat /\ DOMAIN Socket[s] = 1 .. Len(Socket[s])
      /\ DOMAIN Socket'[s] = 1 .. Len(Socket[s]) + 1
      /\ \A i \in 1 .. Len(Socket[s]) : Socket'[s][i] = Socket[s][i]
      /\ Socket'[s][Len(Socket[s]) + 1] = m
  BY <1>1, AppendProperties, LenProperties DEF LineType
<1>3. /\ Waiting(s)' = Waiting(s)
      /\ \A i \in Waiting(s) : Socket'[s][i] = Socket[s][i]
  BY <1>1, <1>2 DEF Waiting
<1>4. Held(s)' = Held(s) /\ L2zMsg'[s] = L2zMsg[s] /\ L2zPc'[s] = L2zPc[s]
  BY DEF FrontLoopsBack, Held
<1>5. \A m2 : IsPost(s, m2)' <=> IsPost(s, m2)
  BY PostsKept DEF FrontLoopsBack
<1>6. Leaving(s)' = Leaving(s)
  BY <1>3, <1>4 DEF Leaving
<1> QED
  BY <1>3, <1>4, <1>5, <1>6 DEF LineOK, FrontOK

(* The head of the socket goes to the LCM -> Zenoh task.                   *)
LEMMA LineReceives ==
  ASSUME NEW s \in Sites, script' = script, LineType(s), LineOK(s), FrontReceives(s)
  PROVE  FrontOK(s)' /\ Leaving(s)' \subseteq Leaving(s)
<1>1. /\ Len(Socket[s]) \in Nat /\ DOMAIN Socket[s] = 1 .. Len(Socket[s])
      /\ 1 \in DOMAIN Socket[s]
      /\ DOMAIN Socket'[s] = 1 .. Len(Socket[s]) - 1
      /\ \A i \in DOMAIN Socket'[s] :
           i + 1 \in DOMAIN Socket[s] /\ Socket'[s][i] = Socket[s][i + 1]
      /\ L2zMsg'[s] = Socket[s][1] /\ L2zPc'[s] = "check"
  BY HeadTailProperties, LenProperties, EmptySeq DEF LineType, FrontReceives
<1>2. \A i \in Waiting(s)' : i + 1 \in Waiting(s) /\ Socket'[s][i] = Socket[s][i + 1]
  BY <1>1 DEF Waiting
<1>3. Held(s)' => 1 \in Waiting(s)
  BY <1>1 DEF Held, Waiting
<1>4. \A m : IsPost(s, m)' <=> IsPost(s, m)
  BY PostsKept DEF FrontReceives
<1>5. Leaving(s)' \subseteq Leaving(s)
  <2>1. \A i \in Waiting(s)' : Nth(script[s], Socket'[s][i]) \in Leaving(s)
    BY <1>2 DEF Leaving
  <2>2. Held(s)' => Nth(script[s], L2zMsg'[s]) \in Leaving(s)
    BY <1>1, <1>3 DEF Leaving
  <2> QED
    BY <2>1, <2>2 DEF Leaving
<1>6. \A i \in Waiting(s)' : IsPost(s, Socket[s][i])'
  BY <1>2, <1>4 DEF LineOK, FrontOK
<1>7. Held(s)' => IsPost(s, L2zMsg[s])'
  BY <1>1, <1>3, <1>4 DEF LineOK, FrontOK
<1>8. \A i \in Waiting(s)' : i \in Nat
  BY <1>1 DEF Waiting
<1>9. \A i, j \in Waiting(s)' : i < j =>
        Nth(script[s], Socket'[s][i]) < Nth(script[s], Socket'[s][j])
  <2> SUFFICES ASSUME NEW i \in Waiting(s)', NEW j \in Waiting(s)', i < j
               PROVE  Nth(script[s], Socket'[s][i]) < Nth(script[s], Socket'[s][j])
    OBVIOUS
  <2>1. i + 1 \in Waiting(s) /\ j + 1 \in Waiting(s) /\ i + 1 < j + 1
    BY <1>2, <1>8
  <2> QED
    BY <1>2, <2>1 DEF LineOK, FrontOK
<1>10. Held(s)' => \A i \in Waiting(s)' :
         Nth(script[s], L2zMsg'[s]) < Nth(script[s], Socket'[s][i])
  <2> SUFFICES ASSUME Held(s)', NEW i \in Waiting(s)'
               PROVE  Nth(script[s], L2zMsg'[s]) < Nth(script[s], Socket'[s][i])
    OBVIOUS
  <2>1. 1 \in Waiting(s) /\ i + 1 \in Waiting(s) /\ 1 < i + 1
    <3>1. i \in 1 .. Len(Socket[s]) - 1
      BY <1>1 DEF Waiting
    <3> QED
      BY <1>2, <1>3, <3>1
  <2> QED
    BY <1>1, <1>2, <2>1 DEF LineOK, FrontOK
<1>11. L2zPc'[s] # "publish"
  BY <1>1
<1> QED
  BY <1>5, <1>6, <1>7, <1>9, <1>10, <1>11 DEF FrontOK

(* What the task holds passes the check, or is let go.                     *)
LEMMA LinePassesOrLetsGo ==
  ASSUME NEW s \in Sites, script' = script, LineOK(s), FrontPasses(s) \/ FrontLetsGo(s)
  PROVE  FrontOK(s)' /\ Leaving(s)' \subseteq Leaving(s)
<1>1. Waiting(s)' = Waiting(s) /\ Socket'[s] = Socket[s]
  BY DEF FrontPasses, FrontLetsGo, Waiting
<1>2. Held(s)' => Held(s) /\ L2zMsg'[s] = L2zMsg[s]
  BY DEF FrontPasses, FrontLetsGo, Held
<1>3. L2zPc'[s] = "publish" =>
        /\ L2zMsg'[s] = L2zMsg[s]
        /\ L2zMsg[s].chan \in Permitted[s] \ UnmappableUnder(Prefix[s])
  BY DEF FrontPasses, FrontLetsGo
<1>4. \A m : IsPost(s, m)' <=> IsPost(s, m)
  BY PostsKept DEF FrontPasses, FrontLetsGo
<1>5. Leaving(s)' \subseteq Leaving(s)
  BY <1>1, <1>2 DEF Leaving
<1> QED
  BY <1>1, <1>2, <1>3, <1>4, <1>5 DEF LineOK, FrontOK

-----------------------------------------------------------------------------
(* From one bridge to the other.                                           *)

(* What strip_prefix leaves, after the prefix, is the key.                 *)
LEMMA KeyOfChannel ==
  ASSUME NEW S, NEW prefix \in Seq(S), NEW key \in Seq(S),
         key_expr_to_lcm_channel(key, prefix) # NoChannel
  PROVE  prefix \o key_expr_to_lcm_channel(key, prefix) = key
<1>1. PICK p \in Nat, k \in Nat : p = Len(prefix) /\ k = Len(key)
  BY LenProperties
<1>2. /\ p <= k /\ SubSeq(key, 1, p) = SubSeq(prefix, 1, p)
      /\ key_expr_to_lcm_channel(key, prefix) = SubSeq(key, p + 1, k)
  BY <1>1 DEF key_expr_to_lcm_channel, Chunks!IsStrictPrefix, Chunks!IsPrefix
<1>3. PICK rest : rest = SubSeq(key, p + 1, k)
  OBVIOUS
<1>4. rest \in Seq(S) /\ Len(rest) = k - p /\ \A i \in 1 .. k - p : rest[i] = key[p + i]
  BY <1>1, <1>2, <1>3
<1>5. \A i \in 1 .. p : prefix[i] = key[i]
  <2> SUFFICES ASSUME NEW i \in 1 .. p PROVE prefix[i] = key[i]
    OBVIOUS
  <2>1. SubSeq(key, 1, p)[i] = key[i] /\ SubSeq(prefix, 1, p)[i] = prefix[i]
    BY <1>1, <1>2
  <2> QED
    BY <1>2, <2>1
<1>6. /\ prefix \o rest \in Seq(S) /\ Len(prefix \o rest) = k
      /\ \A i \in 1 .. k : (prefix \o rest)[i] = IF i <= p THEN prefix[i] ELSE rest[i - p]
  <2>1. Len(prefix) + Len(rest) = k
    BY <1>1, <1>2, <1>4
  <2>2. /\ prefix \o rest \in Seq(S) /\ Len(prefix \o rest) = Len(prefix) + Len(rest)
        /\ \A i \in 1 .. Len(prefix) + Len(rest) :
             (prefix \o rest)[i] = IF i <= Len(prefix) THEN prefix[i] ELSE rest[i - Len(prefix)]
    BY <1>4, ConcatProperties
  <2> QED
    BY <1>1, <2>1, <2>2
<1>7. \A i \in 1 .. k : (prefix \o rest)[i] = key[i]
  <2> SUFFICES ASSUME NEW i \in 1 .. k PROVE (prefix \o rest)[i] = key[i]
    OBVIOUS
  <2>1. CASE i <= p
    BY <1>1, <1>5, <1>6, <2>1
  <2>2. CASE ~ (i <= p)
    <3>1. i - p \in 1 .. k - p /\ p + (i - p) = i
      BY <1>1, <1>2, <2>2
    <3> QED
      BY <1>4, <1>6, <2>2, <3>1
  <2> QED
    BY <2>1, <2>2
<1>8. prefix \o rest = key
  BY <1>1, <1>6, <1>7, SeqEqual
<1> QED
  BY <1>2, <1>3, <1>8

(* The other bridge's channel has the key of the first one's.              *)
LEMMA SameKey ==
  ASSUME NEW s \in Sites, NEW c \in Channels \ UnmappableUnder(Prefix[s]),
         NEW channel,
         channel = key_expr_to_lcm_channel(lcm_channel_to_key_expr(c, Prefix[s]),
                                           Prefix[Other[s]]),
         channel # NoChannel
  PROVE  Prefix[Other[s]] \o channel = Prefix[s] \o c
<1>1. lcm_channel_to_key_expr(c, Prefix[s]) = Prefix[s] \o c
  BY DEF UnmappableUnder, lcm_channel_to_key_expr
<1>2. PICK S : /\ Prefix[s] \in Seq(S) /\ Prefix[Other[s]] \in Seq(S) /\ c \in Seq(S)
  <2> DEFINE T(n) == {n[i] : i \in DOMAIN n}
             S == T(c) \cup T(PrefixA) \cup T(PrefixB)
  <2>1. c \in Seq(T(c)) /\ PrefixA \in Seq(T(PrefixA)) /\ PrefixB \in Seq(T(PrefixB))
    BY ChunksAssumption
  <2>2. T(c) \subseteq S /\ T(PrefixA) \subseteq S /\ T(PrefixB) \subseteq S
    OBVIOUS
  <2> HIDE DEF T, S
  <2>3. c \in Seq(S) /\ PrefixA \in Seq(S) /\ PrefixB \in Seq(S)
    BY <2>1, <2>2, SeqMonotonic
  <2> QED
    BY <2>3 DEF Prefix, Other, Sites
<1>3. Prefix[s] \o c \in Seq(S)
  BY <1>2, ConcatProperties
<1> QED
  BY <1>1, <1>2, <1>3, KeyOfChannel

(* A put reaches the other bridge: the message goes from the end of one    *)
(* half to the beginning of the other.                                     *)
LEMMA LinePublished ==
  ASSUME HistoryType, NEW s \in Sites, script' = script, LineType(s), LineOK(s),
         Published(s)
  PROVE  LineOK(s)' /\ Arrived(s)' = Arrived(s)
<1>1. PICK m \in AllMessages : m = L2zMsg[s] /\ m.src = App
  BY DEF Published, LineType
<1>2. PICK e \in AllSamples :
        /\ e = Sample(m, Prefix[s], Prefix[Other[s]])
        /\ Subscriber'[s] = Append(Subscriber[s], e)
  BY <1>1 DEF Published
<1>3. Held(s) /\ IsPost(s, m) /\ m.chan \in Permitted[s] \ UnmappableUnder(Prefix[s])
  BY <1>1 DEF Held, Published, LineOK, FrontOK
<1>4. e.body = m.body
  BY <1>2 DEF Sample
<1>5. StandsForPost(s, e.key, e.body)
  <2>1. PICK i \in DOMAIN posted[s] : posted[s][i].chan = m.chan /\ posted[s][i].body = m.body
    BY <1>3 DEF IsPost, Post
  <2>2. m.chan \in Channels \ UnmappableUnder(Prefix[s])
    BY <1>3 DEF AllMessages
  <2>3. e.key = key_expr_to_lcm_channel(lcm_channel_to_key_expr(m.chan, Prefix[s]),
                                        Prefix[Other[s]])
    BY <1>2 DEF Sample
  <2>4. e.key # NoChannel => Prefix[Other[s]] \o e.key = Prefix[s] \o m.chan
    BY <2>2, <2>3, SameKey
  <2> QED
    BY <1>3, <1>4, <2>1, <2>4 DEF StandsForPost
<1>6. PICK n : n = Nth(script[s], m) /\ n = Nth(script[s], e)
  BY <1>4 DEF Nth
<1>7. n \in Leaving(s) /\ n \in Nat /\ Arriving(s) \cup Arrived(s) \cup Leaving(s) \subseteq Nat
  <2>1. n \in Leaving(s)
    BY <1>1, <1>3, <1>6 DEF Leaving
  <2>2. Leaving(s) \cup Arriving(s) \cup Arrived(s) \subseteq 1 .. Len(posted[s])
    BY LineNumbers DEF LineOK
  <2> QED
    BY <2>1, <2>2
<1>8. Waiting(s)' = Waiting(s) /\ Socket'[s] = Socket[s] /\ ~ Held(s)'
  BY DEF Published, Waiting, Held
<1>9. Leaving(s)' \subseteq Leaving(s) /\ \A j \in Leaving(s)' : n < j
  <2>1. \A i \in Waiting(s) : n < Nth(script[s], Socket[s][i])
    BY <1>1, <1>3, <1>6 DEF LineOK, FrontOK
  <2> QED
    BY <1>8, <2>1 DEF Leaving
<1>10. HistoryOK(s)' /\ Arrived(s)' = Arrived(s)
  BY HistoryKept DEF Published, LineOK
<1>11. FrontOK(s)'
  <2>1. \A x : IsPost(s, x)' <=> IsPost(s, x)
    BY PostsKept DEF Published
  <2>2. L2zPc'[s] # "publish"
    BY DEF Published
  <2> QED
    BY <1>8, <2>1, <2>2 DEF LineOK, FrontOK
<1>12. /\ Len(Subscriber[s]) \in Nat /\ DOMAIN Subscriber[s] = 1 .. Len(Subscriber[s])
       /\ DOMAIN Subscriber'[s] = 1 .. Len(Subscriber[s]) + 1
       /\ \A i \in 1 .. Len(Subscriber[s]) : Subscriber'[s][i] = Subscriber[s][i]
       /\ Subscriber'[s][Len(Subscriber[s]) + 1] = e
  BY <1>2, AppendProperties, LenProperties DEF LineType
<1>13. InSend(s)' = InSend(s) /\ Z2lMsg'[s] = Z2lMsg[s]
  BY DEF Published, InSend
<1>14. Arriving(s)' = Arriving(s) \cup {n}
  <2>1. \A i \in DOMAIN Subscriber'[s] : i \in DOMAIN Subscriber[s] \/ i = Len(Subscriber[s]) + 1
    BY <1>12
  <2>2. \A i \in DOMAIN Subscriber[s] : i \in DOMAIN Subscriber'[s]
    BY <1>12
  <2>3. Len(Subscriber[s]) + 1 \in DOMAIN Subscriber'[s]
    BY <1>12
  <2>4. {Nth(script[s], Subscriber'[s][i]) : i \in DOMAIN Subscriber'[s]}
          = {Nth(script[s], Subscriber[s][i]) : i \in DOMAIN Subscriber[s]} \cup {n}
    BY <1>6, <1>12, <2>1, <2>2, <2>3
  <2> QED
    BY <1>13, <2>4 DEF Arriving
<1>15. \A i \in Arrived(s) \cup Arriving(s) : i < n
  BY <1>7 DEF LineOK, BackFirst
<1>16. BackOK(s)'
  <2>1. \A c, b : StandsForPost(s, c, b)' <=> StandsForPost(s, c, b)
    BY PostsKept DEF Published
  <2>2. \A i \in DOMAIN Subscriber'[s] :
          StandsForPost(s, Subscriber[s][i].key, Subscriber[s][i].body)'
    BY <1>5, <1>12, <2>1 DEF LineOK, BackOK
  <2>3. \A i \in DOMAIN Subscriber[s] : Nth(script[s], Subscriber[s][i]) \in Arriving(s)
    BY DEF Arriving
  <2>4. \A i, j \in DOMAIN Subscriber'[s] : i < j =>
          Nth(script[s], Subscriber'[s][i]) < Nth(script[s], Subscriber'[s][j])
    <3> SUFFICES ASSUME NEW i \in DOMAIN Subscriber'[s], NEW j \in DOMAIN Subscriber'[s],
                        i < j
                 PROVE  Nth(script[s], Subscriber'[s][i]) < Nth(script[s], Subscriber'[s][j])
      OBVIOUS
    <3>1. i \in DOMAIN Subscriber[s] /\ Subscriber'[s][i] = Subscriber[s][i]
      BY <1>12
    <3>2. CASE j \in DOMAIN Subscriber[s]
      <4>1. Subscriber'[s][j] = Subscriber[s][j]
        BY <1>12, <3>2
      <4> QED
        BY <3>1, <3>2, <4>1 DEF LineOK, BackOK
    <3>3. CASE j = Len(Subscriber[s]) + 1
      BY <1>6, <1>12, <1>15, <2>3, <3>1, <3>3
    <3> QED
      BY <1>12, <3>2, <3>3
  <2>5. InSend(s) => \A i \in DOMAIN Subscriber'[s] :
          Nth(script[s], Z2lMsg[s]) < Nth(script[s], Subscriber'[s][i])
    <3>1. InSend(s) => Nth(script[s], Z2lMsg[s]) \in Arriving(s)
      BY DEF Arriving
    <3> QED
      BY <1>6, <1>12, <1>15, <3>1 DEF LineOK, BackOK
  <2>6. \A i \in Arrived(s)', j \in Arriving(s)' : i < j
    BY <1>10, <1>14, <1>15 DEF LineOK, BackOK
  <2> QED
    BY <1>13, <2>1, <2>2, <2>4, <2>5, <2>6 DEF LineOK, BackOK
<1>17. BackFirst(s)'
  BY <1>9, <1>10, <1>14 DEF LineOK, BackFirst
<1> QED
  BY <1>10, <1>11, <1>16, <1>17 DEF LineOK

-----------------------------------------------------------------------------
(* The back of the line.                                                   *)

(* What the second bridge does not send is lost to the line.               *)
LEMMA LineBackMoves ==
  ASSUME NEW s \in Sites, script' = script, LineOK(s), FrontSame(s),
         heard'[Other[s]] = heard[Other[s]],
         Arriving(s)' \subseteq Arriving(s),
         (/\ \A i \in DOMAIN Subscriber[s] :
               StandsForPost(s, Subscriber[s][i].key, Subscriber[s][i].body)
          /\ InSend(s) =>
               /\ Z2lMsg[s].chan \in Permitted[Other[s]]
               /\ StandsForPost(s, Z2lMsg[s].chan, Z2lMsg[s].body)
          /\ \A i, j \in DOMAIN Subscriber[s] : i < j =>
               Nth(script[s], Subscriber[s][i]) < Nth(script[s], Subscriber[s][j])
          /\ InSend(s) => \A i \in DOMAIN Subscriber[s] :
               Nth(script[s], Z2lMsg[s]) < Nth(script[s], Subscriber[s][i]))'
  PROVE  LineOK(s)' /\ Arrived(s)' = Arrived(s)
<1>1. HistoryOK(s)' /\ Arrived(s)' = Arrived(s)
  BY HistoryKept DEF LineOK, FrontSame
<1>2. FrontOK(s)' /\ Leaving(s)' = Leaving(s)
  BY FrontKept DEF LineOK
<1>3. \A i \in Arrived(s)', j \in Arriving(s)' : i < j
  BY <1>1 DEF LineOK, BackOK
<1>4. BackFirst(s)'
  BY <1>1, <1>2 DEF LineOK, BackFirst
<1>5. BackOK(s)'
  BY <1>3 DEF BackOK
<1> QED
  BY <1>1, <1>2, <1>4, <1>5 DEF LineOK

(* A sample is skipped, or taken to be sent.                               *)
LEMMA LineSkipsOrTakes ==
  ASSUME NEW s \in Sites, script' = script, LineType(s), LineOK(s), FrontSame(s),
         BackSkips(s) \/ BackTakes(s)
  PROVE  LineOK(s)' /\ Arrived(s)' = Arrived(s)
<1>1. /\ Len(Subscriber[s]) \in Nat /\ DOMAIN Subscriber[s] = 1 .. Len(Subscriber[s])
      /\ 1 \in DOMAIN Subscriber[s] /\ Head(Subscriber[s]) = Subscriber[s][1]
      /\ Subscriber[s][1] \in AllSamples
      /\ DOMAIN Subscriber'[s] = 1 .. Len(Subscriber[s]) - 1
      /\ \A i \in DOMAIN Subscriber'[s] :
           i + 1 \in DOMAIN Subscriber[s] /\ Subscriber'[s][i] = Subscriber[s][i + 1]
  <2>1. Subscriber[s] # <<>> /\ Subscriber'[s] = Tail(Subscriber[s])
    BY DEF BackSkips, BackTakes
  <2>2. Subscriber[s] \in Seq(AllSamples)
    BY DEF LineType
  <2> QED
    BY <2>1, <2>2, HeadTailProperties, LenProperties, EmptySeq, ElementOfSeq
<1>2. heard'[Other[s]] = heard[Other[s]]
  BY DEF BackSkips, BackTakes
<1>3. \A c, b : StandsForPost(s, c, b)' <=> StandsForPost(s, c, b)
  BY PostsKept DEF FrontSame
<1>4. \A i \in DOMAIN Subscriber'[s] : i \in Nat /\ 1 \in Nat /\ 1 < i + 1
  BY <1>1
<1>5. \A i \in DOMAIN Subscriber'[s] :
        StandsForPost(s, Subscriber[s][i].key, Subscriber[s][i].body)'
  BY <1>1, <1>3 DEF LineOK, BackOK
<1>6. \A i, j \in DOMAIN Subscriber'[s] : i < j =>
        Nth(script[s], Subscriber'[s][i]) < Nth(script[s], Subscriber'[s][j])
  <2> SUFFICES ASSUME NEW i \in DOMAIN Subscriber'[s], NEW j \in DOMAIN Subscriber'[s],
                      i < j
               PROVE  Nth(script[s], Subscriber'[s][i]) < Nth(script[s], Subscriber'[s][j])
    OBVIOUS
  <2>1. i + 1 < j + 1
    BY <1>4
  <2> QED
    BY <1>1, <2>1 DEF LineOK, BackOK
<1>7. \A i \in DOMAIN Subscriber'[s] : Nth(script[s], Subscriber'[s][i]) \in Arriving(s)
  BY <1>1 DEF Arriving
<1>8. CASE BackSkips(s)
  <2>1. InSend(s)' = InSend(s) /\ Z2lMsg'[s] = Z2lMsg[s]
    BY <1>8 DEF BackSkips, InSend
  <2>2. Arriving(s)' \subseteq Arriving(s)
    BY <1>7, <2>1 DEF Arriving
  <2>3. InSend(s) => \A i \in DOMAIN Subscriber'[s] :
          Nth(script[s], Z2lMsg[s]) < Nth(script[s], Subscriber'[s][i])
    BY <1>1 DEF LineOK, BackOK
  <2>4. InSend(s) => /\ Z2lMsg[s].chan \in Permitted[Other[s]]
                     /\ StandsForPost(s, Z2lMsg[s].chan, Z2lMsg[s].body)
    BY DEF LineOK, BackOK
  <2> QED
    BY <1>2, <1>3, <1>5, <1>6, <2>1, <2>2, <2>3, <2>4, LineBackMoves
<1>9. CASE BackTakes(s)
  <2>1. /\ Z2lMsg'[s].chan = Subscriber[s][1].key /\ Z2lMsg'[s].body = Subscriber[s][1].body
        /\ Subscriber[s][1].key \in Permitted[Other[s]]
    BY <1>1, <1>9 DEF BackTakes
  <2>2. Nth(script[s], Z2lMsg'[s]) = Nth(script[s], Subscriber[s][1])
    BY <2>1 DEF Nth
  <2>3. Arriving(s)' \subseteq Arriving(s)
    <3>1. Nth(script[s], Z2lMsg'[s]) \in Arriving(s)
      BY <1>1, <2>2 DEF Arriving
    <3> QED
      BY <1>7, <3>1 DEF Arriving
  <2>4. \A i \in DOMAIN Subscriber'[s] :
          Nth(script[s], Z2lMsg'[s]) < Nth(script[s], Subscriber'[s][i])
    BY <1>1, <1>4, <2>2 DEF LineOK, BackOK
  <2>5. StandsForPost(s, Z2lMsg'[s].chan, Z2lMsg'[s].body)
    BY <1>1, <2>1 DEF LineOK, BackOK
  <2>6. /\ (Z2lMsg[s].chan \in Permitted[Other[s]])'
        /\ StandsForPost(s, Z2lMsg[s].chan, Z2lMsg[s].body)'
    BY <1>3, <2>1, <2>5
  <2> QED
    BY <1>2, <1>5, <1>6, <2>3, <2>4, <2>6, LineBackMoves
<1> QED
  BY <1>8, <1>9

(* Neither is sent what a failed send lets go.                             *)
LEMMA LineLetsGo ==
  ASSUME NEW s \in Sites, script' = script, LineOK(s), FrontSame(s), BackLetsGo(s)
  PROVE  LineOK(s)' /\ Arrived(s)' = Arrived(s)
<1>1. ~ InSend(s)' /\ Subscriber'[s] = Subscriber[s]
  BY DEF BackLetsGo, InSend
<1>2. Arriving(s)' \subseteq Arriving(s)
  BY <1>1 DEF Arriving
<1>3. \A c, b : StandsForPost(s, c, b)' <=> StandsForPost(s, c, b)
  BY PostsKept DEF FrontSame
<1>4. heard'[Other[s]] = heard[Other[s]]
  BY DEF BackLetsGo
<1>5. \A i \in DOMAIN Subscriber'[s] :
        StandsForPost(s, Subscriber[s][i].key, Subscriber[s][i].body)'
  BY <1>1, <1>3 DEF LineOK, BackOK
<1>6. \A i, j \in DOMAIN Subscriber'[s] : i < j =>
        Nth(script[s], Subscriber'[s][i]) < Nth(script[s], Subscriber'[s][j])
  BY <1>1 DEF LineOK, BackOK
<1> QED
  BY <1>1, <1>2, <1>4, <1>5, <1>6, LineBackMoves

\* The greatest element of a set.
LEMMA MaxIs ==
  ASSUME NEW S \in SUBSET Int, NEW k \in S, \A i \in S : i <= k
  PROVE  Max(S) = k
<1>1. \E x \in S : \A y \in S : x >= y
  OBVIOUS
<1>2. Max(S) \in S /\ \A y \in S : Max(S) >= y
  BY <1>1 DEF Max
<1>3. Max(S) >= k /\ Max(S) <= k /\ Max(S) \in Int /\ k \in Int
  BY <1>2
<1> QED
  BY <1>3

\* What is heard is the next of the posts that is neither heard nor lost.
HeardNext(s) ==
  LET m == Z2lMsg[s]
      n == Nth(script[s], m)
  IN  /\ n \in DOMAIN posted[s] /\ n > Upto(Other[s]) /\ Upto(Other[s])' = n
      /\ Promise!SameMessage(Other[s], Post(m), posted[s][n])
      /\ Post(m) \in Posts

(* The other bridge multicasts the message: it stands for the post that    *)
(* comes next of those not yet heard or lost.                              *)
LEMMA LineIsHeard ==
  ASSUME HistoryType, NEW s \in Sites, script' = script, LineType(s), LineOK(s),
         FrontSame(s), BackIsHeard(s)
  PROVE  LineOK(s)' /\ HeardNext(s)
<1>1. PICK m \in AllMessages : m = Z2lMsg[s]
  BY DEF BackIsHeard, LineType, InSend
<1>2. InSend(s) /\ ~ InSend(s)' /\ Subscriber'[s] = Subscriber[s]
  BY DEF BackIsHeard, InSend
<1>3. m.chan \in Permitted[Other[s]] /\ StandsForPost(s, m.chan, m.body)
  BY <1>1, <1>2 DEF LineOK, BackOK
<1>4. Post(m) \in Posts /\ Post(m).body = m.body /\ Post(m).chan = m.chan
  BY DEF Post, Posts, AllMessages
<1>5. m.chan # NoChannel
  BY BridgesAssumption DEF AllMessages
<1>6. PICK n \in 1 .. Len(posted[s]) :
        /\ n = Nth(script[s], m) /\ posted[s][n].body = m.body
        /\ posted[s][n].chan \in Permitted[s]
        /\ Prefix[Other[s]] \o m.chan = Prefix[s] \o posted[s][n].chan
  <2>1. HistoryOK(s)
    BY DEF LineOK
  <2>2. PICK k : k = Nth(script[s], m)
    OBVIOUS
  <2>3. /\ k \in 1 .. Len(posted[s])
        /\ posted[s][k].body = m.body /\ posted[s][k].chan \in Permitted[s]
        /\ m.chan # NoChannel
             => Prefix[Other[s]] \o m.chan = Prefix[s] \o posted[s][k].chan
    BY <1>3, <2>1, <2>2, StandInNumber
  <2> QED
    BY <1>5, <2>2, <2>3
<1>7. n \in DOMAIN posted[s] /\ Len(posted[s]) \in Nat
  BY ScriptFacts
<1>8. Other[Other[s]] = s /\ Other[s] \in Sites
  BY DEF Sites, Other
<1>9. Promise!SameMessage(Other[s], Post(m), posted[s][n])
  BY <1>3, <1>4, <1>6, <1>8 DEF Promise!SameMessage
<1>10. n \in Arriving(s)
  BY <1>1, <1>2, <1>6 DEF Arriving
<1>11. \A i \in DOMAIN posted[s] : posted[s][i].body = m.body => i = n
  BY <1>6, <1>7, ScriptFacts, NthIs DEF LineOK, HistoryOK
<1>12. BodiesOf(heard[Other[s]])' = BodiesOf(heard[Other[s]]) \cup {m.body}
  <2>1. PICK h \in Seq(Posts) : h = heard[Other[s]]
    BY ScriptFacts
  <2>2. PICK k \in Nat : k = Len(h) /\ DOMAIN h = 1 .. k
    BY LenProperties
  <2>3. PICK g : g = heard'[Other[s]] /\ g = Append(h, Post(m))
    BY <1>1, <2>1 DEF BackIsHeard
  <2>4. DOMAIN g = 1 .. k + 1 /\ g[k + 1] = Post(m) /\ \A i \in 1 .. k : g[i] = h[i]
    BY <1>4, <2>2, <2>3, AppendProperties
  <2>5. BodiesOf(g) = BodiesOf(h) \cup {m.body}
    BY <1>4, <2>2, <2>4 DEF BodiesOf
  <2> QED
    BY <2>1, <2>3, <2>5 DEF BodiesOf
<1>13. posted'[s] = posted[s]
  BY DEF FrontSame
<1>14. Arrived(s)' = Arrived(s) \cup {n}
  BY <1>6, <1>7, <1>11, <1>12, <1>13 DEF Arrived
<1>15. \A i \in Arrived(s) : i < n
  BY <1>10 DEF LineOK, BackOK
<1>16. Arrived(s) \subseteq 1 .. Len(posted[s])
  BY <1>7, ScriptFacts DEF Arrived
<1>17. Upto(Other[s])' = n
  <2>1. Upto(Other[s])' = Max({0} \cup Arrived(s)')
    BY <1>8 DEF Upto
  <2>2. {0} \cup Arrived(s)' \in SUBSET Int /\ n \in {0} \cup Arrived(s)'
    BY <1>7, <1>14, <1>16
  <2>3. \A i \in {0} \cup Arrived(s)' : i <= n
    BY <1>7, <1>14, <1>15, <1>16
  <2> QED
    BY <2>1, <2>2, <2>3, MaxIs
<1>18. n > Upto(Other[s])
  BY <1>7, <1>15, <1>16 DEF LineOK, HistoryOK
<1>19. HistoryOK(s)'
  <2>1. m.body \in BodiesOf(posted[s])
    BY <1>6, <1>7 DEF BodiesOf
  <2>2. BodiesOf(posted[s])' = BodiesOf(posted[s])
    BY <1>13 DEF BodiesOf
  <2>3. BodiesOf(heard[Other[s]])' \subseteq BodiesOf(posted[s])'
    BY <1>12, <2>1, <2>2 DEF LineOK, HistoryOK
  <2>4. Upto(Other[s])' \in {0} \cup Arrived(s)'
    BY <1>14, <1>17
  <2>5. \A i \in Arrived(s)' : i <= Upto(Other[s])'
    BY <1>7, <1>14, <1>15, <1>16, <1>17
  <2> QED
    BY <1>13, <2>3, <2>4, <2>5 DEF LineOK, HistoryOK
<1>20. FrontOK(s)' /\ Leaving(s)' = Leaving(s)
  BY FrontKept DEF LineOK
<1>21. Arriving(s)' = {Nth(script[s], Subscriber[s][i]) : i \in DOMAIN Subscriber[s]}
  BY <1>2 DEF Arriving
<1>22. BackOK(s)'
  <2>1. \A c, b : StandsForPost(s, c, b)' <=> StandsForPost(s, c, b)
    BY <1>13, PostsKept
  <2>2. \A i \in DOMAIN Subscriber'[s] :
          StandsForPost(s, Subscriber[s][i].key, Subscriber[s][i].body)'
    BY <1>2, <2>1 DEF LineOK, BackOK
  <2>3. \A j \in Arriving(s)' : n < j
    BY <1>1, <1>2, <1>6, <1>21 DEF LineOK, BackOK
  <2>4. \A j \in Arriving(s)' : j \in Arriving(s)
    BY <1>21 DEF Arriving
  <2>5. \A i \in Arrived(s)', j \in Arriving(s)' : i < j
    BY <1>14, <2>3, <2>4 DEF LineOK, BackOK
  <2> QED
    BY <1>2, <2>2, <2>5 DEF LineOK, BackOK
<1>23. BackFirst(s)'
  <2>1. Arriving(s)' \subseteq Arriving(s)
    BY <1>21 DEF Arriving
  <2> QED
    BY <1>10, <1>14, <1>20, <2>1 DEF LineOK, BackFirst
<1> QED
  BY <1>1, <1>4, <1>6, <1>7, <1>9, <1>17, <1>18, <1>19, <1>20, <1>22, <1>23
  DEF LineOK, HeardNext

-----------------------------------------------------------------------------
(* All steps, on either line.                                              *)

\* A line that hears nothing new: what is posted may grow.
Unheard(s) ==
  /\ heard'[Other[s]] = heard[Other[s]]
  /\ Arrived(s)' = Arrived(s)

\* Whatever happens on the line, it stays right, and what is heard comes next.
LEMMA LineStep ==
  ASSUME HistoryType, NEW s \in Sites, script' = script, LineType(s), LineOK(s),
         LineMoves(s)
  PROVE  /\ LineOK(s)'
         /\ Unheard(s) \/ (BackIsHeard(s) /\ HeardNext(s))
<1>1. CASE FrontSame(s) /\ BackSame(s)
  <2>1. HistoryOK(s)' /\ Arrived(s)' = Arrived(s)
    BY <1>1, HistoryKept DEF LineOK, FrontSame, BackSame
  <2>2. FrontOK(s)' /\ Leaving(s)' = Leaving(s)
    BY <1>1, FrontKept DEF LineOK
  <2>3. BackOK(s)' /\ Arriving(s)' = Arriving(s)
    BY <1>1, <2>1, BackKept, PostsKept DEF LineOK, FrontSame
  <2> QED
    BY <1>1, <2>1, <2>2, <2>3 DEF LineOK, BackFirst, Unheard, BackSame
<1>2. CASE FrontMoves(s) /\ BackSame(s)
  <2>1. LineOK(s)' /\ Arrived(s)' = Arrived(s)
    <3>1. CASE FrontPosts(s)
      BY <1>2, <3>1, LinePosts
    <3>2. CASE FrontLoopsBack(s)
      BY <1>2, <3>2, LineLoopsBack, LineFrontMoves DEF FrontLoopsBack
    <3>3. CASE FrontReceives(s)
      BY <1>2, <3>3, LineReceives, LineFrontMoves DEF FrontReceives
    <3>4. CASE FrontPasses(s) \/ FrontLetsGo(s)
      <4>1. posted'[s] = posted[s]
        BY <3>4 DEF FrontPasses, FrontLetsGo
      <4> QED
        BY <1>2, <3>4, <4>1, LinePassesOrLetsGo, LineFrontMoves
    <3> QED
      BY <1>2, <3>1, <3>2, <3>3, <3>4 DEF FrontMoves
  <2> QED
    BY <1>2, <2>1 DEF Unheard, BackSame
<1>3. CASE FrontSame(s) /\ (BackSkips(s) \/ BackTakes(s))
  BY <1>3, LineSkipsOrTakes DEF Unheard, BackSkips, BackTakes
<1>4. CASE FrontSame(s) /\ BackLetsGo(s)
  BY <1>4, LineLetsGo DEF Unheard, BackLetsGo
<1>5. CASE FrontSame(s) /\ BackIsHeard(s)
  BY <1>5, LineIsHeard
<1>6. CASE Published(s)
  BY <1>6, LinePublished DEF Unheard, Published
<1> QED
  BY <1>1, <1>2, <1>3, <1>4, <1>5, <1>6 DEF LineMoves, BackMoves

(* What a step does to the two histories.                                  *)
OnePosted(s) ==
  \E p \in Posts : /\ posted' = [posted EXCEPT ![s] = Append(@, p)]
                   /\ heard' = heard
OneHeard(s) ==
  /\ BackIsHeard(s)
  /\ heard' = [heard EXCEPT ![Other[s]] = Append(@, Post(Z2lMsg[s]))]
  /\ posted' = posted

\* A step posts one message, or one is heard, or neither.
LEMMA HistorySteps ==
  ASSUME HistoryType, SiteA!TypeOK, SiteB!TypeOK, [Next]_vars
  PROVE  \/ UNCHANGED <<posted, heard>>
         \/ \E s \in Sites : OnePosted(s) \/ OneHeard(s)
<1>1. CASE APosts
  <2>1. PICK m \in SiteA!Messages : a_socket' = Append(a_socket, m)
    BY <1>1 DEF APosts, SiteA!AppSends
  <2>2. Last(a_socket') = m
    BY <2>1, AppendProperties DEF Last, SiteA!TypeOK
  <2>3. Post(m) \in Posts
    BY DEF SiteA!Messages, Post, Posts
  <2> QED
    BY <1>1, <2>2, <2>3 DEF APosts, Scripted, OnePosted, Sites
<1>2. CASE BPosts
  <2>1. PICK m \in SiteB!Messages : b_socket' = Append(b_socket, m)
    BY <1>2 DEF BPosts, SiteB!AppSends
  <2>2. Last(b_socket') = m
    BY <2>1, AppendProperties DEF Last, SiteB!TypeOK
  <2>3. Post(m) \in Posts
    BY DEF SiteB!Messages, Post, Posts
  <2> QED
    BY <1>2, <2>2, <2>3 DEF BPosts, Scripted, OnePosted, Sites
<1>3. CASE ASends
  <2>1. CASE SiteA!Z2lTransmit /\ Hears("A", a_z2l_msg)
    <3>1. BackIsHeard("B")
      BY <1>3, <2>1
      DEF ASends, SiteA!Z2lTransmit, SiteA!z2l_vars, SiteA!l2z_vars, Hears, HistoryType, Sites,
          BackIsHeard, Other, Z2lPc, Z2lMsg, Subscriber
    <3> QED
      BY <1>3, <2>1, <3>1 DEF ASends, Hears, OneHeard, Sites, Other, Z2lMsg
  <2>2. CASE UNCHANGED heard
    BY <1>3, <2>2 DEF ASends
  <2> QED
    BY <1>3, <2>1, <2>2 DEF ASends
<1>4. CASE BSends
  <2>1. CASE SiteB!Z2lTransmit /\ Hears("B", b_z2l_msg)
    <3>1. BackIsHeard("A")
      BY <1>4, <2>1
      DEF BSends, SiteB!Z2lTransmit, SiteB!z2l_vars, SiteB!l2z_vars, Hears, HistoryType, Sites,
          BackIsHeard, Other, Z2lPc, Z2lMsg, Subscriber
    <3> QED
      BY <1>4, <2>1, <3>1 DEF BSends, Hears, OneHeard, Sites, Other, Z2lMsg
  <2>2. CASE UNCHANGED heard
    BY <1>4, <2>2 DEF BSends
  <2> QED
    BY <1>4, <2>1, <2>2 DEF BSends
<1>5. CASE AOwn \/ BOwn \/ APublishes \/ BPublishes \/ UNCHANGED vars
  BY <1>5 DEF AOwn, BOwn, APublishes, BPublishes, vars, history
<1> QED
  BY <1>1, <1>2, <1>3, <1>4, <1>5 DEF Next

\* The histories stay sequences of posts.
LEMMA HistoryTypeKept ==
  ASSUME HistoryType, SiteA!TypeOK, SiteB!TypeOK, [Next]_vars
  PROVE  HistoryType'
<1>1. script' = script
  BY Moves
<1>2. CASE UNCHANGED <<posted, heard>>
  BY <1>1, <1>2 DEF HistoryType
<1>3. ASSUME NEW s \in Sites, OnePosted(s) PROVE HistoryType'
  <2>1. PICK p \in Posts : posted' = [posted EXCEPT ![s] = Append(@, p)] /\ heard' = heard
    BY <1>3 DEF OnePosted
  <2>2. Append(posted[s], p) \in Seq(Posts)
    BY ScriptFacts, AppendProperties
  <2> QED
    BY <1>1, <2>1, <2>2 DEF HistoryType
<1>4. ASSUME NEW s \in Sites, OneHeard(s) PROVE HistoryType'
  <2>1. Z2lMsg[s] \in AllMessages
    BY <1>4, LineHeld DEF OneHeard, BackIsHeard, LineHolds, InSend
  <2>2. Post(Z2lMsg[s]) \in Posts
    BY <2>1 DEF AllMessages, Post, Posts
  <2>3. Append(heard[Other[s]], Post(Z2lMsg[s])) \in Seq(Posts)
    BY <2>2, ScriptFacts, AppendProperties
  <2> QED
    BY <1>1, <1>4, <2>3 DEF HistoryType, OneHeard
<1> QED
  BY <1>2, <1>3, <1>4, HistorySteps

-----------------------------------------------------------------------------
(* The two bridges implement Relay.                                        *)

\* At the start the lines are empty.
LEMMA RelayInit == Init => RelayInv /\ Promise!Init
<1> SUFFICES ASSUME Init PROVE RelayInv /\ Promise!Init
  OBVIOUS
<1>1. HistoryType /\ \A s \in Sites : posted[s] = <<>> /\ heard[Other[s]] = <<>>
  <2>1. <<>> \in Seq(Posts)
    BY EmptySeq
  <2>2. posted \in [Sites -> Seq(Posts)] /\ heard \in [Sites -> Seq(Posts)]
    <3>1. [A |-> <<>>, B |-> <<>>] = [s \in Sites |-> <<>>]
      BY DEF Sites
    <3>2. posted = [s \in Sites |-> <<>>] /\ heard = [s \in Sites |-> <<>>]
      BY <3>1 DEF Init
    <3> QED
      BY <2>1, <3>2
  <2> QED
    BY <2>2 DEF Init, HistoryType, Sites, Other
<1>2. ASSUME NEW s \in Sites
      PROVE  /\ LineOK(s) /\ Upto(Other[s]) = 0
  <2>1. Socket[s] = <<>> /\ Subscriber[s] = <<>> /\ L2zPc[s] = "recv" /\ Z2lPc[s] = "declare"
    BY DEF Init, SiteA!Init, SiteB!Init, Socket, Subscriber, L2zPc, Z2lPc, Sites
  <2>2. Waiting(s) = {} /\ ~ Held(s) /\ ~ InSend(s)
    BY <2>1 DEF Waiting, Held, InSend
  <2>3. Arrived(s) = {} /\ Arriving(s) = {} /\ Leaving(s) = {}
    BY <1>1, <2>1, <2>2 DEF Arrived, Arriving, Leaving
  <2>4. Upto(Other[s]) = 0
    <3>1. Other[Other[s]] = s
      BY DEF Sites, Other
    <3>2. Upto(Other[s]) = Max({0})
      BY <2>3, <3>1 DEF Upto
    <3>3. Max({0}) = 0
      BY MaxIs
    <3> QED
      BY <3>2, <3>3
  <2>5. HistoryOK(s)
    BY <1>1, <2>3, <2>4, ScriptFacts DEF HistoryOK, BodiesOf
  <2>6. FrontOK(s) /\ BackOK(s) /\ BackFirst(s)
    BY <2>1, <2>2, <2>3 DEF FrontOK, BackOK, BackFirst
  <2> QED
    BY <2>4, <2>5, <2>6 DEF LineOK
<1>3. RelayInv
  BY <1>1, <1>2, BridgesTimelyInit DEF RelayInv
<1>4. \A s \in Sites : Upto(s) = 0
  BY <1>2 DEF Sites, Other
<1>5. Promise!Init
  BY <1>4 DEF Init, Promise!Init, Sites
<1> QED
  BY <1>3, <1>5

\* A step keeps the invariant and is a step of Relay or a stutter.
LEMMA RelayNext ==
  ASSUME RelayInv, [Next /\ Timely']_vars
  PROVE  RelayInv' /\ [Promise!Next]_(Promise!rvars)
<1> SiteA!TypeOK /\ SiteB!TypeOK
  BY DEF RelayInv, SiteA!TimelyInv, SiteB!TimelyInv
<1>1. SiteA!TimelyInv' /\ SiteB!TimelyInv'
  BY BridgesTimely DEF RelayInv
<1>2. HistoryType' /\ script' = script
  BY HistoryTypeKept, Moves DEF RelayInv
<1>3. \A s \in Sites :
        LineOK(s)' /\ (Unheard(s) \/ (BackIsHeard(s) /\ HeardNext(s)))
  BY <1>2, LineTyped, LineStep, Moves DEF RelayInv
<1>4. RelayInv'
  BY <1>1, <1>2, <1>3 DEF RelayInv
<1>5. \A s \in Sites : Other[Other[s]] = s /\ Other[s] \in Sites /\ Other[s] # s
  BY DEF Sites, Other
<1>6. \A s \in Sites : Unheard(s) => Upto(Other[s])' = Upto(Other[s])
  BY <1>5 DEF Upto, Unheard
<1>7. \A s \in Sites : heard'[Other[s]] = heard[Other[s]] <=> ~ BackIsHeard(s)
  <2> SUFFICES ASSUME NEW s \in Sites, heard'[Other[s]] = heard[Other[s]], BackIsHeard(s)
               PROVE FALSE
    BY <1>3 DEF Unheard
  <2>1. PICK h \in Seq(Posts) : h = heard[Other[s]]
    BY ScriptFacts DEF RelayInv
  <2>2. h = Append(h, Post(Z2lMsg[s]))
    BY <2>1 DEF BackIsHeard
  <2>3. Len(h) \in Nat /\ Len(Append(h, Post(Z2lMsg[s]))) = Len(h) + 1
    BY LenProperties
  <2> QED
    BY <2>2, <2>3
<1>8. CASE heard' = heard
  <2>1. \A s \in Sites : Upto(s)' = Upto(s)
    BY <1>3, <1>5, <1>6, <1>7, <1>8
  <2>2. [s \in Sites |-> Upto(s)'] = [s \in Sites |-> Upto(s)]
    BY <2>1
  <2>3. CASE UNCHANGED posted
    BY <1>4, <1>8, <2>2, <2>3 DEF Promise!rvars
  <2>4. CASE \E s \in Sites : OnePosted(s)
    <3>1. PICK s \in Sites, p \in Posts : posted' = [posted EXCEPT ![s] = Append(@, p)]
      BY <2>4 DEF OnePosted
    <3>2. Promise!Post(s, p)
      BY <1>8, <2>2, <3>1 DEF Promise!Post
    <3> QED
      BY <1>4, <3>2 DEF Promise!Next
  <2>5. CASE \E s \in Sites : OneHeard(s)
    BY <2>3, <2>5 DEF OneHeard
  <2> QED
    BY <1>8, <2>3, <2>4, <2>5, HistorySteps DEF RelayInv
<1>9. ASSUME NEW s \in Sites, OneHeard(s) PROVE Promise!Next
  <2>1. PICK r \in Sites : r = Other[s] /\ Other[r] = s /\ r # s
    BY <1>5
  <2>2. PICK n : n = Nth(script[s], Z2lMsg[s])
    OBVIOUS
  <2>3. PICK p \in Posts : p = Post(Z2lMsg[s])
    BY <1>3, <1>5, <1>7, <1>9 DEF OneHeard, HeardNext, Unheard
  <2>4. /\ n \in DOMAIN posted[s] /\ n > Upto(r) /\ Upto(r)' = n
        /\ Promise!SameMessage(r, p, posted[s][n])
    BY <1>3, <1>7, <1>9, <2>1, <2>2, <2>3 DEF OneHeard, HeardNext, Unheard
  <2>5. heard' = [heard EXCEPT ![r] = Append(@, p)] /\ posted' = posted
    BY <1>9, <2>1, <2>3 DEF OneHeard
  <2>6. Upto(s)' = Upto(s)
    <3>1. heard'[s] = heard[s]
      BY <2>1, <2>5
    <3> QED
      BY <1>3, <1>6, <1>7, <2>1, <3>1
  <2>7. [x \in Sites |-> Upto(x)'] = [[x \in Sites |-> Upto(x)] EXCEPT ![r] = n]
    <3>1. \A x \in Sites : Upto(x)' = IF x = r THEN n ELSE Upto(x)
      BY <2>1, <2>4, <2>6 DEF Sites
    <3> QED
      BY <3>1
  <2>8. Promise!Hear(r, n, p)
    BY <2>1, <2>4, <2>5, <2>7 DEF Promise!Hear
  <2>9. n \in DOMAIN posted[Other[r]]
    BY <2>1, <2>4
  <2> QED
    BY <2>8, <2>9 DEF Promise!Next
<1> QED
  BY <1>4, <1>8, <1>9, HistorySteps DEF RelayInv, OnePosted

WhileTimely == timely => RelayInv

\* As long as the circumstances last, a step is one of Relay or a stutter.
LEMMA WatchedRelay ==
  ASSUME WhileTimely, [WatchedNext]_watched_vars, timely'
  PROVE  RelayInv' /\ [Promise!Next]_(Promise!rvars)
<1>1. timely /\ [Next /\ Timely']_vars
  <2>1. CASE WatchedNext
    BY <2>1 DEF WatchedNext
  <2>2. CASE UNCHANGED watched_vars
    BY <2>2 DEF watched_vars
  <2> QED
    BY <2>1, <2>2
<1> QED
  BY <1>1, RelayNext DEF WhileTimely

\* The invariant of this module, in every reachable state of these circumstances.
LEMMA RelayInvariant == Spec => []WhileTimely
<1>1. WatchedInit => WhileTimely
  BY RelayInit DEF WatchedInit, WhileTimely
<1>2. WhileTimely /\ [WatchedNext]_watched_vars => WhileTimely'
  BY WatchedRelay DEF WhileTimely
<1> QED
  BY <1>1, <1>2, PTL DEF Spec

\* As long as both bridges are in the circumstances their loop prevention relies on,
\* they implement Relay: a site hears only what was posted at the other one, on the
\* channel that has the same key, in the order it was posted in, each message at most
\* once, and nothing that a filter of either site stops (README.md:34-48;
\* lcm_to_zenoh.rs:43-99, zenoh_to_lcm.rs:74-113).
THEOREM RelayImplemented == Spec => ImplementsRelay
<1>1. WatchedInit => Promise!Init
  BY RelayInit DEF WatchedInit
<1>2. WhileTimely /\ [WatchedNext]_watched_vars => [timely' => Promise!Next]_(Promise!rvars)
  BY WatchedRelay
<1> QED
  BY <1>1, <1>2, RelayInvariant, PTL DEF Spec, ImplementsRelay, Promise!Spec

-----------------------------------------------------------------------------
(* In all circumstances: the types of the two bridges.                     *)

\* Types mean the same in the instances of Bridge and of BridgeProofs.
LEMMA SameTypes ==
  /\ SiteA!TypeOK <=> ProofsA!TypeOK
  /\ (SiteA!TypeOK <=> ProofsA!TypeOK)'
  /\ SiteB!TypeOK <=> ProofsB!TypeOK
  /\ (SiteB!TypeOK <=> ProofsB!TypeOK)'
BY DEF SiteA!TypeOK, ProofsA!TypeOK, SiteA!SeqNumbers, ProofsA!SeqNumbers,
    SiteA!Messages, ProofsA!Messages, SiteA!Samples, ProofsA!Samples,
    SiteB!TypeOK, ProofsB!TypeOK, SiteB!SeqNumbers, ProofsB!SeqNumbers,
    SiteB!Messages, ProofsB!Messages, SiteB!Samples, ProofsB!Samples

\* Every step keeps them.
LEMMA BridgesTyped ==
  ASSUME SiteA!TypeOK, SiteB!TypeOK, [Next]_vars
  PROVE  SiteA!TypeOK' /\ SiteB!TypeOK'
<1>1. [ProofsA!Next]_(ProofsA!vars)
  BY StepsA, SameNextA DEF a_vars, ProofsA!vars, ProofsA!z2l_vars, ProofsA!l2z_vars
<1>2. [ProofsB!Next]_(ProofsB!vars)
  BY StepsB, SameNextB DEF b_vars, ProofsB!vars, ProofsB!z2l_vars, ProofsB!l2z_vars
<1>3. ProofsA!TypeOK'
  BY <1>1, SameTypes, AssumptionsA, ProofsA!NextType
<1>4. ProofsB!TypeOK'
  BY <1>2, SameTypes, AssumptionsB, ProofsB!NextType
<1> QED
  BY <1>3, <1>4, SameTypes

\* They hold at the start.
LEMMA BridgesTypedInit == Init => SiteA!TypeOK /\ SiteB!TypeOK
<1>1. Init => ProofsA!Init /\ ProofsB!Init
  BY DEF Init, SiteA!Init, ProofsA!Init, SiteB!Init, ProofsB!Init
<1> QED
  BY <1>1, SameTypes, AssumptionsA, AssumptionsB, ProofsA!InitType, ProofsB!InitType

-----------------------------------------------------------------------------
(* What has been posted and heard stays, and so does what follows from it. *)

Grows(q, r) == Len(q) <= Len(r) /\ \A i \in 1 .. Len(q) : r[i] = q[i]

\* A message more, or none: a history only grows.
LEMMA GrowsAppend ==
  ASSUME NEW S, NEW q \in Seq(S), NEW e \in S
  PROVE  Grows(q, q) /\ Grows(q, Append(q, e))
<1>1. Len(q) \in Nat
  BY LenProperties
<1>2. /\ Len(Append(q, e)) = Len(q) + 1
      /\ \A i \in 1 .. Len(q) : Append(q, e)[i] = q[i]
  BY AppendProperties
<1> QED
  BY <1>1, <1>2 DEF Grows

\* No step takes back what was posted or heard.
LEMMA HistoryGrows ==
  ASSUME HistoryType, SiteA!TypeOK, SiteB!TypeOK, [Next]_vars, NEW s \in Sites
  PROVE  Grows(posted[s], posted'[s]) /\ Grows(heard[s], heard'[s])
<1>1. posted[s] \in Seq(Posts) /\ heard[s] \in Seq(Posts)
  BY DEF HistoryType
<1>2. Grows(posted[s], posted[s]) /\ Grows(heard[s], heard[s])
  <2>1. ASSUME NEW q \in Seq(Posts) PROVE Grows(q, q)
    BY LenProperties DEF Grows
  <2> QED
    BY <1>1, <2>1
<1>3. CASE UNCHANGED <<posted, heard>>
  BY <1>2, <1>3
<1>4. ASSUME NEW r \in Sites, OnePosted(r) PROVE Grows(posted[s], posted'[s]) /\ heard' = heard
  <2>1. PICK p \in Posts : posted' = [posted EXCEPT ![r] = Append(@, p)] /\ heard' = heard
    BY <1>4 DEF OnePosted
  <2>2. posted'[s] = posted[s] \/ posted'[s] = Append(posted[s], p)
    BY <2>1 DEF HistoryType
  <2> QED
    BY <1>1, <1>2, <2>1, <2>2, GrowsAppend
<1>5. ASSUME NEW r \in Sites, OneHeard(r) PROVE Grows(heard[s], heard'[s]) /\ posted' = posted
  <2>1. PICK p : p = Post(Z2lMsg[r])
    OBVIOUS
  <2>2. p \in Posts
    BY <1>5, <2>1, LineHeld
    DEF OneHeard, BackIsHeard, LineHolds, InSend, AllMessages, Post, Posts
  <2>3. heard' = [heard EXCEPT ![Other[r]] = Append(@, p)] /\ posted' = posted
    BY <1>5, <2>1 DEF OneHeard
  <2>4. heard'[s] = heard[s] \/ heard'[s] = Append(heard[s], p)
    BY <2>3 DEF HistoryType
  <2> QED
    BY <1>1, <1>2, <2>2, <2>3, <2>4, GrowsAppend
<1> QED
  BY <1>2, <1>3, <1>4, <1>5, HistorySteps

\* The bodies of a history stay when it grows.
LEMMA BodiesGrow ==
  ASSUME NEW q \in Seq(Posts), NEW r \in Seq(Posts), Grows(q, r)
  PROVE  /\ DOMAIN q \subseteq DOMAIN r /\ BodiesOf(q) \subseteq BodiesOf(r)
         /\ \A i \in DOMAIN q : r[i] = q[i]
<1>1. /\ DOMAIN q = 1 .. Len(q) /\ DOMAIN r = 1 .. Len(r)
      /\ Len(q) \in Nat /\ Len(r) \in Nat
  BY LenProperties
<1>2. DOMAIN q \subseteq DOMAIN r /\ \A i \in DOMAIN q : r[i] = q[i]
  BY <1>1 DEF Grows
<1> QED
  BY <1>2 DEF BodiesOf

\* A message that was multicast stays one, and what is carried over too.
LEMMA OriginsKept ==
  ASSUME HistoryType, SiteA!TypeOK, SiteB!TypeOK, [Next]_vars, NEW s \in Sites
  PROVE  /\ \A m : OnAir(s, m) => OnAir(s, m)'
         /\ \A channel, body : CarriedOver(s, channel, body) => CarriedOver(s, channel, body)'
<1>1. \A t \in Sites :
        /\ posted[t] \in Seq(Posts) /\ posted'[t] \in Seq(Posts)
        /\ heard[t] \in Seq(Posts) /\ heard'[t] \in Seq(Posts)
        /\ Grows(posted[t], posted'[t]) /\ Grows(heard[t], heard'[t])
  BY HistoryTypeKept, HistoryGrows DEF HistoryType
<1>2. \A t \in Sites :
        /\ DOMAIN posted[t] \subseteq DOMAIN posted'[t]
        /\ \A i \in DOMAIN posted[t] : posted'[t][i] = posted[t][i]
        /\ DOMAIN heard[t] \subseteq DOMAIN heard'[t]
        /\ \A i \in DOMAIN heard[t] : heard'[t][i] = heard[t][i]
        /\ BodiesOf(heard[t]) \subseteq BodiesOf(heard'[t])
  BY ONLY <1>1, BodiesGrow
<1>3. \A m : OnAir(s, m) => OnAir(s, m)'
  BY <1>2 DEF OnAir, IsPost
<1>4. ASSUME NEW channel, NEW body, CarriedOver(s, channel, body)
      PROVE  CarriedOver(s, channel, body)'
  <2>1. PICK t \in Sites : \E i \in DOMAIN posted[t] :
          /\ posted[t][i].body = body
          /\ Prefix[s] \o channel = Prefix[t] \o posted[t][i].chan
          /\ posted[t][i].chan \in Permitted[t]
          /\ t = s => body \in BodiesOf(heard[Other[s]])
    BY <1>4 DEF CarriedOver
  <2>2. PICK i \in DOMAIN posted[t] :
          /\ posted[t][i].body = body
          /\ Prefix[s] \o channel = Prefix[t] \o posted[t][i].chan
          /\ posted[t][i].chan \in Permitted[t]
          /\ t = s => body \in BodiesOf(heard[Other[s]])
    BY <2>1
  <2>3. i \in DOMAIN posted'[t] /\ posted'[t][i] = posted[t][i]
    BY <1>2
  <2>4. Other[s] \in Sites
    BY DEF Other, Sites
  <2>5. t = s => body \in BodiesOf(heard'[Other[s]])
    BY <1>2, <2>2, <2>4
  <2>6. BodiesOf(heard[Other[s]])' = BodiesOf(heard'[Other[s]])
    BY DEF BodiesOf
  <2> QED
    BY <2>2, <2>3, <2>5, <2>6 DEF CarriedOver
<1> QED
  BY <1>3, <1>4

-----------------------------------------------------------------------------
(* All that a line holds comes from what was multicast at its site.        *)

\* A queue, with an element more and without its first one.
LEMMA QueueFacts ==
  ASSUME NEW S, NEW q \in Seq(S)
  PROVE  /\ Len(q) \in Nat /\ DOMAIN q = 1 .. Len(q)
         /\ \A e \in S :
              /\ Append(q, e) \in Seq(S) /\ Len(Append(q, e)) = Len(q) + 1
              /\ \A i \in 1 .. Len(q) + 1 :
                   Append(q, e)[i] = IF i = Len(q) + 1 THEN e ELSE q[i]
         /\ q # <<>> =>
              /\ 1 \in 1 .. Len(q) /\ Head(q) = q[1] /\ Head(q) \in S
              /\ Tail(q) \in Seq(S) /\ Len(Tail(q)) = Len(q) - 1
              /\ \A i \in 1 .. Len(q) - 1 : i + 1 \in 1 .. Len(q) /\ Tail(q)[i] = q[i + 1]
<1>1. Len(q) \in Nat /\ DOMAIN q = 1 .. Len(q)
  BY LenProperties
<1>2. ASSUME NEW e \in S
      PROVE  /\ Append(q, e) \in Seq(S) /\ Len(Append(q, e)) = Len(q) + 1
             /\ \A i \in 1 .. Len(q) + 1 :
                  Append(q, e)[i] = IF i = Len(q) + 1 THEN e ELSE q[i]
  BY <1>1, AppendProperties
<1>3. ASSUME q # <<>>
      PROVE  /\ 1 \in 1 .. Len(q) /\ Head(q) = q[1] /\ Head(q) \in S
             /\ Tail(q) \in Seq(S) /\ Len(Tail(q)) = Len(q) - 1
             /\ \A i \in 1 .. Len(q) - 1 : i + 1 \in 1 .. Len(q) /\ Tail(q)[i] = q[i + 1]
  <2>1. Tail(q) \in Seq(S) /\ Len(Tail(q)) = Len(q) - 1
    BY <1>3, HeadTailProperties
  <2>2. Head(q) \in S /\ Head(q) = q[1]
    BY <1>3, HeadTailProperties
  <2>3. \A i \in 1 .. Len(q) - 1 : Tail(q)[i] = q[i + 1]
    BY <1>3, <2>1
  <2>4. 1 \in 1 .. Len(q)
    BY <1>1, <1>3, EmptySeq
  <2> QED
    BY <1>1, <2>1, <2>2, <2>3, <2>4
<1> QED
  BY <1>1, <1>2, <1>3

\* What the bridge of s receives, holds and puts was multicast at s.
FrontOrigins(s) ==
  /\ \A i \in DOMAIN Socket[s] : OnAir(s, Socket[s][i])
  /\ Relaying(s) => OnAir(s, L2zMsg[s])
  /\ L2zPc[s] = "publish" =>
       L2zMsg[s].chan \in Permitted[s] \ UnmappableUnder(Prefix[s])

\* A message that is multicast enters the socket; the task takes it from there.
LEMMA FrontOriginsKept ==
  ASSUME NEW s \in Sites, HistoryType, LineHolds(s), LineMoves(s),
         \A m : OnAir(s, m) => OnAir(s, m)', FrontOrigins(s), heard[s] \in Seq(Posts)
  PROVE  FrontOrigins(s)'
<1>1. /\ Len(Socket[s]) \in Nat /\ DOMAIN Socket[s] = 1 .. Len(Socket[s])
      /\ Socket[s] \in Seq(AllMessages)
  BY QueueFacts DEF LineHolds
<1>2. Permitted[s]' = Permitted[s] /\ UnmappableUnder(Prefix[s])' = UnmappableUnder(Prefix[s])
  BY DEF Permitted, UnmappableUnder
<1>3. CASE FrontSame(s)
  BY <1>2, <1>3 DEF FrontSame, FrontOrigins, Relaying
<1>4. ASSUME NEW m \in AllMessages, OnAir(s, m)', Socket'[s] = Append(Socket[s], m),
             L2zPc'[s] = L2zPc[s], L2zMsg'[s] = L2zMsg[s]
      PROVE  FrontOrigins(s)'
  <2>1. \A i \in DOMAIN Socket'[s] :
          Socket'[s][i] = m \/ (i \in DOMAIN Socket[s] /\ Socket'[s][i] = Socket[s][i])
    <3>1. DOMAIN Socket'[s] = 1 .. Len(Socket[s]) + 1
      BY <1>1, <1>4, QueueFacts
    <3>2. \A i \in 1 .. Len(Socket[s]) + 1 :
            Socket'[s][i] = IF i = Len(Socket[s]) + 1 THEN m ELSE Socket[s][i]
      BY <1>1, <1>4, QueueFacts
    <3> QED
      BY <1>1, <3>1, <3>2
  <2>2. \A i \in DOMAIN Socket'[s] : OnAir(s, Socket[s][i])'
    BY <1>4, <2>1 DEF FrontOrigins
  <2> QED
    BY <1>2, <1>4, <2>2 DEF FrontOrigins, Relaying
<1>5. CASE FrontPosts(s)
  <2>1. PICK m \in AllMessages :
          Socket'[s] = Append(Socket[s], m) /\ posted'[s] = Append(posted[s], Post(m))
    BY <1>5 DEF FrontPosts
  <2>2. Post(m) \in Posts /\ posted[s] \in Seq(Posts)
    BY DEF AllMessages, Post, Posts, HistoryType
  <2>3. Len(posted[s]) + 1 \in DOMAIN posted'[s] /\ posted'[s][Len(posted[s]) + 1] = Post(m)
    BY <2>1, <2>2, AppendProperties, LenProperties
  <2>4. OnAir(s, m)'
    BY <2>3 DEF OnAir, IsPost
  <2> QED
    BY <1>4, <1>5, <2>1, <2>4 DEF FrontPosts
<1>6. CASE FrontLoopsBack(s)
  <2>1. PICK m \in AllMessages :
          Socket'[s] = Append(Socket[s], m) /\ heard'[s] = Append(heard[s], Post(m))
    BY <1>6 DEF FrontLoopsBack
  <2>2. Post(m) \in Posts
    BY DEF AllMessages, Post, Posts
  <2>3. Len(heard[s]) + 1 \in DOMAIN heard'[s] /\ heard'[s][Len(heard[s]) + 1] = Post(m)
    BY <2>1, <2>2, AppendProperties, LenProperties
  <2>4. OnAir(s, m)'
    BY <2>3 DEF OnAir
  <2> QED
    BY <1>4, <1>6, <2>1, <2>4 DEF FrontLoopsBack
<1>7. CASE FrontReceives(s)
  <2>1. /\ \A i \in DOMAIN Socket'[s] :
             i + 1 \in DOMAIN Socket[s] /\ Socket'[s][i] = Socket[s][i + 1]
        /\ 1 \in DOMAIN Socket[s] /\ L2zMsg'[s] = Socket[s][1]
    <3>1. Socket[s] # <<>> /\ Socket'[s] = Tail(Socket[s]) /\ L2zMsg'[s] = Head(Socket[s])
      BY <1>7 DEF FrontReceives
    <3>2. DOMAIN Socket'[s] = 1 .. Len(Socket[s]) - 1
      BY <1>1, <3>1, QueueFacts
    <3> QED
      BY <1>1, <3>1, <3>2, QueueFacts
  <2>2. \A i \in DOMAIN Socket'[s] : OnAir(s, Socket[s][i])'
    BY <2>1 DEF FrontOrigins
  <2>3. OnAir(s, L2zMsg[s])'
    BY <2>1 DEF FrontOrigins
  <2> QED
    BY <1>7, <2>2, <2>3 DEF FrontOrigins, FrontReceives
<1>8. CASE FrontPasses(s)
  BY <1>2, <1>8 DEF FrontPasses, FrontOrigins, Relaying
<1>9. CASE FrontLetsGo(s)
  BY <1>9 DEF FrontLetsGo, FrontOrigins, Relaying
<1>10. CASE Published(s)
  BY <1>10 DEF Published, FrontOrigins, Relaying
<1> QED
  BY <1>3, <1>5, <1>6, <1>7, <1>8, <1>9, <1>10 DEF LineMoves, FrontMoves

\* What the other bridge receives and sends is carried over from s.
BackOrigins(s) ==
  /\ \A i \in DOMAIN Subscriber[s] :
       Subscriber[s][i].key # NoChannel =>
         CarriedOver(Other[s], Subscriber[s][i].key, Subscriber[s][i].body)
  /\ InSend(s) =>
       /\ Z2lMsg[s].chan \in Permitted[Other[s]]
       /\ CarriedOver(Other[s], Z2lMsg[s].chan, Z2lMsg[s].body)

\* A put carries over what was multicast: a post of s, or what the bridge of s has
\* carried there, which then comes from the other site and is heard at s.
LEMMA PutCarriesOver ==
  ASSUME NEW s \in Sites, HeardWasPosted, NEW m \in AllMessages, OnAir(s, m),
         m.chan \in Permitted[s] \ UnmappableUnder(Prefix[s]),
         NEW channel, channel # NoChannel,
         channel = key_expr_to_lcm_channel(lcm_channel_to_key_expr(m.chan, Prefix[s]),
                                           Prefix[Other[s]])
  PROVE  CarriedOver(Other[s], channel, m.body)
<1>1. Other[Other[s]] = s /\ Other[s] # s
  BY DEF Sites, Other
<1>2. Prefix[Other[s]] \o channel = Prefix[s] \o m.chan
  BY SameKey DEF AllMessages
<1>3. CASE IsPost(s, m)
  <2>1. PICK i \in DOMAIN posted[s] : posted[s][i] = Post(m)
    BY <1>3 DEF IsPost
  <2>2. posted[s][i].chan = m.chan /\ posted[s][i].body = m.body
    BY <2>1 DEF Post
  <2> QED
    BY <1>1, <1>2, <2>2 DEF CarriedOver
<1>4. CASE \E k \in DOMAIN heard[s] : heard[s][k] = Post(m)
  <2>1. PICK k \in DOMAIN heard[s] : heard[s][k] = Post(m)
    BY <1>4
  <2>2. heard[s][k].chan = m.chan /\ heard[s][k].body = m.body
    BY <2>1 DEF Post
  <2>3. CarriedOver(s, m.chan, m.body)
    BY <2>2 DEF HeardWasPosted
  <2>4. PICK t \in Sites : \E i \in DOMAIN posted[t] :
          /\ posted[t][i].body = m.body
          /\ Prefix[s] \o m.chan = Prefix[t] \o posted[t][i].chan
          /\ posted[t][i].chan \in Permitted[t]
    BY <2>3 DEF CarriedOver
  <2>5. PICK i \in DOMAIN posted[t] :
          /\ posted[t][i].body = m.body
          /\ Prefix[s] \o m.chan = Prefix[t] \o posted[t][i].chan
          /\ posted[t][i].chan \in Permitted[t]
    BY <2>4
  <2>6. m.body \in BodiesOf(heard[s])
    BY <2>2 DEF BodiesOf
  <2> QED
    BY <1>1, <1>2, <2>5, <2>6 DEF CarriedOver
<1> QED
  BY <1>3, <1>4 DEF OnAir

\* What a put brings is what the task takes, and sends if its site lets it through.
LEMMA BackOriginsKept ==
  ASSUME NEW s \in Sites, HeardWasPosted, LineHolds(s), LineMoves(s),
         \A channel, body :
           CarriedOver(Other[s], channel, body) => CarriedOver(Other[s], channel, body)',
         FrontOrigins(s), BackOrigins(s)
  PROVE  BackOrigins(s)'
<1>1. /\ Len(Subscriber[s]) \in Nat /\ DOMAIN Subscriber[s] = 1 .. Len(Subscriber[s])
      /\ Subscriber[s] \in Seq(AllSamples)
  BY QueueFacts DEF LineHolds
<1>2. Permitted' = Permitted
  BY DEF Permitted
<1>3. CASE BackSame(s)
  BY <1>2, <1>3 DEF BackSame, BackOrigins, InSend
<1>4. CASE BackSkips(s) \/ BackTakes(s)
  <2>1. /\ \A i \in DOMAIN Subscriber'[s] :
             i + 1 \in DOMAIN Subscriber[s] /\ Subscriber'[s][i] = Subscriber[s][i + 1]
        /\ 1 \in DOMAIN Subscriber[s] /\ Head(Subscriber[s]) = Subscriber[s][1]
    <3>1. Subscriber[s] # <<>> /\ Subscriber'[s] = Tail(Subscriber[s])
      BY <1>4 DEF BackSkips, BackTakes
    <3>2. DOMAIN Subscriber'[s] = 1 .. Len(Subscriber[s]) - 1
      BY <1>1, <3>1, QueueFacts
    <3> QED
      BY <1>1, <3>1, <3>2, QueueFacts
  <2>2. (\A i \in DOMAIN Subscriber[s] :
          Subscriber[s][i].key # NoChannel =>
            CarriedOver(Other[s], Subscriber[s][i].key, Subscriber[s][i].body))'
    BY <2>1 DEF BackOrigins
  <2>3. CASE BackSkips(s)
    BY <1>2, <2>2, <2>3 DEF BackSkips, BackOrigins, InSend
  <2>4. CASE BackTakes(s)
    <3>1. PICK e : e = Subscriber[s][1]
      OBVIOUS
    <3>2. /\ e.key \in Permitted[Other[s]]
          /\ Z2lMsg'[s].chan = e.key /\ Z2lMsg'[s].body = e.body
      BY <2>1, <2>4, <3>1 DEF BackTakes
    <3>3. e.key # NoChannel
      BY <3>2, BridgesAssumption DEF Permitted, Sites, Other
    <3>4. CarriedOver(Other[s], e.key, e.body)'
      BY <2>1, <3>1, <3>3 DEF BackOrigins
    <3>5. CarriedOver(Other[s], Z2lMsg[s].chan, Z2lMsg[s].body)'
      BY <3>2, <3>4
    <3> QED
      BY <1>2, <2>2, <3>2, <3>5 DEF BackOrigins
  <2> QED
    BY <1>4, <2>3, <2>4
<1>5. CASE BackIsHeard(s) \/ BackLetsGo(s)
  BY <1>5 DEF BackIsHeard, BackLetsGo, BackOrigins, InSend
<1>6. CASE Published(s)
  <2>1. PICK m \in AllMessages : m = L2zMsg[s] /\ OnAir(s, m)
    BY <1>6 DEF Published, LineHolds, Relaying, FrontOrigins
  <2>2. m.chan \in Permitted[s] \ UnmappableUnder(Prefix[s])
    BY <1>6, <2>1 DEF Published, FrontOrigins
  <2>3. PICK e \in AllSamples :
          /\ e = Sample(m, Prefix[s], Prefix[Other[s]])
          /\ Subscriber'[s] = Append(Subscriber[s], e)
    BY <1>6, <2>1 DEF Published
  <2>4. /\ e.body = m.body
        /\ e.key = key_expr_to_lcm_channel(lcm_channel_to_key_expr(m.chan, Prefix[s]),
                                           Prefix[Other[s]])
    BY <2>3 DEF Sample
  <2>5. e.key # NoChannel => CarriedOver(Other[s], e.key, e.body)
    BY <2>1, <2>2, <2>4, PutCarriesOver
  <2>6. \A i \in DOMAIN Subscriber'[s] :
          \/ Subscriber'[s][i] = e
          \/ i \in DOMAIN Subscriber[s] /\ Subscriber'[s][i] = Subscriber[s][i]
    <3>1. DOMAIN Subscriber'[s] = 1 .. Len(Subscriber[s]) + 1
      BY <1>1, <2>3, QueueFacts
    <3>2. \A i \in 1 .. Len(Subscriber[s]) + 1 :
            Subscriber'[s][i] = IF i = Len(Subscriber[s]) + 1 THEN e ELSE Subscriber[s][i]
      BY <1>1, <2>3, QueueFacts
    <3> QED
      BY <1>1, <3>1, <3>2
  <2>7. (\A i \in DOMAIN Subscriber[s] :
          Subscriber[s][i].key # NoChannel =>
            CarriedOver(Other[s], Subscriber[s][i].key, Subscriber[s][i].body))'
    BY <2>5, <2>6 DEF BackOrigins
  <2> QED
    BY <1>2, <1>6, <2>7 DEF Published, BackOrigins, InSend
<1> QED
  BY <1>3, <1>4, <1>5, <1>6 DEF LineMoves, BackMoves

\* What a site hears next was carried over to it.
LEMMA HeardKept ==
  ASSUME HistoryType, SiteA!TypeOK, SiteB!TypeOK, [Next]_vars, HeardWasPosted,
         \A s \in Sites : BackOrigins(s)
  PROVE  HeardWasPosted'
<1> SUFFICES ASSUME NEW s \in Sites, NEW i \in DOMAIN heard'[s]
             PROVE  /\ heard'[s][i].chan \in Permitted[s]
                    /\ CarriedOver(s, heard[s][i].chan, heard[s][i].body)'
  BY DEF HeardWasPosted, Permitted
<1>1. PICK r \in Sites : Other[r] = s
  BY DEF Sites, Other
<1>2. \A channel, body : CarriedOver(s, channel, body) => CarriedOver(s, channel, body)'
  BY OriginsKept
<1>3. heard[s] \in Seq(Posts)
  BY DEF HistoryType
<1>4. CASE heard'[s] = heard[s]
  BY <1>2, <1>4 DEF HeardWasPosted
<1>5. CASE BackIsHeard(r)
  <2>1. PICK m \in AllMessages : m = Z2lMsg[r]
    BY <1>5, LineHeld DEF BackIsHeard, LineHolds, InSend
  <2>2. Post(m) \in Posts /\ Post(m).chan = m.chan /\ Post(m).body = m.body
    BY DEF AllMessages, Post, Posts
  <2>3. m.chan \in Permitted[s] /\ CarriedOver(s, m.chan, m.body)
    BY <1>1, <1>5, <2>1 DEF BackIsHeard, BackOrigins, InSend
  <2>4. heard'[s][i] = Post(m) \/ (i \in DOMAIN heard[s] /\ heard'[s][i] = heard[s][i])
    <3>1. heard'[s] = Append(heard[s], Post(m))
      BY <1>1, <1>5, <2>1 DEF BackIsHeard
    <3>2. DOMAIN heard'[s] = 1 .. Len(heard[s]) + 1
      BY <1>3, <2>2, <3>1, QueueFacts
    <3> QED
      BY <1>3, <2>2, <3>1, <3>2, QueueFacts
  <2>5. CASE heard'[s][i] = Post(m)
    BY <1>2, <2>2, <2>3, <2>5
  <2>6. CASE i \in DOMAIN heard[s] /\ heard'[s][i] = heard[s][i]
    BY <1>2, <2>6 DEF HeardWasPosted
  <2> QED
    BY <2>4, <2>5, <2>6
<1> QED
  BY <1>1, <1>4, <1>5, Moves
  DEF LineMoves, BackSame, BackMoves, BackSkips, BackTakes, BackLetsGo, Published

-----------------------------------------------------------------------------
(* How many copies of a message a queue holds.                             *)

PlacesOf(queue, body) == {i \in DOMAIN queue : queue[i].body = body}

\* They are finitely many.
LEMMA CopiesType ==
  ASSUME NEW S, NEW q \in Seq(S), NEW d
  PROVE  IsFiniteSet(PlacesOf(q, d)) /\ Copies(q, d) \in Nat
<1>1. Len(q) \in Nat /\ DOMAIN q = 1 .. Len(q)
  BY LenProperties
<1>2. IsFiniteSet(1 .. Len(q))
  BY <1>1, FS_Interval
<1>3. IsFiniteSet(PlacesOf(q, d))
  BY <1>1, <1>2, FS_Subset DEF PlacesOf
<1> QED
  BY <1>3, FS_CardinalityType DEF Copies, PlacesOf

\* A message that enters a queue is a copy more of its body.
LEMMA CopiesAppend ==
  ASSUME NEW S, NEW q \in Seq(S), NEW e \in S, NEW d
  PROVE  Copies(Append(q, e), d) = Copies(q, d) + (IF e.body = d THEN 1 ELSE 0)
<1>1. PICK r : r = Append(q, e)
  OBVIOUS
<1>2. PICK n \in Nat : n = Len(q)
  BY LenProperties
<1>3. /\ DOMAIN q = 1 .. n /\ DOMAIN r = 1 .. n + 1
      /\ \A i \in 1 .. n + 1 : r[i] = IF i = n + 1 THEN e ELSE q[i]
  <2>1. r \in Seq(S) /\ Len(r) = n + 1
    BY <1>1, <1>2, QueueFacts
  <2> QED
    BY <1>1, <1>2, <2>1, QueueFacts
<1>4. \A i \in 1 .. n : i \in 1 .. n + 1 /\ r[i] = q[i]
  BY <1>3
<1>5. n + 1 \notin PlacesOf(q, d) /\ n + 1 \in 1 .. n + 1 /\ r[n + 1] = e
  BY <1>3 DEF PlacesOf
<1>6. CASE e.body = d
  <2>1. PlacesOf(r, d) = PlacesOf(q, d) \cup {n + 1}
    BY <1>3, <1>4, <1>5, <1>6 DEF PlacesOf
  <2>2. Cardinality(PlacesOf(r, d)) = Cardinality(PlacesOf(q, d)) + 1
    BY <1>5, <2>1, CopiesType, FS_AddElement
  <2> QED
    BY <1>1, <1>6, <2>2 DEF Copies, PlacesOf
<1>7. CASE e.body # d
  <2>1. PlacesOf(r, d) = PlacesOf(q, d)
    BY <1>3, <1>4, <1>5, <1>7 DEF PlacesOf
  <2>2. Copies(r, d) = Copies(q, d)
    BY <2>1 DEF Copies, PlacesOf
  <2> QED
    BY <1>1, <1>7, <2>2, CopiesType
<1> QED
  BY <1>6, <1>7

\* A message taken off the head is a copy less.
LEMMA CopiesTail ==
  ASSUME NEW S, NEW q \in Seq(S), q # <<>>, NEW d
  PROVE  Copies(q, d) = Copies(Tail(q), d) + (IF Head(q).body = d THEN 1 ELSE 0)
<1>1. PICK r : r = Tail(q)
  OBVIOUS
<1>2. PICK n \in Nat : n = Len(q)
  BY LenProperties
<1>3. /\ r \in Seq(S) /\ DOMAIN q = 1 .. n /\ DOMAIN r = 1 .. n - 1
      /\ 1 \in 1 .. n /\ Head(q) = q[1]
      /\ \A i \in 1 .. n - 1 : i + 1 \in 1 .. n /\ r[i] = q[i + 1]
  <2>1. r \in Seq(S) /\ Len(r) = n - 1
    BY <1>1, <1>2, QueueFacts
  <2> QED
    BY <1>1, <1>2, <2>1, QueueFacts
<1> DEFINE places == PlacesOf(r, d)
           moved == PlacesOf(q, d) \ {1}
           shift == [i \in places |-> i + 1]
<1>4. Cardinality(moved) = Cardinality(places)
  <2>1. shift \in [places -> moved]
    BY <1>3 DEF PlacesOf
  <2>2. \A a, b \in places : shift[a] = shift[b] => a = b
    BY <1>3 DEF PlacesOf
  <2>3. \A t \in moved : \E a \in places : shift[a] = t
    <3> SUFFICES ASSUME NEW t \in moved PROVE t - 1 \in places /\ shift[t - 1] = t
      OBVIOUS
    <3>1. t \in 2 .. n /\ q[t].body = d
      BY <1>3 DEF PlacesOf
    <3>2. t - 1 \in 1 .. n - 1 /\ r[t - 1] = q[t]
      BY <1>3, <3>1
    <3>3. t - 1 \in places
      BY <1>3, <3>1, <3>2 DEF PlacesOf
    <3> QED
      BY <3>1, <3>3
  <2>4. shift \in Bijection(places, moved)
    BY <2>1, <2>2, <2>3, Fun_IsBij
  <2>5. ExistsBijection(places, moved)
    BY <2>4, Fun_ExistsBij
  <2> QED
    BY <1>3, <2>5, CopiesType, FS_Bijection
<1> HIDE DEF moved, places, shift
<1>5. /\ Cardinality(moved) = IF 1 \in PlacesOf(q, d) THEN Copies(q, d) - 1 ELSE Copies(q, d)
      /\ Copies(q, d) \in Nat
  <2>1. IsFiniteSet(PlacesOf(q, d)) /\ Copies(q, d) \in Nat
    BY CopiesType
  <2>2. Copies(q, d) = Cardinality(PlacesOf(q, d))
    BY DEF Copies, PlacesOf
  <2> QED
    BY <2>1, <2>2, FS_RemoveElement DEF moved
<1>6. 1 \in PlacesOf(q, d) <=> Head(q).body = d
  BY <1>3 DEF PlacesOf
<1>7. Copies(r, d) = Cardinality(places)
  BY DEF Copies, PlacesOf, places
<1> QED
  BY <1>1, <1>4, <1>5, <1>6, <1>7

-----------------------------------------------------------------------------
(* No line holds more copies than were multicast at its site.              *)

Sources(s, d) == Copies(posted[s], d) + Copies(heard[s], d)
InFront(s, d) ==
  Copies(Socket[s], d) + (IF Relaying(s) /\ L2zMsg[s].body = d THEN 1 ELSE 0)
Behind(s, d) ==
  Copies(heard[Other[s]], d) + Copies(Subscriber[s], d)
    + (IF InSend(s) /\ Z2lMsg[s].body = d THEN 1 ELSE 0)

CountsOK(s, d) ==
  /\ Copies(posted[s], d) \in Nat /\ Copies(heard[s], d) \in Nat
  /\ Copies(heard[Other[s]], d) \in Nat
  /\ Copies(Socket[s], d) \in Nat /\ Copies(Subscriber[s], d) \in Nat
  /\ Sources(s, d) \in Nat /\ InFront(s, d) \in Nat /\ Behind(s, d) \in Nat
  /\ InFront(s, d) + Behind(s, d) =
       Copies(heard[Other[s]], d)
         + Copies(Socket[s], d) + Copies(Subscriber[s], d) + HeldCopies(s, d)

\* The terms of CopiesOK, in two halves.
LEMMA CopiesTerms ==
  ASSUME HistoryType, NEW s \in Sites, LineHolds(s), NEW d
  PROVE  CountsOK(s, d)
<1>1. /\ posted[s] \in Seq(Posts) /\ heard[s] \in Seq(Posts)
      /\ heard[Other[s]] \in Seq(Posts)
  BY DEF HistoryType, Sites, Other
<1>2. /\ Copies(posted[s], d) \in Nat /\ Copies(heard[s], d) \in Nat
      /\ Copies(heard[Other[s]], d) \in Nat
  BY <1>1, CopiesType
<1>3. Copies(Socket[s], d) \in Nat /\ Copies(Subscriber[s], d) \in Nat
  BY CopiesType DEF LineHolds
<1> QED
  BY <1>2, <1>3 DEF CountsOK, Sources, InFront, Behind, HeldCopies

\* The same of the next state.
LEMMA TypedNext ==
  /\ (\A s \in Sites : SiteA!TypeOK /\ SiteB!TypeOK => LineHolds(s))'
  /\ (\A s \in Sites, d \in Bodies : HistoryType /\ LineHolds(s) => CountsOK(s, d))'
<1>1. \A s \in Sites : SiteA!TypeOK /\ SiteB!TypeOK => LineHolds(s)
  BY LineHeld
<1>2. \A s \in Sites, d \in Bodies : HistoryType /\ LineHolds(s) => CountsOK(s, d)
  BY CopiesTerms
<1> QED
  BY <1>1, <1>2, PTL

\* The copies that a site has heard grow no fewer.
LEMMA HeardCopies ==
  ASSUME HistoryType, SiteA!TypeOK, SiteB!TypeOK, [Next]_vars, NEW s \in Sites, NEW d
  PROVE  Copies(heard[s], d) \in Nat /\ Copies(heard[s], d) <= Copies(heard'[s], d)
<1>1. heard[s] \in Seq(Posts) /\ Copies(heard[s], d) \in Nat
  BY CopiesType DEF HistoryType
<1>2. PICK r \in Sites : Other[r] = s
  BY DEF Sites, Other
<1>3. CASE heard'[s] = heard[s]
  BY <1>1, <1>3
<1>4. CASE BackIsHeard(r)
  <2>1. Z2lMsg[r] \in AllMessages
    BY <1>4, LineHeld DEF BackIsHeard, LineHolds, InSend
  <2>2. PICK p \in Posts : heard'[s] = Append(heard[s], p)
    BY <1>2, <1>4, <2>1 DEF BackIsHeard, AllMessages, Post, Posts
  <2> QED
    BY <1>1, <2>2, CopiesAppend
<1> QED
  BY <1>2, <1>3, <1>4, Moves
  DEF LineMoves, BackSame, BackMoves, BackSkips, BackTakes, BackLetsGo, Published

\* The first half gains a copy only when one is multicast.
LEMMA FrontCopies ==
  ASSUME HistoryType, NEW s \in Sites, LineHolds(s), FrontSame(s) \/ FrontMoves(s), NEW d,
         Copies(heard[s], d) <= Copies(heard'[s], d), Copies(heard'[s], d) \in Nat
  PROVE  InFront(s, d)' - InFront(s, d) <= Sources(s, d)' - Sources(s, d)
<1> DEFINE front == Copies(Socket'[s], d)
             + (IF L2zPc'[s] \in {"check", "publish"} /\ L2zMsg'[s].body = d THEN 1 ELSE 0)
           sources == Copies(posted'[s], d) + Copies(heard'[s], d)
<1>1. InFront(s, d)' = front /\ Sources(s, d)' = sources
  BY DEF InFront, Sources, Relaying, Copies
<1>2. PICK c \in Nat, p \in Nat, h \in Nat, k \in Nat :
        /\ c = Copies(Socket[s], d) /\ p = Copies(posted[s], d)
        /\ h = Copies(heard[s], d) /\ k = Copies(heard'[s], d) /\ h <= k
  BY CopiesTerms DEF CountsOK
<1>3. PICK x \in {0, 1} : x = IF Relaying(s) /\ L2zMsg[s].body = d THEN 1 ELSE 0
  OBVIOUS
<1>4. InFront(s, d) = c + x /\ Sources(s, d) = p + h /\ sources = Copies(posted'[s], d) + k
  BY <1>2, <1>3 DEF InFront, Sources
<1>5. CASE FrontSame(s)
  <2>1. Copies(Socket'[s], d) = c /\ Copies(posted'[s], d) = p
    BY <1>2, <1>5 DEF FrontSame
  <2>2. front = c + x
    BY <1>3, <1>5, <2>1 DEF FrontSame, Relaying
  <2> QED
    BY <1>1, <1>2, <1>4, <2>1, <2>2
<1>6. CASE FrontPosts(s)
  <2>1. PICK m \in AllMessages :
          Socket'[s] = Append(Socket[s], m) /\ posted'[s] = Append(posted[s], Post(m))
    BY <1>6 DEF FrontPosts
  <2>2. PICK y \in {0, 1} : y = IF m.body = d THEN 1 ELSE 0
    OBVIOUS
  <2>3. Copies(Socket'[s], d) = c + y
    BY <1>2, <2>1, <2>2, CopiesAppend DEF LineHolds
  <2>4. Copies(posted'[s], d) = p + y
    <3>1. Post(m) \in Posts /\ Post(m).body = m.body /\ posted[s] \in Seq(Posts)
      BY DEF AllMessages, Post, Posts, HistoryType
    <3> QED
      BY <1>2, <2>1, <2>2, <3>1, CopiesAppend
  <2>5. front = c + y + x
    BY <1>3, <1>6, <2>3 DEF FrontPosts, Relaying
  <2> QED
    BY <1>1, <1>2, <1>4, <2>4, <2>5
<1>7. CASE FrontLoopsBack(s)
  <2>1. PICK m \in AllMessages :
          Socket'[s] = Append(Socket[s], m) /\ heard'[s] = Append(heard[s], Post(m))
    BY <1>7 DEF FrontLoopsBack
  <2>2. PICK y \in {0, 1} : y = IF m.body = d THEN 1 ELSE 0
    OBVIOUS
  <2>3. Copies(Socket'[s], d) = c + y
    BY <1>2, <2>1, <2>2, CopiesAppend DEF LineHolds
  <2>4. k = h + y
    <3>1. Post(m) \in Posts /\ Post(m).body = m.body /\ heard[s] \in Seq(Posts)
      BY DEF AllMessages, Post, Posts, HistoryType
    <3> QED
      BY <1>2, <2>1, <2>2, <3>1, CopiesAppend
  <2>5. front = c + y + x
    BY <1>3, <1>7, <2>3 DEF FrontLoopsBack, Relaying
  <2>6. Copies(posted'[s], d) = p
    BY <1>2, <1>7 DEF FrontLoopsBack
  <2> QED
    BY <1>1, <1>2, <1>4, <2>4, <2>5, <2>6
<1>8. CASE FrontReceives(s)
  <2>1. PICK y \in {0, 1} : y = IF Head(Socket[s]).body = d THEN 1 ELSE 0
    OBVIOUS
  <2>2. c = Copies(Socket'[s], d) + y
    BY <1>2, <1>8, <2>1, CopiesTail DEF LineHolds, FrontReceives
  <2>3. Copies(Socket'[s], d) \in Nat
    <3>1. Socket'[s] \in Seq(AllMessages)
      BY <1>8, QueueFacts DEF LineHolds, FrontReceives
    <3> QED
      BY <3>1, CopiesType
  <2>4. front = Copies(Socket'[s], d) + y /\ x = 0
    BY <1>3, <1>8, <2>1 DEF FrontReceives, Relaying
  <2>5. Copies(posted'[s], d) = p
    BY <1>2, <1>8 DEF FrontReceives
  <2> QED
    BY <1>1, <1>2, <1>4, <2>2, <2>3, <2>4, <2>5
<1>9. CASE FrontPasses(s) \/ FrontLetsGo(s)
  <2>1. Copies(Socket'[s], d) = c /\ Copies(posted'[s], d) = p
    BY <1>2, <1>9 DEF FrontPasses, FrontLetsGo
  <2>2. front <= c + x
    BY <1>3, <1>9, <2>1 DEF FrontPasses, FrontLetsGo, Relaying
  <2>3. front \in Nat
    BY <2>1
  <2> QED
    BY <1>1, <1>2, <1>4, <2>1, <2>2, <2>3
<1> QED
  BY <1>5, <1>6, <1>7, <1>8, <1>9 DEF FrontMoves

\* The second half never gains one by itself.
LEMMA BackCopies ==
  ASSUME HistoryType, NEW s \in Sites, LineHolds(s), BackSame(s) \/ BackMoves(s), NEW d
  PROVE  Behind(s, d)' <= Behind(s, d)
<1> DEFINE behind == Copies(heard'[Other[s]], d) + Copies(Subscriber'[s], d)
             + (IF Z2lPc'[s] = "send" /\ Z2lMsg'[s].body = d THEN 1 ELSE 0)
<1>1. Behind(s, d)' = behind
  BY DEF Behind, InSend, Copies
<1>2. PICK h \in Nat, c \in Nat :
        h = Copies(heard[Other[s]], d) /\ c = Copies(Subscriber[s], d)
  BY CopiesTerms DEF CountsOK
<1>3. PICK x \in {0, 1} : x = IF InSend(s) /\ Z2lMsg[s].body = d THEN 1 ELSE 0
  OBVIOUS
<1>4. Behind(s, d) = h + c + x
  BY <1>2, <1>3 DEF Behind
<1>5. CASE BackSame(s) \/ BackLetsGo(s)
  <2>1. Copies(heard'[Other[s]], d) = h /\ Copies(Subscriber'[s], d) = c
    BY <1>2, <1>5 DEF BackSame, BackLetsGo
  <2>2. behind <= h + c + x
    BY <1>3, <1>5, <2>1 DEF BackSame, BackLetsGo, InSend
  <2> QED
    BY <1>1, <1>4, <2>2
<1>6. CASE BackSkips(s) \/ BackTakes(s)
  <2>1. PICK y \in {0, 1} : y = IF Head(Subscriber[s]).body = d THEN 1 ELSE 0
    OBVIOUS
  <2>2. Subscriber[s] # <<>> /\ Subscriber'[s] = Tail(Subscriber[s])
    BY <1>6 DEF BackSkips, BackTakes
  <2>3. c = Copies(Subscriber'[s], d) + y
    BY <1>2, <2>1, <2>2, CopiesTail DEF LineHolds
  <2>4. Copies(Subscriber'[s], d) \in Nat
    <3>1. Subscriber'[s] \in Seq(AllSamples)
      BY <2>2, QueueFacts DEF LineHolds
    <3> QED
      BY <3>1, CopiesType
  <2>5. Copies(heard'[Other[s]], d) = h
    BY <1>2, <1>6 DEF BackSkips, BackTakes
  <2>6. CASE BackSkips(s)
    <3>1. behind = h + Copies(Subscriber'[s], d) + x
      BY <1>3, <2>5, <2>6 DEF BackSkips, InSend
    <3> QED
      BY <1>1, <1>4, <2>3, <2>4, <3>1
  <2>7. CASE BackTakes(s)
    <3>1. behind = h + Copies(Subscriber'[s], d) + y
      BY <2>1, <2>5, <2>7 DEF BackTakes
    <3> QED
      BY <1>1, <1>4, <2>3, <2>4, <3>1
  <2> QED
    BY <1>6, <2>6, <2>7
<1>7. CASE BackIsHeard(s)
  <2>1. PICK m \in AllMessages : m = Z2lMsg[s]
    BY <1>7 DEF BackIsHeard, LineHolds, InSend
  <2>2. Post(m) \in Posts /\ Post(m).body = m.body /\ heard[Other[s]] \in Seq(Posts)
    BY DEF AllMessages, Post, Posts, HistoryType, Sites, Other
  <2>3. Copies(heard'[Other[s]], d) = h + x
    <3>1. heard'[Other[s]] = Append(heard[Other[s]], Post(m))
      BY <1>7, <2>1 DEF BackIsHeard
    <3>2. x = IF Post(m).body = d THEN 1 ELSE 0
      BY <1>3, <1>7, <2>1, <2>2 DEF BackIsHeard, InSend
    <3> QED
      BY <1>2, <2>2, <3>1, <3>2, CopiesAppend
  <2>4. behind = h + x + c
    BY <1>2, <1>7, <2>3 DEF BackIsHeard
  <2> QED
    BY <1>1, <1>4, <2>4
<1> QED
  BY <1>5, <1>6, <1>7 DEF BackMoves

\* A put hands the one copy of the first half to the second.
LEMMA PutCopies ==
  ASSUME HistoryType, NEW s \in Sites, LineHolds(s), Published(s), NEW d,
         Copies(heard[s], d) <= Copies(heard'[s], d), Copies(heard'[s], d) \in Nat
  PROVE  /\ InFront(s, d)' + Behind(s, d)' = InFront(s, d) + Behind(s, d)
         /\ Sources(s, d) <= Sources(s, d)'
<1> DEFINE front == Copies(Socket'[s], d)
             + (IF L2zPc'[s] \in {"check", "publish"} /\ L2zMsg'[s].body = d THEN 1 ELSE 0)
           behind == Copies(heard'[Other[s]], d) + Copies(Subscriber'[s], d)
             + (IF Z2lPc'[s] = "send" /\ Z2lMsg'[s].body = d THEN 1 ELSE 0)
           sources == Copies(posted'[s], d) + Copies(heard'[s], d)
<1>1. InFront(s, d)' = front /\ Behind(s, d)' = behind /\ Sources(s, d)' = sources
  BY DEF InFront, Behind, Sources, Relaying, InSend, Copies
<1>2. PICK m \in AllMessages : m = L2zMsg[s]
  BY DEF Published, LineHolds, Relaying
<1>3. PICK e \in AllSamples : Subscriber'[s] = Append(Subscriber[s], e) /\ e.body = m.body
  BY <1>2 DEF Published, Sample
<1>4. PICK y \in {0, 1} : y = IF m.body = d THEN 1 ELSE 0
  OBVIOUS
<1>5. PICK c \in Nat, k \in Nat, h \in Nat, p \in Nat :
        /\ c = Copies(Socket[s], d) /\ k = Copies(Subscriber[s], d)
        /\ h = Copies(heard[Other[s]], d) /\ p = Copies(posted[s], d)
  BY CopiesTerms DEF CountsOK
<1>6. PICK x \in {0, 1} : x = IF InSend(s) /\ Z2lMsg[s].body = d THEN 1 ELSE 0
  OBVIOUS
<1>7. Copies(Subscriber'[s], d) = k + y
  BY <1>3, <1>4, <1>5, CopiesAppend DEF LineHolds
<1>8. front = c
  BY <1>5 DEF Published
<1>9. InFront(s, d) = c + y
  BY <1>2, <1>4, <1>5 DEF InFront, Relaying, Published
<1>10. behind = h + (k + y) + x
  BY <1>5, <1>6, <1>7 DEF Published, InSend
<1>11. Behind(s, d) = h + k + x
  BY <1>5, <1>6 DEF Behind
<1>12. Sources(s, d) <= sources
  <2>1. Copies(posted'[s], d) = p /\ Copies(heard[s], d) \in Nat
    BY <1>5, CopiesTerms DEF Published, CountsOK
  <2> QED
    BY <1>5, <2>1 DEF Sources
<1> QED
  BY <1>1, <1>8, <1>9, <1>10, <1>11, <1>12

\* So a step keeps the count of every line.
LEMMA CopiesKept ==
  ASSUME HistoryType, SiteA!TypeOK, SiteB!TypeOK, [Next]_vars, NEW s \in Sites,
         CopiesOK(s)
  PROVE  CopiesOK(s)'
<1>1. /\ SiteA!TypeOK' /\ SiteB!TypeOK' /\ HistoryType'
      /\ LineHolds(s) /\ LineHolds(s)' /\ LineMoves(s)
  <2>1. SiteA!TypeOK' /\ SiteB!TypeOK' /\ HistoryType'
    BY BridgesTyped, HistoryTypeKept
  <2> QED
    BY <2>1, TypedNext, LineHeld, Moves
<1> SUFFICES ASSUME NEW d \in Bodies
             PROVE  (Copies(heard[Other[s]], d)
                       + Copies(Socket[s], d) + Copies(Subscriber[s], d) + HeldCopies(s, d)
                      <= Copies(posted[s], d) + Copies(heard[s], d))'
  BY DEF CopiesOK
<1>2. /\ Copies(heard[s], d) <= Copies(heard'[s], d) /\ Copies(heard'[s], d) \in Nat
  <2>1. heard'[s] \in Seq(Posts)
    BY <1>1 DEF HistoryType
  <2> QED
    BY <2>1, HeardCopies, CopiesType
<1>3. PICK f \in Nat, b \in Nat, t \in Nat :
        /\ f = InFront(s, d) /\ b = Behind(s, d) /\ t = Sources(s, d)
        /\ f + b <= t
  <2>1. CountsOK(s, d)
    BY <1>1, CopiesTerms
  <2> QED
    BY <2>1 DEF CountsOK, CopiesOK, Sources
<1>4. /\ Sources(s, d)' \in Nat /\ InFront(s, d)' \in Nat /\ Behind(s, d)' \in Nat
      /\ (InFront(s, d) + Behind(s, d) =
            Copies(heard[Other[s]], d)
              + Copies(Socket[s], d) + Copies(Subscriber[s], d) + HeldCopies(s, d))'
  BY <1>1, TypedNext DEF CountsOK
<1>5. PICK g \in Nat, a \in Nat, u \in Nat :
        g = InFront(s, d)' /\ a = Behind(s, d)' /\ u = Sources(s, d)'
  BY <1>4
<1>6. CASE (FrontSame(s) \/ FrontMoves(s)) /\ (BackSame(s) \/ BackMoves(s))
  <2>1. g - f <= u - t
    BY <1>1, <1>2, <1>3, <1>5, <1>6, FrontCopies
  <2>2. a <= b
    BY <1>1, <1>3, <1>5, <1>6, BackCopies
  <2>3. g + a <= u
    BY <1>3, <2>1, <2>2
  <2> QED
    BY <1>4, <1>5, <2>3 DEF Sources
<1>7. CASE Published(s)
  <2>1. g + a = f + b /\ t <= u
    BY <1>1, <1>2, <1>3, <1>5, <1>7, PutCopies
  <2>2. g + a <= u
    BY <1>3, <2>1
  <2> QED
    BY <1>4, <1>5, <2>2 DEF Sources
<1> QED
  BY <1>1, <1>6, <1>7 DEF LineMoves

-----------------------------------------------------------------------------
(* The two sites in all circumstances.                                     *)

\* At the start nothing has been multicast.
LEMMA OriginsInit == Init => OriginsInv
<1> SUFFICES ASSUME Init PROVE OriginsInv
  OBVIOUS
<1>1. SiteA!TypeOK /\ SiteB!TypeOK /\ HistoryType
  BY BridgesTypedInit, RelayInit DEF RelayInv
<1>2. \A s \in Sites : heard[s] = <<>> /\ posted[s] = <<>>
  BY DEF Init, Sites
<1>3. HeardWasPosted
  BY <1>2 DEF HeardWasPosted
<1>4. ASSUME NEW s \in Sites PROVE OriginsOK(s) /\ CopiesOK(s)
  <2>1. Socket[s] = <<>> /\ Subscriber[s] = <<>> /\ L2zPc[s] = "recv" /\ Z2lPc[s] = "declare"
    BY DEF Init, SiteA!Init, SiteB!Init, Socket, Subscriber, L2zPc, Z2lPc, Sites
  <2>2. OriginsOK(s)
    BY <2>1 DEF OriginsOK, Relaying, InSend
  <2>3. \A d : Copies(<<>>, d) = 0
    <3>1. \A d : {i \in DOMAIN <<>> : <<>>[i].body = d} = {}
      OBVIOUS
    <3> QED
      BY <3>1, FS_EmptySet DEF Copies
  <2>4. \A d : HeldCopies(s, d) = 0
    BY <2>1 DEF HeldCopies, Relaying, InSend
  <2>5. heard[Other[s]] = <<>>
    BY <1>2 DEF Sites, Other
  <2> QED
    BY <1>2, <2>1, <2>2, <2>3, <2>4, <2>5 DEF CopiesOK
<1> QED
  BY <1>1, <1>3, <1>4 DEF OriginsInv

\* Every step keeps what is known of the origins and of the copies.
LEMMA OriginsNext ==
  ASSUME OriginsInv, [Next]_vars
  PROVE  OriginsInv'
<1>1. /\ HistoryType /\ SiteA!TypeOK /\ SiteB!TypeOK /\ HeardWasPosted
      /\ \A s \in Sites : OriginsOK(s) /\ CopiesOK(s)
  BY DEF OriginsInv
<1>2. SiteA!TypeOK' /\ SiteB!TypeOK' /\ HistoryType'
  BY <1>1, BridgesTyped, HistoryTypeKept
<1>3. \A s \in Sites : FrontOrigins(s) /\ BackOrigins(s)
  BY <1>1 DEF OriginsOK, FrontOrigins, BackOrigins
<1>4. HeardWasPosted'
  BY <1>1, <1>3, HeardKept
<1>5. ASSUME NEW s \in Sites PROVE OriginsOK(s)'
  <2>1. LineHolds(s) /\ LineMoves(s) /\ heard[s] \in Seq(Posts) /\ Other[s] \in Sites
    BY <1>1, LineHeld, Moves DEF HistoryType, Sites, Other
  <2>2. FrontOrigins(s)'
    BY <1>1, <1>3, <2>1, OriginsKept, FrontOriginsKept
  <2>3. BackOrigins(s)'
    BY <1>1, <1>3, <2>1, OriginsKept, BackOriginsKept
  <2> QED
    BY <2>2, <2>3 DEF OriginsOK, FrontOrigins, BackOrigins
<1>6. \A s \in Sites : CopiesOK(s)'
  BY <1>1, CopiesKept
<1> QED
  BY <1>2, <1>4, <1>5, <1>6 DEF OriginsInv

\* It holds in every reachable state.
LEMMA OriginsInvariant == Spec => []OriginsInv
<1>1. [WatchedNext]_watched_vars => [Next]_vars
  BY DEF WatchedNext, watched_vars
<1>2. OriginsInv /\ [Next]_vars => OriginsInv'
  BY OriginsNext
<1>3. WatchedInit => OriginsInv
  BY OriginsInit DEF WatchedInit
<1> QED
  BY <1>1, <1>2, <1>3, PTL DEF Spec

\* In all circumstances, for any numbers, races, losses and pruning: what a site hears
\* was posted on a channel with the same key that neither site filters, and a site
\* hears its own messages only after the other one has (zenoh_to_lcm.rs:74-113,
\* lcm_to_zenoh.rs:43-99, mapping.rs:8-60).
THEOREM OnlyPostsAreHeard == Spec => []HeardWasPosted
<1>1. OriginsInv => HeardWasPosted
  BY DEF OriginsInv
<1> QED
  BY OriginsInvariant, <1>1, PTL

\* In all circumstances: each copy of a message that a site multicasts is multicast at
\* most once at the other one, so a message that the loop prevention misses goes round
\* and does not multiply (zenoh_to_lcm.rs:65-123, lcm_to_zenoh.rs:34-99).
THEOREM CopiesDoNotMultiply == Spec => []NeverMultiplied
<1>1. OriginsInv => NeverMultiplied
  <2> SUFFICES ASSUME OriginsInv, NEW s \in Sites, NEW d \in Bodies
               PROVE  Copies(heard[Other[s]], d) <= Copies(posted[s], d) + Copies(heard[s], d)
    BY DEF NeverMultiplied
  <2>1. LineHolds(s) /\ HistoryType
    BY LineHeld DEF OriginsInv
  <2>2. /\ Copies(heard[Other[s]], d) \in Nat /\ Copies(Socket[s], d) \in Nat
        /\ Copies(Subscriber[s], d) \in Nat /\ HeldCopies(s, d) \in Nat
        /\ Copies(posted[s], d) \in Nat /\ Copies(heard[s], d) \in Nat
    <3>1. HeldCopies(s, d) \in Nat
      BY DEF HeldCopies
    <3> QED
      BY <2>1, <3>1, CopiesTerms DEF CountsOK
  <2>3. Copies(heard[Other[s]], d)
            + Copies(Socket[s], d) + Copies(Subscriber[s], d) + HeldCopies(s, d)
          <= Copies(posted[s], d) + Copies(heard[s], d)
    BY DEF OriginsInv, CopiesOK
  <2> QED
    BY <2>2, <2>3
<1> QED
  BY OriginsInvariant, <1>1, PTL
=============================================================================
