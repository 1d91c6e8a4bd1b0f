---------------------------- MODULE BridgeLedger ----------------------------
(***************************************************************************)
(* The bridge with a ledger of what happened to its sequence numbers:      *)
(* history variables beside every action of Bridge, which restrict         *)
(* nothing. No assumption is made on the schedule or the other programs'   *)
(* numbers; what only holds in the circumstances of Timely says so.        *)
(***************************************************************************)
EXTENDS Bridge

VARIABLES
  unsettled,  \* history: loopbacks that did not settle their record, less the
              \* records that went without one
  taken,      \* history: numbers taken so far; SeqMod + 1 stands for more
  timely      \* history: Timely has held so far
lvars == <<vars, unsettled, taken, timely>>

LedgerInit == Init /\ unsettled = 0 /\ taken = 0 /\ timely = TRUE

Book(n) == unsettled' = unsettled + n

LedgerTake ==
  /\ Z2lTake
  /\ taken' = IF taken <= SeqMod THEN taken + 1 ELSE taken
  /\ UNCHANGED unsettled

\* A loopback that never reaches the bridge's socket is booked.
LedgerTransmit ==
  Z2lTransmit /\ Book(IF socket' = socket THEN 1 ELSE 0) /\ UNCHANGED taken

\* The records that pruning throws away, and one that is renewed, are struck off.
LedgerRecord ==
  /\ Z2lRecord
  /\ LET recorded == sent_sequences \cup {z2l_msg.seq}
         pruned   == Cardinality(recorded) - Cardinality(sent_sequences')
         renewed  == IF z2l_msg.seq \in sent_sequences THEN 1 ELSE 0
     IN Book(- pruned - renewed)
  /\ UNCHANGED taken

\* A record that is spent on another program's message is struck off.
LedgerSuppress ==
  L2zSuppress /\ Book(IF l2z_msg.src = Self THEN 0 ELSE -1) /\ UNCHANGED taken

\* A loopback that is checked without finding its record is booked.
LedgerCheckPast ==
  (L2zSkip \/ L2zPass) /\ Book(IF l2z_msg.src = Self THEN 1 ELSE 0) /\ UNCHANGED taken

LedgerOther ==
  /\ \/ Environment
     \/ Z2lDeclare \/ Z2lRecvFails \/ Z2lSkip \/ Z2lSendFails
     \/ L2zRecv \/ L2zPublish
  /\ UNCHANGED <<unsettled, taken>>

LedgerNext ==
  /\ \/ LedgerTake \/ LedgerTransmit \/ LedgerRecord
     \/ LedgerSuppress \/ LedgerCheckPast \/ LedgerOther
  /\ timely' = (timely /\ Timely')

LedgerSpec == LedgerInit /\ [][LedgerNext]_lvars
LedgerFairSpec == LedgerSpec /\ Fairness

-----------------------------------------------------------------------------
(* Properties.                                                             *)

\* The bridge's own messages on their way back to the check.
OwnPlaces(queue) == {i \in 1 .. Len(queue) : queue[i].src = Self}
Returning ==
  Cardinality(OwnPlaces(socket))
    + IF l2z_pc = "check" /\ l2z_msg.src = Self THEN 1 ELSE 0

\* Every record is accounted for. What is left in the set, together with the
\* records that swallowed somebody else's message, were pruned or were
\* renewed, is matched one to one by loopbacks that are still under way, were
\* lost, or were checked too early: in particular a message of another program
\* is skipped at most once per loopback that did not settle its own record
\* (zenoh_to_lcm.rs:108-114, lcm_to_zenoh.rs:44-54).
AccountsBalance ==
  Cardinality(sent_sequences) + (IF z2l_pc = "record" THEN 1 ELSE 0)
    = Returning + unsettled

\* Until the u32 counter has wrapped, the shared set never holds more than
\* 10_000 numbers between two critical sections, however many loopbacks are
\* lost (zenoh_to_lcm.rs:14-24).
SentSetBounded == taken <= SeqMod => Cardinality(sent_sequences) <= PruneAt

\* As long as loopbacks are not read before their number is recorded, other
\* programs keep clear of the bridge's numbers and the LCM -> Zenoh task is at most
\* a window behind, whatever is lost, every message that will be read back is on
\* record, pruned and wrapped as the set may be (zenoh_to_lcm.rs:14-24, 108-113).
OnRecordWhileTimely == timely => EveryLoopbackOnRecord

\* Nor is a message that the bridge sent to LCM published back to Zenoh then
\* (lcm_to_zenoh.rs:43-54).
NoEchoWhileTimely == timely => NoEcho
=============================================================================
