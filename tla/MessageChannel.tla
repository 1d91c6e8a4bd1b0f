--------------------------- MODULE MessageChannel ---------------------------
(***************************************************************************)
(* What the LCM transport promises to one receiver: whatever is delivered  *)
(* was sent, in one piece (same channel, number and payload), by a send    *)
(* that has neither failed nor died with its program. Messages may be      *)
(* lost, reordered and duplicated. A sending is a message and who sends it *)
(* when: two sendings may be of the same message.                          *)
(***************************************************************************)
CONSTANT Sendings   \* records with, at least, a message

VARIABLES
  offered,     \* what has been handed to send
  withdrawn,   \* the sendings that returned an error, or never returned
  delivered    \* messages recv has returned

mvars == <<offered, withdrawn, delivered>>

Init == offered = {} /\ withdrawn = {} /\ delivered = {}

Offer(o) ==
  /\ o \notin offered
  /\ offered' = offered \cup {o}
  /\ UNCHANGED <<withdrawn, delivered>>

\* send can fail in the step that takes the message, or later; but not when the
\* message has been delivered, unless another sending accounts for that.
Withdraw(o) ==
  /\ o.message \in delivered =>
       \E p \in offered \ withdrawn : p # o /\ p.message = o.message
  /\ offered' = offered \cup {o}
  /\ withdrawn' = withdrawn \cup {o}
  /\ UNCHANGED delivered

Deliver(o) ==
  /\ o \in offered \ withdrawn
  /\ delivered' = delivered \cup {o.message}
  /\ UNCHANGED <<offered, withdrawn>>

Next == \E o \in Sendings : Offer(o) \/ Withdraw(o) \/ Deliver(o)

Spec == Init /\ [][Next]_mvars
=============================================================================
