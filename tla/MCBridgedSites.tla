--------------------------- MODULE MCBridgedSites ---------------------------
(* Small instances of BridgedSites for TLC: see README.md, "Runs".         *)
EXTENDS BridgedSites

CONSTANTS lcm, r, x, y, star, d1, d2, d3, d4

\* B's prefix lcm/r lies below A's prefix lcm: B's channel c is A's r/c.
MCPrefixA == <<lcm>>
MCPrefixB == <<lcm, r>>

MCChannels == {<<x>>, <<y>>, <<r>>, <<r, x>>, <<r, y>>, <<r, r>>, <<r, r, x>>, <<star>>}

\* A relays all channels, B all but y.
MCAllow == [A |-> {}, B |-> {MCChannels}]
MCDeny  == [A |-> {}, B |-> {{<<y>>}}]

Msg(c, d) == [chan |-> c, body |-> d]

\* Three messages of A, and two of A against one of B; and what does not come
\* through: a channel B's subscription matches without a name, one it does not
\* match and one B filters (all of A), a channel B filters and one Zenoh reserves.
MCScripts ==
  {[A |-> <<Msg(<<r, x>>, d1), Msg(<<r, x>>, d2), Msg(<<r, x>>, d3)>>, B |-> <<>>],
   [A |-> <<Msg(<<r, x>>, d1), Msg(<<r, x>>, d2)>>, B |-> <<Msg(<<x>>, d3)>>],
   [A |-> <<Msg(<<r>>, d1), Msg(<<x>>, d2)>>,
    B |-> <<Msg(<<y>>, d3), Msg(<<x>>, d4)>>],
   [A |-> <<Msg(<<r, y>>, d1), Msg(<<r, x>>, d2)>>,
    B |-> <<Msg(<<star>>, d3), Msg(<<r>>, d4)>>]}

\* Once the circumstances of the loop prevention have not lasted, messages may go
\* round for ever: the run ends there with the MaxHeard-th a site hears.
MaxHeard == 2
WithinBound == timely \/ \A s \in Sites : Len(heard[s]) <= MaxHeard
MCSpec ==
  WatchedInit /\ [][WatchedNext /\ WithinBound']_watched_vars /\ Fairness
=============================================================================
