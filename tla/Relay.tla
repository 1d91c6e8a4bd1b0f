------------------------------- MODULE Relay -------------------------------
(***************************************************************************)
(* What two bridges promise the LCM programs of two sites: a site hears    *)
(* what was posted at the other one, on the channel that has the same key  *)
(* in Zenoh, in the order it was posted in and each message once. It hears *)
(* nothing that either site filters, and never what was posted at the site *)
(* itself. Messages may be lost. The promise is kept as long as the        *)
(* circumstances it is made for last; afterwards anything may be heard.    *)
(***************************************************************************)
EXTENDS Naturals, Sequences

CONSTANTS
  Sites, Other,  \* two sites, and which the other one is
  Prefix,        \* each site's key prefix
  Permitted,     \* the channels each site relays
  Posts          \* [chan, body] messages

VARIABLES
  posted,   \* what the programs of each site have multicast
  heard,    \* what the bridge of each site has multicast
  upto,     \* how many of the other site's posts a site is past
  lasting   \* the circumstances have lasted so far

rvars == <<posted, heard, upto>>

Init ==
  /\ posted = [s \in Sites |-> <<>>]
  /\ heard = [s \in Sites |-> <<>>]
  /\ upto = [s \in Sites |-> 0]

Post(s, p) ==
  /\ posted' = [posted EXCEPT ![s] = Append(@, p)]
  /\ UNCHANGED <<heard, upto>>

\* p, posted at the other site, is m at the site s.
SameMessage(s, m, p) ==
  /\ m.body = p.body
  /\ Prefix[s] \o m.chan = Prefix[Other[s]] \o p.chan
  /\ m.chan \in Permitted[s] /\ p.chan \in Permitted[Other[s]]

\* The other site's i-th post; those before it that were not heard are lost.
Hear(s, i, m) ==
  /\ i > upto[s]
  /\ SameMessage(s, m, posted[Other[s]][i])
  /\ heard' = [heard EXCEPT ![s] = Append(@, m)]
  /\ upto' = [upto EXCEPT ![s] = i]
  /\ UNCHANGED posted

Next == \E s \in Sites, m \in Posts :
  \/ Post(s, m)
  \/ \E i \in DOMAIN posted[Other[s]] : Hear(s, i, m)

Spec == Init /\ [][lasting' => Next]_rvars
=============================================================================
