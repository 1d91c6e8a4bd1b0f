---------------------------- MODULE BridgedSites ----------------------------
(***************************************************************************)
(* Two sites, A and B, each an LCM multicast group with a bridge, and the  *)
(* Zenoh network between them: the architecture of README.md:34-44. The    *)
(* bridges are two instances of Bridge; a put of one (L2zPublish) is a     *)
(* sample of the other (SampleArrives), or is lost.                        *)
(***************************************************************************)
EXTENDS ChannelMapping, FiniteSetsExt

CONSTANTS
  PrefixA, PrefixB,              \* key_prefix of the two bridges
  Channels, Allow, Deny,         \* as in Bridge; Allow and Deny of each site
  Bodies,                        \* one for each message that is posted
  Scripts,                       \* what each site's programs may post, one after the other
  SelfA, SelfB, App, NoMessage,  \* origins of messages, as in Bridge
  SeqMod, PruneAt, Window, SubscriberCap, SocketCap

Sites == {"A", "B"}
Other == [A |-> "B", B |-> "A"]
Prefix == [A |-> PrefixA, B |-> PrefixB]
Posts == [chan : Channels, body : Bodies]

\* What Bridge assumes of its constants, for the two bridges.
ASSUME BridgesAssumption ==
  /\ App \notin {SelfA, SelfB}
  /\ NoChannel \notin Channels
  /\ {Allow, Deny} \subseteq [Sites -> SUBSET SUBSET Channels]
  /\ {SeqMod, SubscriberCap, SocketCap} \subseteq Nat \ {0}
  /\ PruneAt \in Nat /\ Window \in Nat
  /\ Window < PruneAt /\ Window < SeqMod
  /\ NoMessage \notin [src : {SelfA, SelfB, App}, seq : 0 .. SeqMod - 1,
                       chan : Channels, body : Bodies]

\* A channel name and a prefix are sequences of chunks.
ASSUME ChunksAssumption ==
  \A n \in Channels \cup {PrefixA, PrefixB} : n \in Seq({n[i] : i \in DOMAIN n})

\* A body stands for one message.
ASSUME ScriptsAssumption ==
  /\ Scripts \subseteq [Sites -> Seq(Posts)]
  /\ \A s \in Scripts, x \in Sites : \A i, j \in DOMAIN s[x] :
       i # j => s[x][i].body # s[x][j].body
  /\ \A s \in Scripts : \A i \in DOMAIN s.A, j \in DOMAIN s.B :
       s.A[i].body # s.B[j].body

VARIABLES
  a_seq_counter, a_sent_sequences, a_subscriber, a_z2l_pc, a_z2l_msg,
  a_socket, a_l2z_pc, a_l2z_msg,
  b_seq_counter, b_sent_sequences, b_subscriber, b_z2l_pc, b_z2l_msg,
  b_socket, b_l2z_pc, b_l2z_msg,
  script,   \* the one of Scripts that is played: never changes
  posted,   \* history: messages the programs of a site sent its bridge
  heard,    \* history: messages the bridge of a site multicast
  dropped,  \* history: bodies whose put was lost or whose send failed
  timely    \* history: Timely has held so far

a_vars == <<a_seq_counter, a_sent_sequences, a_subscriber, a_z2l_pc, a_z2l_msg,
            a_socket, a_l2z_pc, a_l2z_msg>>
b_vars == <<b_seq_counter, b_sent_sequences, b_subscriber, b_z2l_pc, b_z2l_msg,
            b_socket, b_l2z_pc, b_l2z_msg>>
history == <<script, posted, heard, dropped>>
vars == <<a_vars, b_vars, history>>

UnmappableUnder(prefix) ==
  {c \in Channels : lcm_channel_to_key_expr(c, prefix) = NoKey}

SiteA == INSTANCE Bridge WITH
  Self <- SelfA, Apps <- {App}, Unmappable <- UnmappableUnder(PrefixA),
  Allow <- Allow.A, Deny <- Deny.A,
  seq_counter <- a_seq_counter, sent_sequences <- a_sent_sequences,
  subscriber <- a_subscriber, z2l_pc <- a_z2l_pc, z2l_msg <- a_z2l_msg,
  socket <- a_socket, l2z_pc <- a_l2z_pc, l2z_msg <- a_l2z_msg

SiteB == INSTANCE Bridge WITH
  Self <- SelfB, Apps <- {App}, Unmappable <- UnmappableUnder(PrefixB),
  Allow <- Allow.B, Deny <- Deny.B,
  seq_counter <- b_seq_counter, sent_sequences <- b_sent_sequences,
  subscriber <- b_subscriber, z2l_pc <- b_z2l_pc, z2l_msg <- b_z2l_msg,
  socket <- b_socket, l2z_pc <- b_l2z_pc, l2z_msg <- b_l2z_msg

Last(s) == s[Len(s)]
Post(m) == [chan |-> m.chan, body |-> m.body]
BodiesOf(posts) == {posts[i].body : i \in DOMAIN posts}

Init ==
  /\ SiteA!Init /\ SiteB!Init
  /\ script \in Scripts
  /\ posted = [A |-> <<>>, B |-> <<>>]
  /\ heard = [A |-> <<>>, B |-> <<>>]
  /\ dropped = {}

-----------------------------------------------------------------------------
(* The programs of a site follow the script.                               *)

Scripted(site, m) ==
  /\ Len(posted[site]) < Len(script[site])
  /\ Post(m) = script[site][Len(posted[site]) + 1]
  /\ posted' = [posted EXCEPT ![site] = Append(@, Post(m))]

APosts ==
  /\ SiteA!AppSends
  /\ Scripted("A", Last(a_socket'))
  /\ UNCHANGED <<b_vars, script, heard, dropped>>

BPosts ==
  /\ SiteB!AppSends
  /\ Scripted("B", Last(b_socket'))
  /\ UNCHANGED <<a_vars, script, heard, dropped>>

-----------------------------------------------------------------------------
(* Steps of one bridge. What it multicasts, its site hears.                *)

AOwn ==
  /\ \/ SiteA!Z2lDeclare \/ SiteA!Z2lRecvFails \/ SiteA!Z2lSkip \/ SiteA!Z2lTake
     \/ SiteA!Z2lRecord \/ SiteA!L2zRecv \/ SiteA!L2zCheck
  /\ UNCHANGED <<b_vars, history>>

BOwn ==
  /\ \/ SiteB!Z2lDeclare \/ SiteB!Z2lRecvFails \/ SiteB!Z2lSkip \/ SiteB!Z2lTake
     \/ SiteB!Z2lRecord \/ SiteB!L2zRecv \/ SiteB!L2zCheck
  /\ UNCHANGED <<a_vars, history>>

Hears(site, m) == heard' = [heard EXCEPT ![site] = Append(@, Post(m))]
Drops(m) == dropped' = dropped \cup {m.body}

ASends ==
  /\ \/ SiteA!Z2lTransmit /\ Hears("A", a_z2l_msg) /\ UNCHANGED dropped
     \/ SiteA!Z2lSendFails /\ Drops(a_z2l_msg) /\ UNCHANGED heard
  /\ UNCHANGED <<b_vars, script, posted>>

BSends ==
  /\ \/ SiteB!Z2lTransmit /\ Hears("B", b_z2l_msg) /\ UNCHANGED dropped
     \/ SiteB!Z2lSendFails /\ Drops(b_z2l_msg) /\ UNCHANGED heard
  /\ UNCHANGED <<a_vars, script, posted>>

-----------------------------------------------------------------------------
(* A put reaches the other bridge's subscriber, if its subscription        *)
(* matches, and is lost otherwise, or if put fails, or on the way.         *)

Sample(m, from, to) ==
  [key |-> key_expr_to_lcm_channel(lcm_channel_to_key_expr(m.chan, from), to),
   body |-> m.body]
Reaches(m, from, to) == Subscribed(lcm_channel_to_key_expr(m.chan, from), to)

APublishes ==
  /\ SiteA!L2zPublish
  /\ \/ /\ Reaches(a_l2z_msg, PrefixA, PrefixB)
        /\ SiteB!SampleArrives
        /\ Last(b_subscriber') = Sample(a_l2z_msg, PrefixA, PrefixB)
        /\ UNCHANGED dropped
     \/ Drops(a_l2z_msg) /\ UNCHANGED b_vars
  /\ UNCHANGED <<script, posted, heard>>

BPublishes ==
  /\ SiteB!L2zPublish
  /\ \/ /\ Reaches(b_l2z_msg, PrefixB, PrefixA)
        /\ SiteA!SampleArrives
        /\ Last(a_subscriber') = Sample(b_l2z_msg, PrefixB, PrefixA)
        /\ UNCHANGED dropped
     \/ Drops(b_l2z_msg) /\ UNCHANGED a_vars
  /\ UNCHANGED <<script, posted, heard>>

-----------------------------------------------------------------------------
Next ==
  \/ APosts \/ AOwn \/ ASends \/ APublishes
  \/ BPosts \/ BOwn \/ BSends \/ BPublishes

\* Both bridges are in the circumstances their loop prevention relies on.
Timely == SiteA!Timely /\ SiteB!Timely

\* The two sites in all circumstances, those in which the loop prevention misses a
\* message included; timely tells them apart.
WatchedInit == Init /\ timely = TRUE
WatchedNext == Next /\ timely' = (timely /\ Timely')
watched_vars == <<vars, timely>>
Spec == WatchedInit /\ [][WatchedNext]_watched_vars

\* The fairness of Bridge, for each of the two.
Fairness ==
  /\ WF_a_vars(SiteA!Z2lSkip \/ SiteA!Z2lTake)
  /\ WF_b_vars(SiteB!Z2lSkip \/ SiteB!Z2lTake)
  /\ WF_vars(ASends) /\ WF_vars(BSends)
  /\ WF_a_vars(SiteA!Z2lRecord) /\ WF_b_vars(SiteB!Z2lRecord)
  /\ WF_a_vars(SiteA!L2zRecv) /\ WF_b_vars(SiteB!L2zRecv)
  /\ WF_a_vars(SiteA!L2zCheck) /\ WF_b_vars(SiteB!L2zCheck)
  /\ WF_vars(APublishes) /\ WF_vars(BPublishes)

-----------------------------------------------------------------------------
(* Properties.                                                             *)

Permitted == [s \in Sites |->
  {c \in Channels : /\ \A regex \in Allow[s] : c \in regex
                    /\ \A regex \in Deny[s] : c \notin regex}]

\* The posts of a site that the other one has heard, and how far the other
\* one's posts have been heard.
Arrived(s) ==
  {i \in DOMAIN posted[s] : posted[s][i].body \in BodiesOf(heard[Other[s]])}
Upto(s) == Max({0} \cup Arrived(Other[s]))

\* The two bridges implement Relay, as long as both are in the circumstances their
\* loop prevention relies on: nothing comes back to the site it was posted at,
\* nothing arrives twice, out of order, on another channel or past a filter
\* (README.md:34-48; lcm_to_zenoh.rs:43-99, zenoh_to_lcm.rs:74-113).
Promise == INSTANCE Relay WITH
  upto <- [s \in Sites |-> Upto(s)],
  lasting <- timely
ImplementsRelay == Promise!Spec

\* A message that both sites let through and that has a key the other site is
\* subscribed to is heard there in the end, unless its put or its send failed, or
\* the circumstances of the loop prevention have not lasted: neither the loop
\* prevention nor a task that has stopped loses it unnoticed
\* (zenoh_to_lcm.rs:65-123, lcm_to_zenoh.rs:34-99).
Due(s) ==
  {posted[s][i].body : i \in
     {j \in DOMAIN posted[s] : \E m \in Posts :
        /\ Promise!SameMessage(Other[s], m, posted[s][j])
        /\ lcm_channel_to_key_expr(posted[s][j].chan, Prefix[s]) # NoKey}}
EventuallyRelayed ==
  <>[](timely => \A s \in Sites : Due(s) \subseteq BodiesOf(heard[Other[s]]) \cup dropped)

\* In all circumstances: what a site hears was posted, on a channel with the same
\* key that neither site filters; and if it was posted at the site itself, then it
\* comes from the other one, which has heard it before. No race of the two tasks, no
\* number that two programs share and no record pruned too early brings anything
\* else (zenoh_to_lcm.rs:74-113, lcm_to_zenoh.rs:43-99, mapping.rs:8-60).
CarriedOver(s, channel, body) ==
  \E t \in Sites : \E i \in DOMAIN posted[t] :
    /\ posted[t][i].body = body
    /\ Prefix[s] \o channel = Prefix[t] \o posted[t][i].chan
    /\ posted[t][i].chan \in Permitted[t]
    /\ t = s => body \in BodiesOf(heard[Other[s]])
HeardWasPosted ==
  \A s \in Sites : \A i \in DOMAIN heard[s] :
    /\ heard[s][i].chan \in Permitted[s]
    /\ CarriedOver(s, heard[s][i].chan, heard[s][i].body)

\* In all circumstances: a message that is multicast at one site, by a program or by
\* the bridge, is multicast at most once at the other one for it. So a message goes
\* round as often as loopbacks are missed, and multiplies on no round. (A datagram
\* is not duplicated here: the loopback copy is made within the host, and a
\* duplicate of a program's message is one more message of that program's.)
\* (zenoh_to_lcm.rs:65-123, lcm_to_zenoh.rs:34-99).
Copies(queue, body) == Cardinality({i \in DOMAIN queue : queue[i].body = body})
NeverMultiplied ==
  \A s \in Sites, d \in Bodies :
    Copies(heard[Other[s]], d) <= Copies(posted[s], d) + Copies(heard[s], d)

-----------------------------------------------------------------------------
(* The inductive invariant behind ImplementsRelay. The line of the site s  *)
(* is the way of its posts: its bridge's socket and LCM -> Zenoh task, and *)
(* then the other bridge's subscriber and Zenoh -> LCM task.               *)

Socket == [A |-> a_socket, B |-> b_socket]
L2zPc == [A |-> a_l2z_pc, B |-> b_l2z_pc]
L2zMsg == [A |-> a_l2z_msg, B |-> b_l2z_msg]
Subscriber == [A |-> b_subscriber, B |-> a_subscriber]
Z2lPc == [A |-> b_z2l_pc, B |-> a_z2l_pc]
Z2lMsg == [A |-> b_z2l_msg, B |-> a_z2l_msg]

\* The posts that the line holds at each place.
Waiting(s) == {i \in DOMAIN Socket[s] : Socket[s][i].src = App}
Held(s) == L2zPc[s] \in {"check", "publish"} /\ L2zMsg[s].src = App
InSend(s) == Z2lPc[s] = "send"

\* Which of the posts a message is, by its body.
Nth(posts, m) == CHOOSE i \in DOMAIN posts : posts[i].body = m.body

Leaving(s) ==
  {Nth(script[s], Socket[s][i]) : i \in Waiting(s)}
    \cup (IF Held(s) THEN {Nth(script[s], L2zMsg[s])} ELSE {})
Arriving(s) ==
  {Nth(script[s], Subscriber[s][i]) : i \in DOMAIN Subscriber[s]}
    \cup (IF InSend(s) THEN {Nth(script[s], Z2lMsg[s])} ELSE {})

HistoryType ==
  /\ script \in Scripts
  /\ posted \in [Sites -> Seq(Posts)]
  /\ heard \in [Sites -> Seq(Posts)]

\* The programs have followed the script, and what is heard was posted.
HistoryOK(s) ==
  /\ Len(posted[s]) <= Len(script[s])
  /\ \A i \in DOMAIN posted[s] : posted[s][i] = script[s][i]
  /\ BodiesOf(heard[Other[s]]) \subseteq BodiesOf(posted[s])
  /\ Upto(Other[s]) \in {0} \cup Arrived(s)
  /\ \A i \in Arrived(s) : i <= Upto(Other[s])

\* A message of the first bridge is a post; one of the second bridge stands for a
\* post that the first has let through, under the same key.
IsPost(s, m) == \E i \in DOMAIN posted[s] : posted[s][i] = Post(m)
StandsForPost(s, channel, body) ==
  \E i \in DOMAIN posted[s] :
    /\ posted[s][i].body = body
    /\ posted[s][i].chan \in Permitted[s]
    /\ channel # NoChannel
         => Prefix[Other[s]] \o channel = Prefix[s] \o posted[s][i].chan

\* What the bridge of s holds are posts, in their order.
FrontOK(s) ==
  /\ \A i \in Waiting(s) : IsPost(s, Socket[s][i])
  /\ Held(s) => IsPost(s, L2zMsg[s])
  /\ L2zPc[s] = "publish" =>
       L2zMsg[s].chan \in Permitted[s] \ UnmappableUnder(Prefix[s])
  /\ \A i, j \in Waiting(s) : i < j =>
       Nth(script[s], Socket[s][i]) < Nth(script[s], Socket[s][j])
  /\ Held(s) => \A i \in Waiting(s) :
       Nth(script[s], L2zMsg[s]) < Nth(script[s], Socket[s][i])

\* What the other bridge holds stands for posts, in their order, and for none that
\* has been heard.
BackOK(s) ==
  /\ \A i \in DOMAIN Subscriber[s] :
       StandsForPost(s, Subscriber[s][i].key, Subscriber[s][i].body)
  /\ InSend(s) =>
       /\ Z2lMsg[s].chan \in Permitted[Other[s]]
       /\ StandsForPost(s, Z2lMsg[s].chan, Z2lMsg[s].body)
  /\ \A i, j \in DOMAIN Subscriber[s] : i < j =>
       Nth(script[s], Subscriber[s][i]) < Nth(script[s], Subscriber[s][j])
  /\ InSend(s) => \A i \in DOMAIN Subscriber[s] :
       Nth(script[s], Z2lMsg[s]) < Nth(script[s], Subscriber[s][i])
  /\ \A i \in Arrived(s), j \in Arriving(s) : i < j

\* Nothing in the bridge of s was posted before what has passed it.
BackFirst(s) == \A i \in Arrived(s) \cup Arriving(s), j \in Leaving(s) : i < j

LineOK(s) == HistoryOK(s) /\ FrontOK(s) /\ BackOK(s) /\ BackFirst(s)

RelayInv ==
  /\ SiteA!TimelyInv /\ SiteB!TimelyInv
  /\ HistoryType
  /\ \A s \in Sites : LineOK(s)

-----------------------------------------------------------------------------
(* The inductive invariant behind HeardWasPosted and NeverMultiplied.      *)

\* m has been multicast at s, by a program or by the bridge.
OnAir(s, m) == IsPost(s, m) \/ \E i \in DOMAIN heard[s] : heard[s][i] = Post(m)

Relaying(s) == L2zPc[s] \in {"check", "publish"}

\* The bridge of s holds what was multicast there, the other one what is carried
\* over.
OriginsOK(s) ==
  /\ \A i \in DOMAIN Socket[s] : OnAir(s, Socket[s][i])
  /\ Relaying(s) => OnAir(s, L2zMsg[s])
  /\ L2zPc[s] = "publish" =>
       L2zMsg[s].chan \in Permitted[s] \ UnmappableUnder(Prefix[s])
  /\ \A i \in DOMAIN Subscriber[s] :
       Subscriber[s][i].key # NoChannel =>
         CarriedOver(Other[s], Subscriber[s][i].key, Subscriber[s][i].body)
  /\ InSend(s) =>
       /\ Z2lMsg[s].chan \in Permitted[Other[s]]
       /\ CarriedOver(Other[s], Z2lMsg[s].chan, Z2lMsg[s].body)

\* Each copy on the line of s stands for one that was multicast there, and so does
\* each that the line has let through.
HeldCopies(s, d) ==
  (IF Relaying(s) /\ L2zMsg[s].body = d THEN 1 ELSE 0)
    + (IF InSend(s) /\ Z2lMsg[s].body = d THEN 1 ELSE 0)
CopiesOK(s) ==
  \A d \in Bodies :
    Copies(heard[Other[s]], d)
        + Copies(Socket[s], d) + Copies(Subscriber[s], d) + HeldCopies(s, d)
      <= Copies(posted[s], d) + Copies(heard[s], d)

OriginsInv ==
  /\ SiteA!TypeOK /\ SiteB!TypeOK
  /\ HistoryType /\ HeardWasPosted
  /\ \A s \in Sites : OriginsOK(s) /\ CopiesOK(s)
=============================================================================
