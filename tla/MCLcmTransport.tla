--------------------------- MODULE MCLcmTransport ---------------------------
(* Small instances of LcmTransport for TLC: see README.md, "Runs".         *)
EXTENDS LcmTransport

CONSTANTS a, b, addrA, addrB, X, Y

\* The MTU is 11 cells. With a name of one byte, up to 7 bytes of payload fit in
\* one datagram, first fragments carry 3 bytes and the others 5. A name of 4
\* bytes leaves no room for a fragment.
chan1 == <<X>>
chan2 == <<Y>>
long  == <<X, Y, X, Y>>
MCChannels == {chan1, chan2, long}

MCDistinctAddr == [s \in {a, b} |-> IF s = a THEN addrA ELSE addrB]
MCSharedAddr   == [s \in {a, b} |-> addrA]

Message(c, n) == [channel |-> c, size |-> n]

BySender(x, y) == [s \in {a, b} |-> IF s = a THEN x ELSE y]

\* Messages of two fragments from both programs, of which a sends one more, with
\* the same number if it has been started again; or two empty messages, which are
\* then alike, and one that is refused, against one of three fragments.
MCWorkloads ==
  {BySender(<<Message(chan1, 8), Message(chan1, 8)>>, <<Message(chan2, 8)>>),
   BySender(<<Message(chan1, 0), Message(long, 5), Message(chan1, 0)>>,
            <<Message(chan2, 9)>>)}

\* Both programs send a two-fragment message.
MCSameSize == {BySender(<<Message(chan1, 8)>>, <<Message(chan2, 8)>>)}

\* A program sends two messages of two fragments.
MCTwice == {[s \in {a} |-> <<Message(chan1, 8), Message(chan1, 8)>>]}

\* One message of three fragments.
MCThreeFragments == {[s \in {a} |-> <<Message(chan1, 9)>>]}
MCOneAddr == [s \in {a} |-> addrA]

\* Nothing at all, another protocol, a header that ends early (of both kinds), a
\* name that does not end, and names that are not UTF-8, the last one in a
\* first fragment that would otherwise start a message.
MCStrays == [from : {addrA}, buf :
  {<<>>, <<X>>, <<MAGIC_SHORT>>, <<MAGIC_FRAGMENT, 0, 8, 0, 0>>,
   <<MAGIC_SHORT, 0, X>>, <<MAGIC_SHORT, 0, NotUtf8, Zero>>,
   <<MAGIC_FRAGMENT, 0, 8, 0, 0, 2, NotUtf8, Zero>>}]
=============================================================================
