----------------------- MODULE MCFragmentReassembler -----------------------
(* A small instance of FragmentReassembler for TLC: see README.md, "Runs". *)
EXTENDS FragmentReassembler

CONSTANTS x, y, chan1, chan2, byte

\* Every combination of header fields, sensible or not, over small ranges.
MCFragments ==
  {f \in [sequence_number : {0}, payload_size : 0 .. 2, fragment_offset : 0 .. 1,
          fragment_number : 0 .. 3, n_fragments : {0, 1, 3},
          channel : {chan1, chan2, NoChannel}, data : {<<>>, <<byte>>}] :
     f.fragment_number = 0 <=> f.channel # NoChannel}

\* Fragments as an LCM sender makes them, with a byte of payload in each of one
\* or two fragments. Two messages may carry the same number.
WellFormed(number, n, channel) ==
  [sequence_number |-> 0, payload_size |-> n, fragment_offset |-> number,
   fragment_number |-> number, n_fragments |-> n, channel |-> channel,
   data |-> <<byte>>]
MCWellFormed ==
  {WellFormed(0, n, c) : n \in 1 .. 2, c \in {chan1, chan2}}
    \cup {WellFormed(1, 2, NoChannel)}
=============================================================================
