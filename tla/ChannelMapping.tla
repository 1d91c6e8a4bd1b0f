--------------------------- MODULE ChannelMapping ---------------------------
(***************************************************************************)
(* mapping.rs: LCM channel names to Zenoh key expressions and back. Both   *)
(* are sequences of the chunks that "/" separates; "" is the sequence      *)
(* without chunks. A prefix is one too.                                    *)
(***************************************************************************)
EXTENDS Sequences, Integers
Chunks == INSTANCE SequencesExt

CONSTANTS
  Reserved,    \* chunks with one of the characters * # $
  EmptyChunk,  \* as before the "/" of "/X"
  NoKey,       \* the mapping to a key expression failed
  NoChannel    \* the mapping to a channel failed

\* Zenoh itself refuses a key with an empty chunk.
IsKey(key) == \A i \in DOMAIN key : key[i] # EmptyChunk

lcm_channel_to_key_expr(channel, prefix) ==
  IF channel = <<>> \/ ~ IsKey(prefix \o channel)
     \/ \E i \in DOMAIN channel : channel[i] \in Reserved
  THEN NoKey
  ELSE prefix \o channel

\* The subscription to prefix/** matches the key; ** also stands for no chunk.
Subscribed(key, prefix) == Chunks!IsPrefix(prefix, key)

\* Mutant: the last chunk of the key, wherever it is.
last_chunk_to_lcm_channel(key, prefix) == <<Chunks!Last(key)>>

\* strip_prefix("prefix/"): at least one chunk is left.
key_expr_to_lcm_channel(key, prefix) ==
  IF Chunks!IsStrictPrefix(prefix, key)
  THEN SubSeq(key, Len(prefix) + 1, Len(key))
  ELSE NoChannel
=============================================================================
