-------------------------- MODULE MCBridgeProcess --------------------------
(* Small instances of BridgeProcess for TLC: see README.md, "Runs".        *)
EXTENDS BridgeProcess, TLC

CONSTANTS c1, c2, p1, g1, i1, h1, eth0, port, pre1, pre2, client, ep

MCUrl(group, params) ==
  [scheme |-> "udpm", group |-> group, port |-> port, params |-> params]
MCPar(k, v) == [key |-> k, value |-> v]

MCDefaultUrl == MCUrl(g1, <<MCPar("ttl", 0)>>)

\* The last of two TTLs counts; a TTL above a byte; no multicast group; no number.
MCUrls ==
  {MCUrl(g1, <<MCPar("ttl", 300), MCPar("ttl", 1), MCPar("recv_buf_size", 7)>>),
   MCUrl(g1, <<MCPar("ttl", 300)>>), MCUrl(h1, <<>>),
   MCUrl(g1, <<MCPar("ttl", Invalid)>>)}

MCAllUrls == MCUrls \cup {MCDefaultUrl}

\* What parse_args must overrule is set otherwise; eth0 is not an address.
MCDefaultFile == [timestamping |-> FALSE]

MCLcm(json) == [mode |-> client, adminspace |-> FALSE, lcm |-> json]

MCFiles ==
  {Err, MCDefaultFile,
   MCLcm("lcm_url" :> MCUrl(g1, <<MCPar("ttl", Invalid)>>)),
   MCLcm([allow |-> {c1}, deny |-> {c2}, network_interface |-> i1]),
   MCLcm([deny |-> Invalid]),
   MCLcm([key_prefix |-> None]),
   MCLcm([key_prefix |-> pre1, allow |-> None, network_interface |-> eth0,
          work_thread_num |-> 3, __path__ |-> p1]),
   MCLcm([work_thread_num |-> 0, key_prefix |-> pre1]),
   MCLcm([unknown |-> 1])}

MCCommandLines ==
  {<<>>, [max_message_size |-> Invalid],
   [mode |-> "peer", connect |-> ep, key_prefix |-> pre2],
   [allow |-> {c2}, max_message_size |-> 5],
   [network_interface |-> h1]}
  \cup {[lcm_url |-> u] : u \in MCUrls}
=============================================================================
