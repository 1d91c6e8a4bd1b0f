---------------------------- MODULE PluginConfig ----------------------------
(***************************************************************************)
(* The plugin's configuration: reading it from JSON and serving it as JSON *)
(* (config.rs), the LCM URL in it (types.rs) and the socket LcmTransport   *)
(* makes of it (multicast.rs).                                             *)
(*                                                                         *)
(* A JSON object is a function from field names to values. A regular       *)
(* expression is the set of channels it matches. An LCM URL is a record    *)
(* [scheme, group, port, params], with params a sequence of [key, value]   *)
(* records. Invalid stands for what does not parse: an address or number   *)
(* of a URL, a regular expression, a value of the wrong JSON type.         *)
(***************************************************************************)
EXTENDS Integers, Sequences

CONSTANTS
  Channels,                 \* channel names
  Urls, Prefixes,           \* the strings given as lcm_url and key_prefix
  InterfaceNames,           \* the strings given as network_interface
  Regexes,                  \* the regular expressions given as allow and deny
  DEFAULT_LCM_URL, DEFAULT_KEY_PREFIX, DEFAULT_MAX_MESSAGE_SIZE,
  DEFAULT_WORK_THREAD_NUM, DEFAULT_MAX_BLOCK_THREAD_NUM,
  None,                     \* Option::None, JSON null
  Invalid,
  Err,                      \* a function returned Err
  Paths,                    \* plugin library paths
  MulticastGroups,          \* the addresses join_multicast_v4 accepts
  Addresses,                \* the strings that are IPv4 addresses
  Interfaces,               \* the host's own addresses
  UNSPECIFIED               \* 0.0.0.0

ASSUME DefaultsAssumption ==
  /\ DEFAULT_LCM_URL \in Urls /\ DEFAULT_KEY_PREFIX \in Prefixes
  /\ DEFAULT_MAX_MESSAGE_SIZE \in Nat
  /\ {DEFAULT_WORK_THREAD_NUM, DEFAULT_MAX_BLOCK_THREAD_NUM} \subseteq Nat \ {0}

\* Among them are ".*" and "", which match every channel.
ASSUME RegexesAssumption == Regexes \subseteq SUBSET Channels /\ Channels \in Regexes

-----------------------------------------------------------------------------
(* Config.                                                                 *)

\* What a field is when the JSON does not have it.
Defaults ==
  [lcm_url |-> DEFAULT_LCM_URL, key_prefix |-> DEFAULT_KEY_PREFIX,
   allow |-> None, deny |-> None, network_interface |-> None,
   max_message_size |-> DEFAULT_MAX_MESSAGE_SIZE,
   work_thread_num |-> DEFAULT_WORK_THREAD_NUM,
   max_block_thread_num |-> DEFAULT_MAX_BLOCK_THREAD_NUM,
   __required__ |-> None, __path__ |-> None]

Fields == DOMAIN Defaults
OptionFields ==
  {"allow", "deny", "network_interface", "__required__", "__path__"}

\* What serde takes for each field, null aside.
JsonTypes ==
  [lcm_url |-> Urls, key_prefix |-> Prefixes,
   allow |-> Regexes, deny |-> Regexes,
   network_interface |-> InterfaceNames, max_message_size |-> Nat,
   work_thread_num |-> Nat, max_block_thread_num |-> Nat,
   __required__ |-> BOOLEAN, __path__ |-> Paths \cup Seq(Paths)]

WellTyped(json) ==
  \A f \in DOMAIN json \cap Fields : json[f] \in {None, Invalid} \cup JsonTypes[f]

\* The struct Config.
Opt(type) == type \cup {None}
Configs ==
  [lcm_url : Urls, key_prefix : Prefixes,
   allow : Opt(Regexes), deny : Opt(Regexes),
   network_interface : Opt(InterfaceNames), max_message_size : Nat,
   work_thread_num : Nat, max_block_thread_num : Nat,
   __required__ : Opt(BOOLEAN), __path__ : Opt(Seq(Paths))]

\* None, Invalid and Err are none of the values they stand beside.
ASSUME OptionsAssumption ==
  /\ None # Invalid
  /\ \A f \in Fields : {None, Invalid} \cap JsonTypes[f] = {}
  /\ {None, Err} \cap Configs = {}
  /\ \A p \in Paths : p \notin Seq(Paths)

\* OptPathVisitor: one path or an array of paths.
deserialize_path(v) == IF v \in Paths THEN <<v>> ELSE v

read(json) ==
  [f \in Fields |-> IF f \notin DOMAIN json THEN Defaults[f]
                   ELSE IF f = "__path__" THEN deserialize_path(json[f])
                   ELSE json[f]]

\* Mutant: null is accepted for every field.
from_value_of_null(json) ==
  IF DOMAIN json \ Fields # {} \/ \E f \in DOMAIN json : json[f] = Invalid
  THEN Err ELSE read(json)

\* serde_json::from_value: a field that is unknown, of the wrong type, null
\* without being an Option, or no regular expression, is an error.
from_value(json) ==
  IF \/ DOMAIN json \ Fields # {}
     \/ \E f \in DOMAIN json : \/ json[f] = Invalid
                               \/ json[f] = None /\ f \notin OptionFields
  THEN Err ELSE read(json)

\* None is served as ".*" and as "", which both match every channel.
serialize_allow(v) == IF v = None THEN Channels ELSE v
serialize_deny(v)  == IF v = None THEN Channels ELSE v

\* serde_json::to_value, as the admin space serves it.
to_value(config) ==
  [config EXCEPT !.allow = serialize_allow(@), !.deny = serialize_deny(@)]

is_allowed(channel, config) ==
  /\ config.allow # None => channel \in config.allow
  /\ config.deny # None => channel \notin config.deny

-----------------------------------------------------------------------------
(* LcmUrl::parse and LcmTransport::new.                                    *)

Params(url, key) == {i \in DOMAIN url.params : url.params[i].key = key}

\* The last occurrence counts; an unknown parameter does not, nor does one
\* without "=".
Param(url, key, default) ==
  IF Params(url, key) = {} THEN default
  ELSE url.params[CHOOSE i \in Params(url, key) :
                    \A j \in Params(url, key) : j <= i].value

LcmUrl_parse(url) ==
  IF \/ url.scheme # "udpm" \/ url.group = Invalid \/ url.port = Invalid
     \/ \E key \in {"ttl", "recv_buf_size"} : \E i \in Params(url, key) :
          url.params[i].value = Invalid
  THEN Err
  ELSE [multicast_group |-> url.group, port |-> url.port,
        ttl |-> Param(url, "ttl", 0),
        recv_buf_size |-> Param(url, "recv_buf_size", None)]

\* parse::<Ipv4Addr>().ok(): what is no address is no interface.
interface_of(config) ==
  IF config.network_interface \in Addresses THEN config.network_interface ELSE None

\* What the config of a plugin makes of the socket, or Err: the TTL is one byte,
\* and the group is joined on the interface. (Everything else the operating
\* system may refuse is left to the module that opens the socket.)
socket_of(url, interface) ==
  IF \/ url.ttl > 255
     \/ url.multicast_group \notin MulticastGroups
     \/ interface \notin Interfaces \cup {None}
  THEN Err
  ELSE [bind |-> url.port, recv_buf_size |-> url.recv_buf_size, ttl |-> url.ttl,
        loop |-> TRUE, group |-> url.multicast_group,
        interface |-> IF interface = None THEN UNSPECIFIED ELSE interface]

ASSUME SocketsAssumption ==
  \A u \in Urls, i \in Interfaces \cup {None} :
    LcmUrl_parse(u) # Err => socket_of(LcmUrl_parse(u), i) # None
=============================================================================
