------------------------- MODULE BridgeConfigProofs -------------------------
(***************************************************************************)
(* What start reads is what the user asked for, and the runtime is the one *)
(* that was asked for first: for every configuration, command line and     *)
(* number of starts.                                                       *)
(***************************************************************************)
EXTENDS BridgeProcessProofs

Accepted(i) == plugin[i] \in {"running", "dropped"}

\* Where main is and what it has made of the user's input. A router has no main.
MainOK ==
  /\ host \in {"bridge", "router"}
  /\ process \in {"args", "build", "start", "up", "exited"}
  /\ host = "router" => process = "up" /\ zenoh = None
  /\ host = "bridge" => args \in CommandLines /\ file \in Files
  /\ process = "args" => zenoh = None
  /\ process = "build" \/ zenoh # None => zenoh = parse_args /\ ~ ParseFails

\* A start that returned Ok has the configuration it was given, and it alone has a
\* run.
ConfigOK ==
  /\ config \in [Starts -> Configs \cup {None}]
  /\ \A i \in Starts :
       /\ Accepted(i) <=> config[i] # None
       /\ run_pc[i] # "none" => config[i] # None
  /\ process = "start" => config[1] # None
  /\ host = "bridge" /\ config[1] # None =>
       /\ process # "args" /\ zenoh = parse_args /\ ~ ParseFails
       /\ config[1] = from_value(zenoh.lcm)

\* A router's starts are made in order, and one of them made the runtime.
RuntimeOK ==
  /\ DOMAIN statics = {"work", "block"}
  /\ tokio_runtime \in {None, Poisoned} \cup RuntimeNumbers
  /\ host = "router" =>
       /\ \A i, j \in Starts : i < j /\ plugin[j] # "none" => plugin[i] # "none"
       /\ tokio_runtime \in RuntimeNumbers <=> \E i \in Starts : config[i] # None
  /\ RuntimeAsFirstAsked

\* Who holds the transport holds the session, and the last one closes the socket.
SocketsOK ==
  /\ socket = [i \in Starts |-> socket[i]]
  /\ \A i \in Starts :
       /\ transport[i] \subseteq session[i]
       /\ socket[i] = None <=> transport[i] = {}

CInv == IInv /\ MainOK /\ ConfigOK /\ RuntimeOK /\ SocketsOK

-----------------------------------------------------------------------------
(* Configurations.                                                         *)

\* The fields, one by one.
LEMMA FieldNames ==
  Fields = {"lcm_url", "key_prefix", "allow", "deny", "network_interface",
            "max_message_size", "work_thread_num", "max_block_thread_num",
            "__required__", "__path__"}
  BY DEF Fields, Defaults

\* The type of a field of Config; only __path__ has another one than in JSON.
FieldType(f) ==
  (IF f = "__path__" THEN Seq(Paths) ELSE JsonTypes[f])
    \cup (IF f \in OptionFields THEN {None} ELSE {})

\* A configuration is a record whose fields have the types PluginConfig gives them.
LEMMA ConfigFields ==
  ASSUME NEW c
  PROVE  c \in Configs <=> c = [f \in Fields |-> c[f]] /\ \A f \in Fields : c[f] \in FieldType(f)
<1>1. ASSUME c \in Configs
      PROVE  c = [f \in Fields |-> c[f]] /\ \A f \in Fields : c[f] \in FieldType(f)
  BY <1>1, FieldNames DEF Configs, FieldType, JsonTypes, OptionFields, Opt
<1>2. ASSUME c = [f \in Fields |-> c[f]], \A f \in Fields : c[f] \in FieldType(f)
      PROVE  c \in Configs
  BY <1>2, FieldNames DEF Configs, FieldType, JsonTypes, OptionFields, Opt
<1> QED
  BY <1>1, <1>2

\* What from_value accepts has the types of Config.
LEMMA FromValueTyped ==
  ASSUME NEW json, WellTyped(json), from_value(json) # Err
  PROVE  from_value(json) = read(json) /\ read(json) \in Configs
<1>1. /\ from_value(json) = read(json)
      /\ DOMAIN json \subseteq Fields
      /\ \A f \in DOMAIN json : json[f] # Invalid /\ (json[f] = None => f \in OptionFields)
  BY DEF from_value
<1>2. ASSUME NEW f \in Fields
      PROVE  read(json)[f] \in FieldType(f)
  <2>1. Defaults[f] \in FieldType(f)
    BY <1>2, FieldNames, DefaultsAssumption DEF Defaults, FieldType, JsonTypes, OptionFields
  <2>2. ASSUME f \in DOMAIN json
        PROVE  /\ f # "__path__" => json[f] \in FieldType(f)
               /\ f = "__path__" => deserialize_path(json[f]) \in FieldType(f)
    <3>1. json[f] \in JsonTypes[f] \/ (json[f] = None /\ f \in OptionFields)
      BY <1>1, <1>2, <2>2 DEF WellTyped
    <3>2. CASE f # "__path__"
      BY <3>1, <3>2 DEF FieldType
    <3>3. CASE f = "__path__"
      <4>1. json[f] \in Paths \/ json[f] \in Seq(Paths) \cup {None}
        BY <3>1, <3>3 DEF JsonTypes
      <4>2. FieldType(f) = Seq(Paths) \cup {None}
        BY <3>3 DEF FieldType, OptionFields
      <4>3. \A p \in Paths : <<p>> \in Seq(Paths)
        OBVIOUS
      <4> QED
        BY <3>3, <4>1, <4>2, <4>3 DEF deserialize_path
    <3> QED
      BY <3>2, <3>3
  <2> QED
    BY <2>1, <2>2 DEF read
<1>3. read(json) = [f \in Fields |-> read(json)[f]]
  BY DEF read
<1> QED
  BY <1>1, <1>2, <1>3, ConfigFields

\* The numbers of a configuration.
LEMMA ConfigNumbers ==
  ASSUME NEW c \in Configs
  PROVE  /\ Numbers(c) \in [work : Nat, block : Nat]
         /\ 0 \notin {Numbers(c).work, Numbers(c).block} => Numbers(c) \in RuntimeNumbers
  BY DEF Configs, Numbers, RuntimeNumbers

\* None, Invalid and a path stand for no value of Config.
LEMMA ConfigDistinct ==
  ASSUME NEW c \in Configs, NEW f \in Fields
  PROVE  c[f] # Invalid /\ (c[f] = None => f \in OptionFields) /\ c["__path__"] \notin Paths
<1>1. c[f] \in FieldType(f) /\ c["__path__"] \in FieldType("__path__")
  BY ConfigFields, FieldNames
<1>2. c[f] # Invalid /\ (c[f] = None => f \in OptionFields)
  BY <1>1, OptionsAssumption, FieldNames DEF FieldType, JsonTypes
<1>3. c["__path__"] \notin Paths
  <2>1. c["__path__"] \in Seq(Paths) \cup {None}
    BY <1>1 DEF FieldType, OptionFields
  <2>2. None \notin Paths
    BY OptionsAssumption, FieldNames DEF JsonTypes
  <2> QED
    BY <2>1, <2>2, OptionsAssumption
<1> QED
  BY <1>2, <1>3

-----------------------------------------------------------------------------
(* What parse_args makes of the file and the command line.                 *)

\* The plugin's part of it: the options over the file's section, if it has one.
LEMMA LcmSection ==
  ASSUME args \in CommandLines, file \in Files \ {Err}
  PROVE  LET section == IF "lcm" \in DOMAIN file THEN file.lcm ELSE <<>> IN
         /\ DOMAIN parse_args.lcm = DOMAIN section \cup (LcmOptions \cap DOMAIN args)
         /\ \A f \in DOMAIN parse_args.lcm :
              parse_args.lcm[f] = IF f \in LcmOptions \cap DOMAIN args THEN args[f]
                                  ELSE section[f]
<1> DEFINE section == IF "lcm" \in DOMAIN file THEN file.lcm ELSE <<>>
           base == [k \in DOMAIN file \cup {"lcm"} |-> IF k \in DOMAIN file THEN file[k] ELSE <<>>]
<1>1. base.lcm = section
  OBVIOUS
<1>2. "lcm" \in DOMAIN Over(base, ZenohOptions)
  BY DEF Over
<1>3. parse_args.lcm = Over(base.lcm, LcmOptions)
  BY <1>2 DEF parse_args, Enabled
<1>4. Over(section, LcmOptions) =
        [k \in DOMAIN section \cup (LcmOptions \cap DOMAIN args) |->
           IF k \in LcmOptions \cap DOMAIN args THEN args[k] ELSE section[k]]
  BY DEF Over, Given, value_of
<1> HIDE DEF section, base
<1>5. parse_args.lcm =
        [k \in DOMAIN section \cup (LcmOptions \cap DOMAIN args) |->
           IF k \in LcmOptions \cap DOMAIN args THEN args[k] ELSE section[k]]
  BY <1>1, <1>3, <1>4
<1> QED
  BY <1>5 DEF section

\* The rest of it, for Zenoh.
LEMMA ZenohSection ==
  ASSUME file \in Files \ {Err}, NEW k, k \notin Enabled \cup {"lcm"},
         k \in DOMAIN file \cup (ZenohOptions \cap DOMAIN args)
  PROVE  parse_args[k] = IF k \in ZenohOptions \cap DOMAIN args THEN args[k] ELSE file[k]
<1> DEFINE base == [x \in DOMAIN file \cup {"lcm"} |-> IF x \in DOMAIN file THEN file[x] ELSE <<>>]
           over == Over(base, ZenohOptions)
<1>1. /\ DOMAIN over = DOMAIN base \cup (ZenohOptions \cap DOMAIN args)
      /\ over[k] = IF k \in ZenohOptions \cap DOMAIN args THEN args[k] ELSE base[k]
  BY DEF Over, Given, value_of
<1>2. k \in DOMAIN over
  BY <1>1
<1>3. parse_args[k] = over[k]
  <2>1. parse_args =
          [x \in DOMAIN over \cup Enabled |->
             IF x \in Enabled THEN TRUE
             ELSE IF x = "lcm" THEN Over(base.lcm, LcmOptions) ELSE over[x]]
    BY DEF parse_args
  <2> HIDE DEF over
  <2> QED
    BY <1>2, <2>1
<1> QED
  BY <1>1, <1>3

\* What main adds to the section of the file has the types of the command line.
LEMMA LcmSectionTyped ==
  ASSUME args \in CommandLines, file \in Files \ {Err}
  PROVE  WellTyped(parse_args.lcm)
<1> DEFINE section == IF "lcm" \in DOMAIN file THEN file.lcm ELSE <<>>
<1>1. WellTyped(section) /\ WellTyped(args)
  BY InputsAssumption DEF WellTyped
<1> HIDE DEF section
<1> SUFFICES ASSUME NEW f \in DOMAIN parse_args.lcm \cap Fields
             PROVE  parse_args.lcm[f] \in {None, Invalid} \cup JsonTypes[f]
  BY DEF WellTyped
<1>2. /\ f \in DOMAIN section \/ f \in DOMAIN args
      /\ parse_args.lcm[f] = IF f \in LcmOptions \cap DOMAIN args THEN args[f] ELSE section[f]
      /\ f \notin LcmOptions \cap DOMAIN args => f \in DOMAIN section
  BY LcmSection DEF section
<1> QED
  BY <1>1, <1>2 DEF WellTyped

\* What the plugin reads of it is what was asked for.
LEMMA ReadAsAsked ==
  ASSUME args \in CommandLines, file \in Files \ {Err}, NEW f \in Fields \ {"__path__"}
  PROVE  read(parse_args.lcm)[f] = Asked(f)
<1>1. f \in DOMAIN args => f \in LcmOptions
  BY InputsAssumption, FieldNames DEF ZenohOptions, LcmOptions
<1>2. read(parse_args.lcm)[f] =
        IF f \notin DOMAIN parse_args.lcm THEN Defaults[f] ELSE parse_args.lcm[f]
  BY DEF read
<1>3. f \in LcmOptions \cap DOMAIN args => parse_args.lcm[f] = args[f] /\ f \in DOMAIN parse_args.lcm
  BY LcmSection
<1>4. f \notin DOMAIN args =>
        IF "lcm" \in DOMAIN file /\ f \in DOMAIN file.lcm
        THEN f \in DOMAIN parse_args.lcm /\ parse_args.lcm[f] = file.lcm[f]
        ELSE f \notin DOMAIN parse_args.lcm
  BY LcmSection
<1> QED
  BY <1>1, <1>2, <1>3, <1>4 DEF Asked

\* It depends on nothing else.
LEMMA ParseUnchanged ==
  ASSUME args' = args, file' = file
  PROVE  /\ parse_args' = parse_args /\ (ParseFails <=> ParseFails')
         /\ \A f : Asked(f)' = Asked(f)
  BY DEF parse_args, ParseFails, Over, Given, value_of, Asked

-----------------------------------------------------------------------------
(* The invariant.                                                          *)

\* At the start nothing is asked, accepted or open.
LEMMA InitCInv == Init => CInv
<1> SUFFICES ASSUME Init
             PROVE  CInv
  OBVIOUS
<1>1. MainOK /\ SocketsOK
  BY DEF Init, MainOK, SocketsOK
<1>2. ConfigOK
  BY StartsAssumption DEF Init, ConfigOK, Accepted
<1>3. RuntimeOK
  BY RuntimesAssumption DEF Init, RuntimeOK, RuntimeAsFirstAsked, Numbers
<1> QED
  BY <1>1, <1>2, <1>3, InitIInv DEF CInv

\* What a start leaves behind, whatever comes of it. A router's start follows on
\* starts that are over.
LEMMA StartOutcome ==
  ASSUME CInv, NEW i \in Starts, NEW json, json = None \/ WellTyped(json),
         Start(i, json), host' = host,
         host = "router" => \A j \in Starts : j < i => plugin[j] \notin {"none", "running"}
  PROVE  /\ config' \in [Starts -> Configs \cup {None}]
         /\ \A j \in Starts : Accepted(j)' <=> config'[j] # None
         /\ \A j \in Starts : run_pc'[j] # "none" => config'[j] # None
         /\ \A j \in Starts : j # i => config'[j] = config[j]
         /\ config'[i] # None => config'[i] = from_value(json)
         /\ RuntimeOK' /\ SocketsOK'
<1> DEFINE c == IF json = None THEN Err ELSE from_value(json)
<1>1. /\ plugin[i] = "none" /\ config[i] = None
      /\ plugin \in [Starts -> {"none", "running", "refused", "panicked", "dropped"}]
      /\ config \in [Starts -> Configs \cup {None}]
      /\ \A j \in Starts : plugin[j] \in {"running", "dropped"} <=> config[j] # None
  BY DEF CInv, IInv, Types, ConfigOK, Accepted, Start
<1>2. SocketsOK'
  BY DEF Start, CInv, SocketsOK
<1>0. \A j \in Starts : run_pc'[j] # "none" => config'[j] # None
  <2>1. run_pc \in [Starts -> {"none", "session", "open", "spawn", "serving", "ended"}]
        /\ \A j \in Starts : run_pc[j] # "none" => config[j] # None
    BY DEF CInv, IInv, Types, ConfigOK
  <2>2. \/ run_pc' = run_pc /\ config' = config
        \/ /\ run_pc' = [run_pc EXCEPT ![i] = "session"]
           /\ config' = [config EXCEPT ![i] = c] /\ c # None
    <3>1. c # Err => c # None
      BY FromValueTyped, OptionsAssumption
    <3> HIDE DEF c
    <3>2. \/ run_pc' = run_pc /\ config' = config
          \/ c # Err /\ config' = [config EXCEPT ![i] = c]
             /\ run_pc' = [run_pc EXCEPT ![i] = "session"]
      BY DEF Start, c
    <3> QED
      BY <3>1, <3>2
  <2> HIDE DEF c
  <2> QED
    BY <1>1, <2>1, <2>2
<1>3. CASE c = Err
  <2>1. /\ plugin' = [plugin EXCEPT ![i] = "refused"]
        /\ UNCHANGED <<statics, tokio_runtime, config>>
    BY <1>3 DEF Start
  <2>2. \A j \in Starts : Accepted(j)' <=> config'[j] # None
    BY <1>1, <2>1 DEF Accepted
  <2>3. RuntimeOK'
    <3>1. host = "router" =>
            \A j, k \in Starts : j < k /\ plugin'[k] # "none" => plugin'[j] # "none"
      BY <1>1, <2>1 DEF CInv, RuntimeOK
    <3> QED
      BY <2>1, <3>1 DEF CInv, RuntimeOK, RuntimeAsFirstAsked, Numbers
  <2> QED
    BY <1>0, <1>1, <1>2, <2>1, <2>2, <2>3
<1>4. CASE c # Err
  <2>1. json # None /\ c = from_value(json) /\ c \in Configs /\ c # None
    BY <1>4, FromValueTyped, OptionsAssumption
  <2> HIDE DEF c
  <2>2. /\ statics' = Numbers(c) /\ tokio_runtime' = spawn_runtime(c)
        /\ IF tokio_runtime' = Poisoned
           THEN plugin' = [plugin EXCEPT ![i] = "panicked"] /\ config' = config
           ELSE plugin' = [plugin EXCEPT ![i] = "running"] /\ config' = [config EXCEPT ![i] = c]
    BY <1>4 DEF Start, c
  <2>3. DOMAIN statics' = {"work", "block"}
    BY <2>2 DEF Numbers
  <2>4. \A j \in Starts : Accepted(j)' <=> config'[j] # None
    BY <1>1, <2>1, <2>2 DEF Accepted
  <2>5. /\ config' \in [Starts -> Configs \cup {None}]
        /\ \A j \in Starts : j # i => config'[j] = config[j]
        /\ config'[i] # None => config'[i] = c
    BY <1>1, <2>1, <2>2
  <2>6. CASE host = "bridge"
    <3>1. tokio_runtime' = tokio_runtime
      BY <2>2, <2>6 DEF spawn_runtime
    <3> QED
      BY <1>0, <1>2, <2>1, <2>3, <2>4, <2>5, <2>6, <3>1 DEF CInv, RuntimeOK, RuntimeAsFirstAsked
  <2>7. CASE host = "router"
    <3> DEFINE r == tokio_runtime
               q == tokio_runtime'
               n == Numbers(c)
    <3>1. /\ \A j, k \in Starts : j < k /\ plugin[k] # "none" => plugin[j] # "none"
          /\ r \in {None, Poisoned} \cup RuntimeNumbers
          /\ r \in RuntimeNumbers <=> \E j \in Starts : config[j] # None
          /\ \A j \in Starts : config[j] # None /\ (\A k \in Starts : k < j => config[k] = None)
                                 => r = Numbers(config[j])
      BY <2>7 DEF CInv, RuntimeOK, RuntimeAsFirstAsked
    <3>2. /\ r = None => q = IF 0 \in {n.work, n.block} THEN Poisoned ELSE n
          /\ r # None => q = r
      BY <2>2, <2>7 DEF spawn_runtime, FirstUse
    <3>3. 0 \notin {n.work, n.block} => n \in RuntimeNumbers
      BY <2>1, ConfigNumbers
    <3>4. \A j, k \in Starts : j < k /\ plugin'[k] # "none" => plugin'[j] # "none"
      BY <1>1, <2>2, <2>7, <3>1
    <3>5. \A j \in Starts : i < j => config[j] = None
      BY <1>1, <3>1
    <3> HIDE DEF r, q, n
    <3>6. CASE q = Poisoned
      <4>1. r \notin RuntimeNumbers /\ q \notin RuntimeNumbers /\ config' = config
        BY <2>2, <3>2, <3>3, <3>6, RuntimesAssumption DEF q
      <4>2. \A j \in Starts : config'[j] = None
        BY <3>1, <4>1
      <4> QED
        BY <1>0, <1>2, <2>1, <2>3, <2>4, <2>5, <3>4, <3>6, <4>1, <4>2
        DEF RuntimeOK, RuntimeAsFirstAsked, q
    <3>7. CASE q # Poisoned
      <4>1. config' = [config EXCEPT ![i] = c] /\ config'[i] # None
        BY <1>1, <2>1, <2>2, <3>7 DEF q
      <4>2. q \in RuntimeNumbers
        BY <3>1, <3>2, <3>3, <3>7
      <4>3. ASSUME NEW j \in Starts, config'[j] # None, \A k \in Starts : k < j => config'[k] = None
            PROVE  q = Numbers(config'[j])
        <5>1. CASE j = i
          <6>1. \A k \in Starts : config[k] = None
            BY <1>1, <2>5, <3>5, <4>3, <5>1, StartsAssumption
          <6>2. r = None
            BY <3>1, <3>2, <3>7, <6>1
          <6> QED
            BY <1>1, <3>2, <3>7, <4>1, <5>1, <6>2 DEF n
        <5>2. CASE j # i
          <6>1. config[j] # None /\ r \in RuntimeNumbers
            BY <2>5, <3>1, <4>3, <5>2
          <6>2. ~ (i < j)
            BY <3>5, <6>1
          <6>3. \A k \in Starts : k < j => config[k] = None
            BY <2>5, <4>3, <6>2
          <6> QED
            BY <2>5, <3>1, <3>2, <5>2, <6>1, <6>3, RuntimesAssumption
        <5> QED
          BY <5>1, <5>2
      <4> QED
        BY <1>0, <1>2, <2>1, <2>3, <2>4, <2>5, <3>4, <4>1, <4>2, <4>3
        DEF RuntimeOK, RuntimeAsFirstAsked, q
    <3> QED
      BY <1>0, <1>2, <2>1, <2>4, <2>5, <3>6, <3>7
  <2> QED
    BY <2>6, <2>7 DEF CInv, MainOK
<1> QED
  BY <1>0, <1>3, <1>4

\* A step that leaves main's and start's variables alone, as every step of a run
\* and of a task does, only has to see to the socket.
LEMMA RunStepCInv ==
  ASSUME CInv, IInv', SocketsOK', UNCHANGED <<main_vars, start_vars>>,
         \A i \in Starts : run_pc'[i] # "none" => run_pc[i] # "none"
  PROVE  CInv'
<1>1. MainOK'
  <2>1. parse_args' = parse_args /\ (ParseFails <=> ParseFails')
    BY ParseUnchanged DEF main_vars
  <2> QED
    BY <2>1 DEF CInv, MainOK, main_vars
<1>2. ConfigOK'
  <2>1. parse_args' = parse_args /\ (ParseFails <=> ParseFails')
    BY ParseUnchanged DEF main_vars
  <2> QED
    BY <2>1 DEF CInv, ConfigOK, Accepted, main_vars, start_vars
<1>3. RuntimeOK'
  BY DEF CInv, RuntimeOK, RuntimeAsFirstAsked, Numbers, main_vars, start_vars
<1> QED
  BY <1>1, <1>2, <1>3 DEF CInv

\* The socket opens with the transport and closes with its last holder.
LEMMA RunSockets ==
  ASSUME CInv, NEW i \in Starts, Run(i)
  PROVE  SocketsOK'
<1>0. /\ session \in [Starts -> SUBSET Holders] /\ transport \in [Starts -> SUBSET Holders]
      /\ socket = [j \in Starts |-> socket[j]]
      /\ \A j \in Starts : transport[j] \subseteq session[j] /\ (socket[j] = None <=> transport[j] = {})
      /\ NoOrphan(i)
  BY DEF CInv, IInv, Types, SocketsOK
<1> USE DEF SocketsOK, Acquire
<1>1. ASSUME RunFails(i) \/ RunStops(i)
      PROVE  SocketsOK'
  BY <1>0, <1>1 DEF RunFails, RunStops, Release
<1>2. CASE RunSession(i)
  BY <1>0, <1>2, <1>1 DEF RunSession, Inits
<1>3. CASE RunOpen(i)
  <2>1. CASE RunFails(i)
    BY <2>1, <1>1
  <2>2. CASE Opens(i)
    <3> DEFINE url == LcmUrl_parse(config[i].lcm_url)
               s == socket_of(url, interface_of(config[i]))
    <3>1. /\ url # Err /\ s # Err /\ socket' = [socket EXCEPT ![i] = s]
          /\ transport' = [transport EXCEPT ![i] = @ \cup {"run"}]
          /\ session' = session
      BY <2>2 DEF Opens
    <3>2. config[i] \in Configs
      <4>1. run_pc[i] = "open" /\ "run" \in session[i]
        BY <1>0, <1>3 DEF RunOpen, NoOrphan
      <4>2. config[i] # None
        BY <4>1 DEF CInv, ConfigOK
      <4> QED
        BY <4>2 DEF CInv, ConfigOK
    <3>3. config[i].lcm_url \in Urls
      BY <3>2 DEF Configs
    <3>4. interface_of(config[i]) \in Interfaces \cup {None}
      BY <3>1 DEF socket_of
    <3>5. s # None
      BY <3>1, <3>3, <3>4, SocketsAssumption
    <3>6. "run" \in session[i]
      BY <1>0, <1>3 DEF RunOpen, NoOrphan
    <3> HIDE DEF s, url
    <3> QED
      BY <1>0, <3>1, <3>5, <3>6
  <2> QED
    BY <1>3, <2>1, <2>2 DEF RunOpen
<1>4. CASE RunSpawn(i)
  BY <1>0, <1>4 DEF RunSpawn, NoOrphan
<1>5. CASE RunStops(i)
  BY <1>1, <1>5
<1> QED
  BY <1>2, <1>3, <1>4, <1>5 DEF Run

\* One step of a run touches neither main nor the starts.
LEMMA RunCInv ==
  ASSUME CInv, NEW i \in Starts, Run(i)
  PROVE  CInv'
<1>1. IInv'
  BY RunIInv DEF CInv
<1>2. UNCHANGED <<main_vars, start_vars>>
  BY DEF Run
<1>3. \A j \in Starts : run_pc'[j] # "none" => run_pc[j] # "none"
  BY DEF Run, RunSession, Inits, RunOpen, Opens, RunSpawn, RunStops, RunFails, Goes,
         CInv, IInv, Types
<1> QED
  BY <1>1, <1>2, <1>3, RunSockets, RunStepCInv

\* A task that ends may give up its socket.
LEMMA TaskEndsCInv ==
  ASSUME CInv, NEW i \in Starts, NEW t \in Tasks, TaskEnds(i, t),
         UNCHANGED <<main_vars, start_vars>>
  PROVE  CInv'
<1>1. IInv'
  BY TaskEndsIInv DEF CInv
<1>2. SocketsOK'
  BY DEF TaskEnds, Release, CInv, IInv, Types, SocketsOK
<1>3. run_pc' = run_pc
  BY DEF TaskEnds
<1> QED
  BY <1>1, <1>2, <1>3, RunStepCInv

\* A process that exits takes its run along, and leaves no socket open.
LEMMA RuntimeStartCInv ==
  ASSUME CInv, RuntimeStart
  PROVE  CInv'
<1>1. IInv'
  BY RuntimeStartIInv DEF CInv
<1>2. parse_args' = parse_args /\ (ParseFails <=> ParseFails')
  BY ParseUnchanged DEF RuntimeStart
<1>3. MainOK'
  BY <1>2 DEF RuntimeStart, CInv, MainOK
<1>4. ConfigOK'
  BY <1>2, StartsAssumption
  DEF RuntimeStart, CInv, IInv, Types, ConfigOK, Accepted, start_vars, run_vars
<1>5. RuntimeOK'
  BY DEF RuntimeStart, CInv, RuntimeOK, RuntimeAsFirstAsked, Numbers, start_vars
<1>6. SocketsOK'
  BY StartsAssumption DEF RuntimeStart, CInv, IInv, Types, SocketsOK, run_vars
<1> QED
  BY <1>1, <1>3, <1>4, <1>5, <1>6 DEF CInv

\* The bridge starts the plugin with the section it made.
LEMMA BuildCInv ==
  ASSUME CInv, Build
  PROVE  CInv'
<1>1. IInv' /\ host' = host /\ args' = args /\ file' = file /\ zenoh' = zenoh
      /\ process = "build" /\ host = "bridge"
  BY NextIInv DEF CInv, MainOK, Build, Next
<1>2. parse_args' = parse_args /\ (ParseFails <=> ParseFails')
  BY <1>1, ParseUnchanged
<1>3. zenoh = parse_args /\ ~ ParseFails /\ args \in CommandLines /\ file \in Files
  BY <1>1 DEF CInv, MainOK
<1>4. CASE Start(1, zenoh.lcm) /\ process' = IF plugin'[1] = "running" THEN "start" ELSE "exited"
  <2>1. WellTyped(zenoh.lcm)
    BY <1>3, LcmSectionTyped DEF ParseFails
  <2>2. /\ config' \in [Starts -> Configs \cup {None}]
        /\ \A j \in Starts : Accepted(j)' <=> config'[j] # None
        /\ \A j \in Starts : run_pc'[j] # "none" => config'[j] # None
        /\ config'[1] # None => config'[1] = from_value(zenoh.lcm)
        /\ RuntimeOK' /\ SocketsOK'
    BY <1>1, <1>4, <2>1, StartOutcome, StartsAssumption
  <2>3. process' = "start" => config'[1] # None
    BY <1>4, <2>2, StartsAssumption DEF Accepted
  <2>4. MainOK'
    BY <1>1, <1>2, <1>3, <1>4 DEF CInv, MainOK
  <2>5. ConfigOK'
    BY <1>1, <1>2, <1>3, <1>4, <2>2, <2>3 DEF ConfigOK
  <2> QED
    BY <1>1, <2>2, <2>4, <2>5 DEF CInv
<1>5. CASE process' = "exited" /\ UNCHANGED <<start_vars, run_vars>>
  <2>1. MainOK'
    BY <1>1, <1>2, <1>3, <1>5 DEF CInv, MainOK
  <2>2. ConfigOK'
    BY <1>1, <1>2, <1>3, <1>5 DEF CInv, ConfigOK, Accepted, start_vars, run_vars
  <2>3. RuntimeOK' /\ SocketsOK'
    BY <1>1, <1>5
    DEF CInv, RuntimeOK, RuntimeAsFirstAsked, Numbers, SocketsOK, start_vars, run_vars
  <2> QED
    BY <1>1, <2>1, <2>2, <2>3 DEF CInv
<1> QED
  BY <1>4, <1>5 DEF Build

\* A router asks with the section as its file has it.
LEMMA RouterStartsCInv ==
  ASSUME CInv, NEW i \in Starts, RouterStarts(i)
  PROVE  CInv'
<1>1. PICK f \in Files \ {Err} : Start(i, IF "lcm" \in DOMAIN f THEN f.lcm ELSE None)
  BY DEF RouterStarts
<1> DEFINE json == IF "lcm" \in DOMAIN f THEN f.lcm ELSE None
<1>2. json = None \/ WellTyped(json)
  BY InputsAssumption
<1>3. Start(i, json)
  BY <1>1
<1> HIDE DEF json
<1>4. /\ host = "router" /\ UNCHANGED main_vars
      /\ \A j \in Starts : j < i => plugin[j] \notin {"none", "running"}
  BY DEF RouterStarts
<1>5. /\ config' \in [Starts -> Configs \cup {None}]
      /\ \A j \in Starts : Accepted(j)' <=> config'[j] # None
      /\ \A j \in Starts : run_pc'[j] # "none" => config'[j] # None
      /\ RuntimeOK' /\ SocketsOK'
  BY <1>2, <1>3, <1>4, StartOutcome DEF main_vars
<1>6. IInv'
  BY NextIInv DEF CInv, Next
<1>7. MainOK'
  BY <1>4 DEF CInv, MainOK, main_vars
<1>8. ConfigOK'
  BY <1>4, <1>5, <1>7 DEF ConfigOK, MainOK, main_vars
<1> QED
  BY <1>5, <1>6, <1>7, <1>8 DEF CInv

\* One step per action of Next.
LEMMA NextCInv == CInv /\ [Next]_vars => CInv'
<1> SUFFICES ASSUME CInv, [Next]_vars
             PROVE  CInv'
  OBVIOUS
<1>1. CASE ParseArgs
  <2>1. /\ IInv' /\ UNCHANGED <<host, args, file, start_vars, run_vars>>
        /\ process = "args" /\ host = "bridge"
    BY <1>1, NextIInv DEF CInv, MainOK, ParseArgs, Next
  <2>2. parse_args' = parse_args /\ (ParseFails <=> ParseFails')
    BY <2>1, ParseUnchanged
  <2>3. MainOK'
    BY <1>1, <2>1, <2>2 DEF ParseArgs, CInv, MainOK
  <2>4. ConfigOK'
    BY <1>1, <2>1, <2>2 DEF ParseArgs, CInv, ConfigOK, Accepted, start_vars, run_vars
  <2>5. RuntimeOK' /\ SocketsOK'
    BY <2>1 DEF CInv, RuntimeOK, RuntimeAsFirstAsked, Numbers, SocketsOK, start_vars, run_vars
  <2> QED
    BY <2>1, <2>3, <2>4, <2>5 DEF CInv
<1>2. CASE Build
  BY <1>2, BuildCInv
<1>3. CASE RuntimeStart
  BY <1>3, RuntimeStartCInv
<1>4. ASSUME NEW i \in Starts, RouterStarts(i)
      PROVE  CInv'
  BY <1>4, RouterStartsCInv
<1>5. ASSUME NEW i \in Starts, RouterDrops(i)
      PROVE  CInv'
  <2>1. IInv' /\ UNCHANGED <<main_vars, statics, tokio_runtime, config, run_vars>>
    BY <1>5, NextIInv DEF CInv, RouterDrops, Next
  <2>2. plugin' = [plugin EXCEPT ![i] = "dropped"] /\ plugin[i] = "running" /\ host = "router"
    BY <1>5 DEF RouterDrops
  <2>3. MainOK'
    BY <2>1, <2>2 DEF CInv, MainOK, main_vars
  <2>4. ConfigOK'
    BY <2>1, <2>2 DEF CInv, IInv, Types, ConfigOK, Accepted, main_vars, run_vars
  <2>5. RuntimeOK'
    BY <2>1, <2>2 DEF CInv, IInv, Types, RuntimeOK, RuntimeAsFirstAsked, Numbers, main_vars
  <2>6. SocketsOK'
    BY <2>1 DEF CInv, SocketsOK, run_vars
  <2> QED
    BY <2>1, <2>3, <2>4, <2>5, <2>6 DEF CInv
<1>6. ASSUME NEW i \in Starts, Run(i)
      PROVE  CInv'
  BY <1>6, RunCInv
<1>7. ASSUME NEW i \in Starts, Z2lReturns(i), UNCHANGED <<main_vars, start_vars>>
      PROVE  CInv'
  BY <1>7, TaskEndsCInv DEF Z2lReturns, Tasks
<1>8. ASSUME NEW i \in Starts, NEW t \in Tasks, Cancelled(i, t)
      PROVE  CInv'
  BY <1>8, TaskEndsCInv DEF Cancelled, TaskCancelled
<1>9. CASE UNCHANGED vars
  <2>1. IInv' /\ UNCHANGED <<main_vars, start_vars, run_vars>>
    BY <1>9, NextIInv DEF CInv, vars
  <2>2. SocketsOK'
    BY <2>1 DEF CInv, SocketsOK, run_vars
  <2> QED
    BY <2>1, <2>2, RunStepCInv DEF run_vars
<1> QED
  BY <1>1, <1>2, <1>3, <1>4, <1>5, <1>6, <1>7, <1>8, <1>9 DEF Next

\* The invariant of this module, in every reachable state.
LEMMA CInvAlways == Spec => []CInv
  BY InitCInv, NextCInv, PTL DEF Spec

-----------------------------------------------------------------------------
(* What follows from it.                                                   *)

\* lib.rs:73-207, config.rs:12-51: every variable has its type; no runtime that
\* exists was asked for with a number of 0, and a socket is open exactly while
\* somebody holds its transport.
THEOREM TypeCorrect == Spec => []TypeOK
<1>1. CInv => TypeOK
  <2> SUFFICES ASSUME CInv
               PROVE  TypeOK
    OBVIOUS
  <2>1. process \in {"args", "build", "start", "up", "exited"}
    BY DEF CInv, MainOK
  <2>2. DOMAIN statics = {"work", "block"} /\ tokio_runtime \in {None, Poisoned} \cup RuntimeNumbers
    BY DEF CInv, RuntimeOK
  <2> QED
    BY <2>1, <2>2 DEF CInv, IInv, Types, ConfigOK, Accepted, SocketsOK, TypeOK
<1> QED
  BY <1>1, CInvAlways, PTL

\* main.rs:106-181: each setting that start reads, and each that goes to Zenoh, is
\* the one of the command line, or else the file's, or else the default.
THEOREM ConfiguredAlways == Spec => []ConfiguredAsAsked
<1>1. CInv => ConfiguredAsAsked
  <2> SUFFICES ASSUME CInv
               PROVE  ConfiguredAsAsked
    OBVIOUS
  <2>1. ASSUME host = "bridge", config[1] # None, NEW f \in Fields \ {"__path__"}
        PROVE  config[1][f] = Asked(f)
    <3>1. /\ args \in CommandLines /\ file \in Files \ {Err}
          /\ config[1] = from_value(parse_args.lcm) /\ config[1] # Err
      BY <2>1, StartsAssumption, OptionsAssumption DEF CInv, MainOK, ConfigOK, ParseFails
    <3>2. config[1] = read(parse_args.lcm)
      BY <3>1 DEF from_value
    <3> QED
      BY <3>1, <3>2, ReadAsAsked
  <2>2. ASSUME zenoh # None, NEW k \in DOMAIN file \cup (ZenohOptions \cap DOMAIN args),
               k \notin Enabled \cup {"lcm"}
        PROVE  zenoh[k] = IF k \in DOMAIN args THEN args[k] ELSE file[k]
    <3>1. /\ zenoh = parse_args /\ args \in CommandLines /\ file \in Files \ {Err}
      BY <2>2 DEF CInv, MainOK, ParseFails
    <3>2. k \in DOMAIN args => k \in ZenohOptions
      BY <2>2, <3>1, InputsAssumption
    <3> QED
      BY <2>2, <3>1, <3>2, ZenohSection
  <2> QED
    BY <2>1, <2>2 DEF ConfiguredAsAsked
<1> QED
  BY <1>1, CInvAlways, PTL

\* lib.rs:31-40 and 86-92: the runtime of a router's plugin is as its first
\* accepted start asked, however often it is started and stopped.
THEOREM RuntimeAlwaysAsFirstAsked == Spec => []RuntimeAsFirstAsked
<1>1. CInv => RuntimeAsFirstAsked
  BY DEF CInv, RuntimeOK
<1> QED
  BY <1>1, CInvAlways, PTL
=============================================================================
