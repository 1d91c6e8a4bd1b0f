--------------------------- MODULE BridgeProcess ---------------------------
(***************************************************************************)
(* The life of the plugin (lib.rs) in one process: the stand-alone bridge  *)
(* (main.rs), which makes its configuration from a file and the command    *)
(* line and starts the plugin once, or a Zenoh router, which may drop it   *)
(* and start it again with other settings.                                 *)
(*                                                                         *)
(* Each start spawns a run, which opens the session and the transport and  *)
(* spawns the two bridge tasks; all three go on independently of the       *)
(* RunningPlugin that start returned, until that is dropped. What the      *)
(* tasks do while they relay is Bridge.                                    *)
(***************************************************************************)
EXTENDS PluginConfig

CONSTANTS
  Files,         \* Zenoh configurations: functions from keys to values; Err: unreadable
  DefaultFile,   \* the one used when no file is given
  CommandLines,  \* functions from the options given to their values
  Starts,        \* bound: plugin starts in one process, 1 .. n
  Poisoned       \* TOKIO_RUNTIME: its initialisation has panicked

ASSUME StartsAssumption == Starts \subseteq Nat /\ 1 \in Starts

ZenohOptions ==
  {"id", "mode", "connect", "listen", "multicast_scouting", "rest_http_port"}
LcmOptions ==
  {"lcm_url", "key_prefix", "allow", "deny", "network_interface", "max_message_size"}

\* A Zenoh configuration keeps the plugin's settings under "lcm", and nowhere
\* else; clap accepts only the options it was given.
ASSUME InputsAssumption ==
  /\ \A f \in Files \ {Err} :
       /\ DOMAIN f \cap LcmOptions = {}
       /\ "lcm" \in DOMAIN f => WellTyped(f.lcm)
  /\ \A a \in CommandLines : DOMAIN a \subseteq ZenohOptions \cup LcmOptions /\ WellTyped(a)

\* A runtime that exists has been built with positive numbers.
RuntimeNumbers == [work : Nat \ {0}, block : Nat \ {0}]
ASSUME RuntimesAssumption ==
  None # Poisoned /\ {None, Poisoned} \cap RuntimeNumbers = {}

Tasks == {"l2z", "z2l"}
Holders == Tasks \cup {"run"}

VARIABLES
  host,           \* "bridge" or "router"
  args, file,     \* what the user asked for
  process,        \* where main is
  zenoh,          \* the Zenoh configuration main builds the runtime with
  statics,        \* WORK_THREAD_NUM and MAX_BLOCK_THREAD_NUM
  tokio_runtime,  \* TOKIO_RUNTIME: None until it is first used
  plugin,         \* what became of each start's RunningPlugin
  config,         \* each start's Config
  run_pc,         \* where each start's run is
  task,           \* each start's two tasks
  session,        \* who holds each start's Arc<Session>
  transport,      \* who holds each start's Arc<LcmTransport>
  socket          \* the socket that transport has open

main_vars == <<host, args, file, process, zenoh>>
start_vars == <<statics, tokio_runtime, plugin, config>>
run_vars == <<run_pc, task, session, transport, socket>>
vars == <<main_vars, start_vars, run_vars>>

Numbers(c) == [work |-> c.work_thread_num, block |-> c.max_block_thread_num]

Init ==
  /\ \/ host = "bridge" /\ process = "args" /\ args \in CommandLines /\ file \in Files
     \/ host = "router" /\ process = "up" /\ args = <<>> /\ file = DefaultFile
  /\ zenoh = None
  /\ statics = Numbers(Defaults)
  /\ tokio_runtime = None
  /\ plugin = [i \in Starts |-> "none"]
  /\ config = [i \in Starts |-> None]
  /\ run_pc = [i \in Starts |-> "none"]
  /\ task = [i \in Starts |-> [t \in Tasks |-> "none"]]
  /\ session = [i \in Starts |-> {}]
  /\ transport = [i \in Starts |-> {}]
  /\ socket = [i \in Starts |-> None]

-----------------------------------------------------------------------------
(* LcmPlugin::start, as Zenoh calls it, and the drop of what it returned.  *)

\* TOKIO_RUNTIME once it has been used: built on first use, from the statics;
\* the builder panics when a number is 0, and so does every later use.
FirstUse(numbers) ==
  IF tokio_runtime # None THEN tokio_runtime
  ELSE IF 0 \in {numbers.work, numbers.block} THEN Poisoned ELSE numbers

\* Mutant: start spawns the run before it stores the numbers.
spawn_before_store(c) ==
  IF host = "bridge" THEN tokio_runtime ELSE FirstUse(statics)

\* The bridge starts the plugin on a thread of main's own runtime; a router's
\* plugin library knows of no runtime but TOKIO_RUNTIME.
spawn_runtime(c) == IF host = "bridge" THEN tokio_runtime ELSE FirstUse(Numbers(c))

\* json is the plugin's configuration, None if there is none.
Start(i, json) ==
  LET c == IF json = None THEN Err ELSE from_value(json) IN
  /\ plugin[i] = "none"
  /\ IF c = Err
     THEN /\ plugin' = [plugin EXCEPT ![i] = "refused"]
          /\ UNCHANGED <<statics, tokio_runtime, config, run_pc>>
     ELSE /\ statics' = Numbers(c)
          /\ tokio_runtime' = spawn_runtime(c)
          /\ IF tokio_runtime' = Poisoned
             THEN /\ plugin' = [plugin EXCEPT ![i] = "panicked"]
                  /\ UNCHANGED <<config, run_pc>>
             ELSE /\ plugin' = [plugin EXCEPT ![i] = "running"]
                  /\ config' = [config EXCEPT ![i] = c]
                  /\ run_pc' = [run_pc EXCEPT ![i] = "session"]
  /\ UNCHANGED <<task, session, transport, socket>>

\* /config of the plugin's status.
adminspace_getter(i) == to_value(config[i])

\* A router starts the plugin again only after it has dropped it.
RouterStarts(i) ==
  /\ host = "router"
  /\ \A j \in Starts : j < i => plugin[j] \notin {"none", "running"}
  /\ \E f \in Files \ {Err} : Start(i, IF "lcm" \in DOMAIN f THEN f.lcm ELSE None)
  /\ UNCHANGED main_vars

\* _drop, the sender, goes with the RunningPlugin.
RouterDrops(i) ==
  /\ host = "router" /\ plugin[i] = "running"
  /\ plugin' = [plugin EXCEPT ![i] = "dropped"]
  /\ UNCHANGED <<main_vars, statics, tokio_runtime, config, run_vars>>

-----------------------------------------------------------------------------
(* main of the stand-alone bridge.                                         *)

\* clap's value_of: mode has a default value.
value_of(option) == IF option \in DOMAIN args THEN args[option] ELSE "peer"

\* Mutant: applied when the option has a value, not when it occurs.
Given_with_default(options) == options \cap (DOMAIN args \cup {"mode"})

Given(options) == options \cap DOMAIN args

\* Applies the options given over the settings of base.
Over(base, options) ==
  [k \in DOMAIN base \cup Given(options) |->
     IF k \in Given(options) THEN value_of(k) ELSE base[k]]

\* The options whose value is parsed here, with an unwrap.
ParseFails ==
  \/ file = Err
  \/ \E k \in Given(ZenohOptions \cup {"max_message_size"}) : value_of(k) = Invalid

\* Whatever the file says of them.
Enabled == {"timestamping", "adminspace", "plugins_loading"}

parse_args ==
  LET base == [k \in DOMAIN file \cup {"lcm"} |->
                 IF k \in DOMAIN file THEN file[k] ELSE <<>>]
      with_args == Over(base, ZenohOptions)
  IN  [k \in DOMAIN with_args \cup Enabled |->
         IF k \in Enabled THEN TRUE
         ELSE IF k = "lcm" THEN Over(base.lcm, LcmOptions) ELSE with_args[k]]

ParseArgs ==
  /\ process = "args"
  /\ IF ParseFails THEN process' = "exited" /\ UNCHANGED zenoh
                   ELSE process' = "build" /\ zenoh' = parse_args
  /\ UNCHANGED <<host, args, file, start_vars, run_vars>>

\* Building the runtime starts the plugin; as it is declared required, main
\* does not go on without it.
Build ==
  /\ process = "build"
  /\ \/ /\ Start(1, zenoh.lcm)
        /\ process' = IF plugin'[1] = "running" THEN "start" ELSE "exited"
     \/ process' = "exited" /\ UNCHANGED <<start_vars, run_vars>>
  /\ UNCHANGED <<host, args, file, zenoh>>

\* A process that exits takes all that runs in it along.
RuntimeStart ==
  /\ process = "start"
  /\ \/ process' = "up" /\ UNCHANGED run_vars
     \/ /\ process' = "exited"
        /\ run_pc' = [run_pc EXCEPT ![1] = "ended"]
        /\ task' = [task EXCEPT ![1] = [t \in Tasks |-> "done"]]
        /\ session' = [session EXCEPT ![1] = {}]
        /\ transport' = [transport EXCEPT ![1] = {}]
        /\ socket' = [socket EXCEPT ![1] = None]
  /\ UNCHANGED <<host, args, file, zenoh, start_vars>>

-----------------------------------------------------------------------------
(* run of start i. It does not look at the drop before it has spawned the  *)
(* tasks.                                                                  *)

Acquire(holders, i, hs) == holders' = [holders EXCEPT ![i] = @ \cup hs]

\* h returns: its Arcs are dropped, and with the last one the socket closes.
Release(i, h) ==
  /\ session' = [session EXCEPT ![i] = @ \ {h}]
  /\ transport' = [transport EXCEPT ![i] = @ \ {h}]
  /\ socket' = [socket EXCEPT ![i] = IF transport[i] \ {h} = {} THEN None ELSE @]

Goes(i, pc) == run_pc' = [run_pc EXCEPT ![i] = pc]

RunFails(i) == Goes(i, "ended") /\ Release(i, "run") /\ UNCHANGED task

\* zenoh::session::init.
Inits(i) ==
  /\ Goes(i, "open") /\ Acquire(session, i, {"run"})
  /\ UNCHANGED <<task, transport, socket>>

RunSession(i) == run_pc[i] = "session" /\ (Inits(i) \/ RunFails(i))

\* LcmUrl::parse and LcmTransport::new.
Opens(i) ==
  LET url == LcmUrl_parse(config[i].lcm_url) IN
  /\ url # Err
  /\ LET s == socket_of(url, interface_of(config[i])) IN
       s # Err /\ socket' = [socket EXCEPT ![i] = s]
  /\ Goes(i, "spawn") /\ Acquire(transport, i, {"run"})
  /\ UNCHANGED <<task, session>>

\* Mutant: a transport that cannot be opened is tried again.
RunOpenAgain(i) == run_pc[i] = "open" /\ Opens(i)

\* The operating system may refuse what the configuration allows.
RunOpen(i) == run_pc[i] = "open" /\ (Opens(i) \/ RunFails(i))

RunSpawn(i) ==
  /\ run_pc[i] = "spawn"
  /\ Goes(i, "serving")
  /\ task' = [task EXCEPT ![i] = [t \in Tasks |-> "running"]]
  /\ Acquire(session, i, Tasks) /\ Acquire(transport, i, Tasks)
  /\ UNCHANGED socket

\* What is aborted ends at its next await; what has ended is left alone.
Aborted(i, ts) ==
  task' = [task EXCEPT ![i] = [t \in Tasks |->
             IF t \in ts /\ @[t] = "running" THEN "aborting" ELSE @[t]]]

\* Mutants: one task is not aborted; run waits for the tasks before it aborts.
RunStopsOne(i) ==
  /\ run_pc[i] = "serving" /\ plugin[i] = "dropped"
  /\ Goes(i, "ended") /\ Aborted(i, {"l2z"}) /\ Release(i, "run")

RunJoins(i) ==
  /\ run_pc[i] = "serving" /\ plugin[i] = "dropped"
  /\ \A t \in Tasks : task[i][t] = "done"
  /\ Goes(i, "ended") /\ Aborted(i, Tasks) /\ Release(i, "run")

\* recv_async returns once the sender has been dropped.
RunStops(i) ==
  /\ run_pc[i] = "serving" /\ plugin[i] = "dropped"
  /\ Goes(i, "ended") /\ Aborted(i, Tasks) /\ Release(i, "run")

TaskEnds(i, t) ==
  task' = [task EXCEPT ![i][t] = "done"] /\ Release(i, t) /\ UNCHANGED run_pc

TaskCancelled(i, t) == task[i][t] = "aborting" /\ TaskEnds(i, t)

\* zenoh_to_lcm::run returns when it cannot subscribe and when the subscriber
\* fails; lcm_to_zenoh::run never does.
Z2lReturns(i) == task[i]["z2l"] \in {"running", "aborting"} /\ TaskEnds(i, "z2l")

Run(i) ==
  /\ RunSession(i) \/ RunOpen(i) \/ RunSpawn(i) \/ RunStops(i)
  /\ UNCHANGED <<main_vars, start_vars>>

Cancelled(i, t) == TaskCancelled(i, t) /\ UNCHANGED <<main_vars, start_vars>>

Next ==
  \/ ParseArgs \/ Build \/ RuntimeStart
  \/ \E i \in Starts : RouterStarts(i) \/ RouterDrops(i) \/ Run(i)
  \/ \E i \in Starts : Z2lReturns(i) /\ UNCHANGED <<main_vars, start_vars>>
  \/ \E i \in Starts, t \in Tasks : Cancelled(i, t)

Spec == Init /\ [][Next]_vars

\* Tokio polls every task that can go on, and cancels one that was aborted: both
\* loops await in each round. Nothing is assumed of main, nor of the router.
Fairness ==
  \A i \in Starts : WF_vars(Run(i)) /\ \A t \in Tasks : WF_vars(Cancelled(i, t))

FairSpec == Spec /\ Fairness

-----------------------------------------------------------------------------
(* What is promised of it.                                                 *)

\* Every variable has its type: the numbers of a runtime that exists are positive,
\* no field of a Config that start accepted is null unless it is an Option
\* (config.rs:12-51), and a socket is open exactly while somebody holds the
\* transport (lib.rs:187-207).
TypeOK ==
  /\ process \in {"args", "build", "start", "up", "exited"}
  /\ DOMAIN statics = {"work", "block"}
  /\ tokio_runtime \in {None, Poisoned} \cup RuntimeNumbers
  /\ \A i \in Starts :
       /\ plugin[i] \in {"none", "running", "refused", "panicked", "dropped"}
       /\ plugin[i] \in {"running", "dropped"} <=> config[i] # None
       /\ config[i] \in Configs \cup {None}
       /\ run_pc[i] \in {"none", "session", "open", "spawn", "serving", "ended"}
       /\ task[i] \in [Tasks -> {"none", "running", "aborting", "done"}]
       /\ session[i] \subseteq Holders /\ transport[i] \subseteq session[i]
       /\ socket[i] = None <=> transport[i] = {}

\* The value the user asked for: on the command line, or else in the file, or
\* else the default.
Asked(f) ==
  IF f \in DOMAIN args THEN args[f]
  ELSE IF "lcm" \in DOMAIN file /\ f \in DOMAIN file.lcm THEN file.lcm[f]
  ELSE Defaults[f]

\* What is given on the command line overrides the file, and what is not given
\* leaves it alone, clap's default values included (README.md:139 and 187;
\* main.rs:118-178): for the plugin's settings as start read them, and for Zenoh's.
ConfiguredAsAsked ==
  /\ host = "bridge" /\ config[1] # None =>
       \A f \in Fields \ {"__path__"} : config[1][f] = Asked(f)
  /\ zenoh # None =>
       \A k \in DOMAIN file \cup (ZenohOptions \cap DOMAIN args) :
         k \notin Enabled \cup {"lcm"} =>
           zenoh[k] = IF k \in DOMAIN args THEN args[k] ELSE file[k]

\* The runtime that a router's plugin runs in is as its first start asked, not
\* as an earlier value of the statics says (lib.rs:31-40 and 86-92): the numbers
\* must be stored before the runtime is first used, and cannot change after.
RuntimeAsFirstAsked ==
  \A i \in Starts :
    host = "router" /\ config[i] # None
      /\ (\A j \in Starts : j < i => config[j] = None) =>
      tokio_runtime = Numbers(config[i])

\* The configuration that the admin space serves is the current one (README.md:279):
\* a plugin that were given it would relay the channels that this one relays
\* (lib.rs:118-126, config.rs:90-108).
ServedAsRelayed ==
  \A i \in Starts : config[i] # None =>
    LET served == from_value(adminspace_getter(i)) IN
    /\ served # Err
    /\ \A c \in Channels : is_allowed(c, served) <=> is_allowed(c, config[i])

\* A bridge task that goes on relaying has its run waiting for the drop, and
\* nothing holds the transport or the session after it has returned, wherever
\* the start failed and whenever the drop came (lib.rs:132-207).
NoOrphans ==
  \A i \in Starts :
    /\ \A t \in Tasks :
         /\ task[i][t] = "running" => run_pc[i] = "serving"
         /\ t \in session[i] \cup transport[i] <=> task[i][t] \in {"running", "aborting"}
    /\ "run" \in session[i] <=> run_pc[i] \in {"open", "spawn", "serving"}
    /\ "run" \in transport[i] <=> run_pc[i] \in {"spawn", "serving"}

\* After the router has dropped the plugin, whatever it was doing, its tasks end,
\* its session is released and its socket closed (lib.rs:201-206).
StopReleases ==
  \A i \in Starts :
    plugin[i] = "dropped" ~> session[i] = {} /\ socket[i] = None

\* A start that returned Ok is not left halfway: it comes to relay with both
\* tasks spawned, or it fails and releases what it holds (lib.rs:137-199).
StartSettles ==
  \A i \in Starts :
    plugin[i] = "running" ~>
      \/ run_pc[i] = "serving"
      \/ run_pc[i] = "ended" /\ session[i] = {} /\ socket[i] = None

=============================================================================
