------------------------ MODULE BridgeProcessProofs ------------------------
(***************************************************************************)
(* Every relaying task of the plugin can be stopped, for every             *)
(* configuration and any number of restarts.                               *)
(***************************************************************************)
EXTENDS BridgeProcess, TLAPS

Types ==
  /\ plugin \in [Starts -> {"none", "running", "refused", "panicked", "dropped"}]
  /\ run_pc \in [Starts -> {"none", "session", "open", "spawn", "serving", "ended"}]
  /\ task \in [Starts -> [Tasks -> {"none", "running", "aborting", "done"}]]
  /\ session \in [Starts -> SUBSET Holders]
  /\ transport \in [Starts -> SUBSET Holders]

\* NoOrphans, for one start.
NoOrphan(i) ==
  /\ \A t \in Tasks :
       /\ task[i][t] = "running" => run_pc[i] = "serving"
       /\ t \in session[i] \cup transport[i] <=> task[i][t] \in {"running", "aborting"}
  /\ "run" \in session[i] <=> run_pc[i] \in {"open", "spawn", "serving"}
  /\ "run" \in transport[i] <=> run_pc[i] \in {"spawn", "serving"}

\* A start that has not been made has no run: without it the first step of a
\* start could put a run that serves back to its beginning.
Unstarted(i) == plugin[i] = "none" => run_pc[i] = "none"

\* main goes on only with the plugin started.
Started == process = "start" => plugin[1] # "none"

IInv == Types /\ Started /\ \A i \in Starts : NoOrphan(i) /\ Unstarted(i)

\* The variables IInv is about; a step that leaves them alone preserves it.
run_state == <<process, plugin, run_pc, task, session, transport>>

-----------------------------------------------------------------------------

\* The first state has no runs.
LEMMA InitIInv == Init => IInv
  BY DEF Init, IInv, Types, Started, NoOrphan, Unstarted, Tasks, Holders

\* start leaves the run and the tasks of other starts alone.
LEMMA StartIInv ==
  ASSUME IInv, NEW i \in Starts, NEW json, Start(i, json)
  PROVE  /\ Types' /\ plugin'[i] # "none"
         /\ \A j \in Starts : plugin[j] # "none" => plugin'[j] # "none"
         /\ \A j \in Starts : NoOrphan(j)' /\ Unstarted(j)'
<1>1. /\ Types' /\ plugin'[i] # "none"
      /\ \A j \in Starts : plugin[j] # "none" => plugin'[j] # "none"
  BY DEF IInv, Types, Start
<1>2. ASSUME NEW j \in Starts
      PROVE  NoOrphan(j)' /\ Unstarted(j)'
  BY <1>2 DEF IInv, Types, Start, NoOrphan, Unstarted, Tasks
<1> QED
  BY <1>1, <1>2

\* The bridge leaves main and takes its only start along.
LEMMA RuntimeStartIInv ==
  ASSUME IInv, RuntimeStart
  PROVE  IInv'
<1>1. Types' /\ Started'
  BY StartsAssumption DEF IInv, Types, Started, RuntimeStart, start_vars, run_vars, Tasks, Holders
<1>2. ASSUME NEW j \in Starts
      PROVE  NoOrphan(j)' /\ Unstarted(j)'
  BY <1>2, StartsAssumption
     DEF IInv, Types, Started, RuntimeStart, start_vars, run_vars, NoOrphan, Unstarted, Tasks
<1> QED
  BY <1>1, <1>2 DEF IInv

\* A step of a run: it may return wherever it is, with what it holds.
LEMMA RunIInv ==
  ASSUME IInv, NEW i \in Starts, Run(i)
  PROVE  IInv'
<1> USE DEF IInv, Types, Goes, Acquire, Release, RunFails, main_vars, start_vars
<1>0. Started'
  BY DEF Run, Started
<1>1. CASE RunSession(i)
  <2>1. Types'
    <3>1. CASE RunFails(i)
      BY <1>1, <3>1 DEF Run, RunSession, Holders
    <3>2. CASE Inits(i)
      BY <1>1, <3>2 DEF Run, Inits, Holders
    <3> QED
      BY <1>1, <3>1, <3>2 DEF RunSession
  <2>2. ASSUME NEW j \in Starts
        PROVE  NoOrphan(j)' /\ Unstarted(j)'
    BY <1>1, <2>2 DEF Run, RunSession, Inits, NoOrphan, Unstarted, Tasks, Holders
  <2> QED
    BY <1>0, <2>1, <2>2
<1>2. CASE RunOpen(i)
  <2>1. Types'
    <3>1. CASE RunFails(i)
      BY <1>2, <3>1 DEF Run, RunOpen, Holders
    <3>2. CASE Opens(i)
      BY <1>2, <3>2 DEF Run, Opens, Holders
    <3> QED
      BY <1>2, <3>1, <3>2 DEF RunOpen
  <2>2. ASSUME NEW j \in Starts
        PROVE  NoOrphan(j)' /\ Unstarted(j)'
    BY <1>2, <2>2 DEF Run, RunOpen, Opens, NoOrphan, Unstarted, Tasks, Holders
  <2> QED
    BY <1>0, <2>1, <2>2
<1>3. CASE RunSpawn(i)
  <2>1. Types'
    BY <1>3 DEF Run, RunSpawn, Holders, Tasks
  <2>2. ASSUME NEW j \in Starts
        PROVE  NoOrphan(j)' /\ Unstarted(j)'
    BY <1>3, <2>2 DEF Run, RunSpawn, NoOrphan, Unstarted, Tasks, Holders
  <2> QED
    BY <1>0, <2>1, <2>2
<1>4. CASE RunStops(i)
  <2>1. Types'
    BY <1>4 DEF Run, RunStops, Aborted, Holders, Tasks
  <2>2. ASSUME NEW j \in Starts
        PROVE  NoOrphan(j)' /\ Unstarted(j)'
    BY <1>4, <2>2 DEF Run, RunStops, Aborted, NoOrphan, Unstarted, Tasks, Holders
  <2> QED
    BY <1>0, <2>1, <2>2
<1> QED
  BY <1>0, <1>1, <1>2, <1>3, <1>4 DEF Run

\* A task ends, by itself or cancelled, and releases what it holds.
LEMMA TaskEndsIInv ==
  ASSUME IInv, NEW i \in Starts, NEW t \in Tasks, TaskEnds(i, t),
         UNCHANGED <<main_vars, start_vars>>
  PROVE  IInv'
<1> USE DEF IInv, Types, TaskEnds, Release, main_vars, start_vars
<1>1. Types' /\ Started'
  BY DEF Holders, Tasks, Started
<1>2. ASSUME NEW j \in Starts
      PROVE  NoOrphan(j)' /\ Unstarted(j)'
  BY <1>2 DEF NoOrphan, Unstarted, Tasks, Holders
<1> QED
  BY <1>1, <1>2

\* One step per action of Next.
LEMMA NextIInv == IInv /\ [Next]_vars => IInv'
<1> SUFFICES ASSUME IInv, [Next]_vars
             PROVE  IInv'
  OBVIOUS
<1> DEFINE Same == UNCHANGED run_state
<1>0. Same => IInv'
  BY DEF run_state, IInv, Types, Started, NoOrphan, Unstarted
<1>1. CASE ParseArgs
  BY <1>1 DEF ParseArgs, start_vars, run_vars, IInv, Types, Started, NoOrphan, Unstarted
<1>2. CASE Build
  <2>1. CASE Start(1, zenoh.lcm)
    BY <2>1, StartIInv, StartsAssumption DEF IInv, Started
  <2>2. CASE process' = "exited" /\ UNCHANGED <<start_vars, run_vars>>
    BY <2>2 DEF start_vars, run_vars, IInv, Types, Started, NoOrphan, Unstarted
  <2> QED
    BY <1>2, <2>1, <2>2 DEF Build
<1>3. CASE RuntimeStart
  BY <1>3, RuntimeStartIInv
<1>4. ASSUME NEW i \in Starts, RouterStarts(i)
      PROVE  IInv'
  <2>1. PICK f \in Files \ {Err} : Start(i, IF "lcm" \in DOMAIN f THEN f.lcm ELSE None)
    BY <1>4 DEF RouterStarts
  <2>2. Started'
    BY <1>4, <2>1, StartIInv, StartsAssumption DEF RouterStarts, main_vars, IInv, Started
  <2> QED
    BY <2>1, <2>2, StartIInv DEF IInv
<1>5. ASSUME NEW i \in Starts, RouterDrops(i)
      PROVE  IInv'
  BY <1>5 DEF RouterDrops, main_vars, run_vars, IInv, Types, Started, NoOrphan, Unstarted
<1>6. ASSUME NEW i \in Starts, Run(i)
      PROVE  IInv'
  BY <1>6, RunIInv
<1>7. ASSUME NEW i \in Starts, Z2lReturns(i), UNCHANGED <<main_vars, start_vars>>
      PROVE  IInv'
  BY <1>7, TaskEndsIInv DEF Z2lReturns, Tasks
<1>8. ASSUME NEW i \in Starts, NEW t \in Tasks, Cancelled(i, t)
      PROVE  IInv'
  BY <1>8, TaskEndsIInv DEF Cancelled, TaskCancelled
<1>9. CASE UNCHANGED vars
  BY <1>0, <1>9 DEF vars, run_state, main_vars, start_vars, run_vars
<1> QED
  BY <1>1, <1>2, <1>3, <1>4, <1>5, <1>6, <1>7, <1>8, <1>9 DEF Next

\* lib.rs:132-207: in every state, a task that relays has its run waiting for
\* the drop, and who has returned holds neither the session nor the transport.
THEOREM NoOrphansAlways == Spec => []NoOrphans
<1>1. Init => IInv
  BY InitIInv
<1>2. IInv /\ [Next]_vars => IInv'
  BY NextIInv
<1>3. IInv => NoOrphans
  BY DEF IInv, NoOrphan, NoOrphans
<1> QED
  BY <1>1, <1>2, <1>3, PTL DEF Spec
=============================================================================
