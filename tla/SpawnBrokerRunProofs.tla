------------------------- MODULE SpawnBrokerRunProofs -------------------------
(***************************************************************************)
(* Proofs about the child runs of SpawnBroker: which runs of a task may go *)
(* on at once, what a wrapper leaves behind, what the end of the join      *)
(* means, and how the tally of a parent stands to its children.            *)
(*                                                                         *)
(* Two habits of the agents matter, and each theorem names the ones it     *)
(* excludes: with "rerun" the tree launches an id again, and with          *)
(* "eager_await" an id is awaited before its launch has answered.          *)
(***************************************************************************)
EXTENDS SpawnBrokerProofs

-----------------------------------------------------------------------------
(* How runs change.                                                        *)

LEMMA RunNumbers ==
  ASSUME TypeOK
  PROVE  nruns \in Nat /\ 0 \in Run /\ 1..nruns \subseteq Run /\ \A r \in 1..nruns : r # 0
  BY BrokerAssumption DEF TypeOK, Run

(* Only a spawn adds a run; no step changes whose run it is, or takes up a *)
(* run that has ended.                                                     *)
LEMMA RunsStand ==
  ASSUME TypeOK, [Next]_vars, \A c \in Call : ~Spawn(c)
  PROVE  /\ nruns' = nruns
         /\ \A r \in Run : /\ run'[r].task = run[r].task /\ run'[r].by = run[r].by
                           /\ Unsettled(r)' => Unsettled(r)
  <1>1. CASE AgentStep \/ \E c \in Call : CallStep(c)
    <2>1. run' = run /\ nruns' = nruns
      BY <1>1 DEF AgentStep, CallStep, Reserve, Await, SetTaskStatus, Check, WriteReady, Register,
                  Unrecord, Observe, ReleaseFanout, AwaitTimeout
    <2> QED
      BY <2>1 DEF Unsettled
  <1>2. ASSUME NEW q \in Run, RunStep(q) \/ WrapperStep(q)
        PROVE  /\ nruns' = nruns
               /\ \A r \in Run : /\ run'[r].task = run[r].task /\ run'[r].by = run[r].by
                                 /\ Unsettled(r)' => Unsettled(r)
    <2>1. nruns' = nruns
      BY <1>2 DEF RunStep, WrapperStep, Start, Break, Settle, WrapperReturns, HardCeiling
    <2>2. CASE Start(q)
      BY <2>1, <2>2 DEF Start, Unsettled, TypeOK
    <2>3. CASE Break(q)
      BY <2>1, <2>3 DEF Break, Unsettled, TypeOK
    <2>4. CASE \E s \in Status : Settle(q, s)
      BY <2>1, <2>4 DEF Settle, Unsettled, TypeOK
    <2>5. CASE WrapperReturns(q)
      BY <2>1, <2>5 DEF WrapperReturns, Unsettled, TypeOK
    <2>6. CASE HardCeiling(q)
      BY <2>1, <2>6 DEF HardCeiling, Unsettled, TypeOK
    <2> QED
      BY <1>2, <2>2, <2>3, <2>4, <2>5, <2>6 DEF RunStep, WrapperStep
  <1>3. CASE RootReturns \/ RootStalls
    BY <1>3 DEF RootReturns, RootStalls, Unsettled, TypeOK
  <1>4. CASE RootErrs
    <2>1. nruns' = nruns
      BY <1>4 DEF RootErrs
    <2>2. ASSUME NEW r \in Run
          PROVE  /\ run'[r].task = run[r].task /\ run'[r].by = run[r].by
                 /\ Unsettled(r)' => Unsettled(r)
      BY <1>4 DEF RootErrs, Unsettled, TypeOK
    <2> QED
      BY <2>1, <2>2
  <1>5. CASE RuntimeStops
    <2>1. nruns' = nruns
      BY <1>5 DEF RuntimeStops
    <2>2. ASSUME NEW r \in Run
          PROVE  /\ run'[r].task = run[r].task /\ run'[r].by = run[r].by
                 /\ Unsettled(r)' => Unsettled(r)
      <3>1. run'[r] = [run[r] EXCEPT !.inner = IF Unsettled(r) THEN "killed" ELSE @,
                                     !.wrapper = IF @ = "live" THEN "aborted" ELSE @]
        BY <1>5 DEF RuntimeStops
      <3>2. run[r] \in [task : Task, depth : Nat, by : Run, inner : Inner, wrapper : Wrapper]
        BY DEF TypeOK
      <3>3. run'[r].task = run[r].task /\ run'[r].by = run[r].by
        BY <3>1, <3>2
      <3>4. run'[r].inner = IF Unsettled(r) THEN "killed" ELSE run[r].inner
        BY <3>1, <3>2
      <3> QED
        BY <3>3, <3>4 DEF Unsettled
    <2> QED
      BY <2>1, <2>2
  <1>6. CASE Drain \/ Exited \/ UNCHANGED vars
    BY <1>6 DEF Drain, Exited, vars, Unsettled
  <1> QED
    BY <1>1, <1>2, <1>3, <1>4, <1>5, <1>6 DEF Next

(* A spawn adds the next run and changes no other.                         *)
LEMMA SpawnAddsOne ==
  ASSUME IInv, IInv', NEW c \in Call, Spawn(c)
  PROVE  /\ nruns \in Nat /\ nruns' = nruns + 1 /\ nruns' \in Run
         /\ run'[nruns'].task = call[c].task /\ run'[nruns'].by = call[c].by
         /\ run'[nruns'].inner = (IF phase = "exited" THEN "killed" ELSE "queued")
         /\ run'[nruns'].wrapper = (IF phase = "exited" THEN "aborted" ELSE "live")
         /\ \A r \in Run : r # nruns' => run'[r] = run[r]
         /\ 1..nruns' = (1..nruns) \cup {nruns'} /\ nruns' \notin 1..nruns
         /\ 1..nruns \subseteq Run
  <1>1. nruns \in Nat /\ Budget \in Nat /\ nruns' \in Run /\ nruns' = nruns + 1
    BY BrokerAssumption DEF IInv, TypeOK, Run, Spawn
  <1>2. nruns + 1 \in Run
    BY <1>1
  <1>3. run' = [run EXCEPT ![nruns + 1] =
                  [task |-> call[c].task, depth |-> call[c].depth, by |-> call[c].by,
                   inner |-> IF phase = "exited" THEN "killed" ELSE "queued",
                   wrapper |-> IF phase = "exited" THEN "aborted" ELSE "live"]]
    BY DEF Spawn
  <1>4. run'[nruns + 1] = [task |-> call[c].task, depth |-> call[c].depth, by |-> call[c].by,
                   inner |-> IF phase = "exited" THEN "killed" ELSE "queued",
                   wrapper |-> IF phase = "exited" THEN "aborted" ELSE "live"]
    BY <1>2, <1>3 DEF IInv, TypeOK
  <1>5. \A r \in Run : r # nruns + 1 => run'[r] = run[r]
    BY <1>2, <1>3 DEF IInv, TypeOK
  <1>6. 1..nruns' = (1..nruns) \cup {nruns'} /\ nruns' \notin 1..nruns /\ 1..nruns \subseteq Run
    BY <1>1 DEF Run
  <1> QED
    BY <1>1, <1>4, <1>5, <1>6

-----------------------------------------------------------------------------
(* Two runs of one task.                                                   *)

(* Calls whose thread holds the mutex of its broker's launcher.            *)
InLauncher(c) == call[c].pc \in {"preparing", "prepared"}

OneInLauncher ==
  \A c, d \in Call : InLauncher(c) /\ InLauncher(d) /\ call[c].by = call[d].by => c = d

(* The handle of a task belongs to a run of it: to the only one that goes  *)
(* on, unless two sessions have launched the task.                         *)
LatestHasHandle ==
  phase = "session" =>
    \A r \in 1..nruns :
      /\ run[r].task \in DOMAIN handles
      /\ Unsettled(r) => /\ run[r].wrapper = "live"
                         /\ handles[run[r].task] = r \/ SharedLaunch(run[r].task)

(* A call past the check finds no run of its task going on, unless another *)
(* session has launched the task as well.                                  *)
NoneBeforeSpawn ==
  phase = "session" =>
    \A c \in Call : InLauncher(c) =>
      \/ \E q \in 1..nruns : run[q].task = call[c].task /\ run[q].by # call[c].by
      \/ \A r \in 1..nruns : run[r].task = call[c].task => ~Unsettled(r)

Launches == OneInLauncher /\ LatestHasHandle /\ NoneBeforeSpawn

LEMMA LaunchesInit == Init => Launches
  BY DEF Init, Launches, OneInLauncher, LatestHasHandle, NoneBeforeSpawn, InLauncher, Idle

(* A launch by two sessions stays one.                                     *)
LEMMA SharedStays ==
  ASSUME IInv, IInv', [Next]_vars, NEW t, SharedLaunch(t)
  PROVE  SharedLaunch(t)'
  <1>1. PICK r, s \in 1..nruns : run[r].task = t /\ run[s].task = t /\ run[r].by # run[s].by
    BY DEF SharedLaunch
  <1>2. CASE \E c \in Call : Spawn(c)
    <2>1. PICK c \in Call : Spawn(c)
      BY <1>2
    <2>2. r \in 1..nruns' /\ s \in 1..nruns' /\ run'[r] = run[r] /\ run'[s] = run[s]
      BY <2>1, SpawnAddsOne
    <2> QED
      BY <1>1, <2>2 DEF SharedLaunch
  <1>3. CASE \A c \in Call : ~Spawn(c)
    <2>1. r \in Run /\ s \in Run
      BY RunNumbers DEF IInv
    <2> QED
      BY <1>1, <1>3, <2>1, RunsStand DEF IInv, SharedLaunch
  <1> QED
    BY <1>2, <1>3

(* Steps other than the check and the spawn of a launch add no call to a   *)
(* launcher and, while the session lasts, touch neither a handle nor the   *)
(* wrapper of a run that goes on.                                          *)
LEMMA LauncherStands ==
  ASSUME TypeOK, [Next]_vars, \A c \in Call : ~Spawn(c) /\ ~Check(c)
  PROVE  /\ \A c \in Call : InLauncher(c)' => /\ InLauncher(c) /\ call'[c].task = call[c].task
                                              /\ call'[c].by = call[c].by
         /\ phase' = "session" =>
              /\ phase = "session" /\ handles' = handles
              /\ \A r \in Run : Unsettled(r)' => run'[r].wrapper = run[r].wrapper
  <1>1. ASSUME NEW c \in Call, NEW r \in Run, NEW t \in Task, Reserve(c, r, t) \/ Await(c, r, t)
        PROVE  /\ UNCHANGED <<phase, handles, run>>
               /\ \A d \in Call : \/ call'[d] = call[d]
                                  \/ call'[d].pc \in {"reserved", "awaiting"}
    BY <1>1 DEF Reserve, Await, TypeOK
  <1>2. ASSUME NEW r \in Run, NEW t \in Task, NEW s \in Status, SetTaskStatus(r, t, s)
        PROVE  UNCHANGED <<phase, handles, run, call>>
    BY <1>2 DEF SetTaskStatus
  <1>3. ASSUME NEW c \in Call, CallStep(c)
        PROVE  /\ UNCHANGED <<phase, handles, run>>
               /\ \A d \in Call : \/ call'[d] = call[d]
                                  \/ call'[d].pc \in {"failed", "idle", "observed"}
                                  \/ /\ InLauncher(d) /\ call'[d].task = call[d].task
                                     /\ call'[d].by = call[d].by
    <2>1. CASE WriteReady(c)
      BY <2>1 DEF WriteReady, InLauncher, TypeOK
    <2>2. CASE Register(c) \/ Unrecord(c) \/ Observe(c) \/ ReleaseFanout(c) \/ AwaitTimeout(c)
      BY <2>2 DEF Register, Unrecord, Observe, ReleaseFanout, AwaitTimeout, Idle, TypeOK
    <2> QED
      BY <1>3, <2>1, <2>2 DEF CallStep
  <1>4. ASSUME NEW q \in Run, RunStep(q) \/ WrapperStep(q)
        PROVE  /\ UNCHANGED <<phase, handles, call>>
               /\ \A r \in Run : Unsettled(r)' => run'[r].wrapper = run[r].wrapper
    <2>1. UNCHANGED <<phase, handles, call>>
      BY <1>4 DEF RunStep, WrapperStep, Start, Break, Settle, WrapperReturns, HardCeiling
    <2>2. CASE RunStep(q)
      BY <2>1, <2>2 DEF RunStep, Start, Break, Settle, TypeOK
    <2>3. CASE WrapperReturns(q)
      BY <2>1, <2>3 DEF WrapperReturns, Unsettled, TypeOK
    <2>4. CASE HardCeiling(q)
      BY <2>1, <2>4 DEF HardCeiling, Unsettled, TypeOK
    <2> QED
      BY <1>4, <2>1, <2>2, <2>3, <2>4 DEF WrapperStep
  <1>5. ASSUME RootReturns \/ Drain \/ RootErrs \/ RootStalls \/ RuntimeStops \/ Exited
        PROVE  phase' # "session" /\ call' = call
    BY <1>5 DEF RootReturns, Drain, RootErrs, RootStalls, RuntimeStops, Exited, vars
  <1>6. ASSUME UNCHANGED vars
        PROVE  UNCHANGED <<phase, handles, run, call>>
    BY <1>6 DEF vars
  <1>a. CASE AgentStep
    BY <1>a, <1>1, <1>2 DEF AgentStep, InLauncher
  <1>b. CASE \E c \in Call : CallStep(c)
    BY <1>b, <1>3 DEF InLauncher
  <1>c. CASE \E q \in Run : RunStep(q) \/ WrapperStep(q)
    BY <1>c, <1>4 DEF InLauncher
  <1>d. CASE RootReturns \/ Drain \/ RootErrs \/ RootStalls \/ RuntimeStops \/ Exited
    BY <1>d, <1>5 DEF InLauncher
  <1>e. CASE UNCHANGED vars
    BY <1>e, <1>6 DEF InLauncher
  <1> QED
    BY <1>a, <1>b, <1>c, <1>d, <1>e DEF Next

(* The check passes only when the handle of the task belongs to no run     *)
(* that goes on, and the launcher's mutex keeps the other calls of the     *)
(* same broker out until the run is spawned.                               *)
LEMMA CheckLaunches ==
  ASSUME IInv, Launches, NEW c \in Call, Check(c)
  PROVE  Launches'
  <1>1. /\ call[c].pc = "reserved" /\ ~LauncherBusy(call[c].by)
        /\ UNCHANGED <<handles, nruns, run, phase>>
    BY DEF Check
  <1>2. \/ ~HasLiveHandle(call[c].task) /\ call' = [call EXCEPT ![c].pc = "preparing"]
        \/ call' = [call EXCEPT ![c].pc = "failed"]
    BY DEF Check
  <1>3. \A d \in Call : /\ call'[d].task = call[d].task /\ call'[d].by = call[d].by
                        /\ InLauncher(d)' /\ d # c => InLauncher(d)
    BY <1>2 DEF InLauncher, IInv, TypeOK
  <1>4. LatestHasHandle'
    BY <1>1 DEF Launches, LatestHasHandle, Unsettled, SharedLaunch
  <1>5. OneInLauncher'
    <2>1. \A d \in Call : InLauncher(d) => call[d].by # call[c].by
      BY <1>1 DEF LauncherBusy, InLauncher
    <2> QED
      BY <1>3, <2>1 DEF Launches, OneInLauncher
  <1>6. NoneBeforeSpawn'
    <2> SUFFICES ASSUME phase = "session", NEW d \in Call, InLauncher(d)'
                 PROVE  \/ \E q \in 1..nruns : run[q].task = call[d].task /\ run[q].by # call[d].by
                        \/ \A r \in 1..nruns : run[r].task = call[d].task => ~Unsettled(r)
      BY <1>1, <1>3 DEF NoneBeforeSpawn, Unsettled
    <2>1. CASE d # c
      BY <1>3, <2>1 DEF Launches, NoneBeforeSpawn
    <2>2. CASE d = c
      <3>1. ~HasLiveHandle(call[c].task)
        BY <1>2, <2>2 DEF InLauncher, IInv, TypeOK
      <3>2. ASSUME NEW r \in 1..nruns, run[r].task = call[c].task, Unsettled(r)
            PROVE  SharedLaunch(call[c].task)
        BY <3>1, <3>2 DEF Launches, LatestHasHandle, HasLiveHandle
      <3>3. CASE SharedLaunch(call[c].task)
        BY <2>2, <3>3 DEF SharedLaunch
      <3> QED
        BY <2>2, <3>2, <3>3
    <2> QED
      BY <2>1, <2>2
  <1> QED
    BY <1>4, <1>5, <1>6 DEF Launches

(* The new run takes the handle; a run it takes it from goes on only if    *)
(* the launches of two sessions met.                                       *)
LEMMA SpawnLaunches ==
  ASSUME IInv, IInv', Launches, NEW c \in Call, Spawn(c)
  PROVE  Launches'
  <1> DEFINE new == nruns'
             t   == call[c].task
  <1>1. /\ call[c].pc = "prepared" /\ phase' = phase
        /\ handles' = Insert(handles, t, new)
        /\ call' = [call EXCEPT ![c].pc = "launched"]
    BY DEF Spawn
  <1>2. /\ run'[new].task = t /\ run'[new].by = call[c].by
        /\ phase = "session" => run'[new].wrapper = "live"
        /\ \A r \in 1..nruns : run'[r] = run[r]
        /\ 1..new = (1..nruns) \cup {new}
    BY SpawnAddsOne
  <1> HIDE DEF new
  <1>3. \A d \in Call : /\ call'[d].task = call[d].task /\ call'[d].by = call[d].by
                        /\ InLauncher(d)' => InLauncher(d) /\ d # c
    BY <1>1 DEF InLauncher, IInv, TypeOK
  <1>4. OneInLauncher'
    BY <1>3 DEF Launches, OneInLauncher
  <1>5. \A r \in 1..nruns : Unsettled(r)' <=> Unsettled(r)
    BY <1>2 DEF Unsettled
  <1>6. ASSUME NEW q \in 1..nruns, run[q].task = t, run[q].by # call[c].by
        PROVE  SharedLaunch(t)'
    <2>1. q \in 1..nruns' /\ nruns' \in 1..nruns'
      BY <1>2 DEF new
    <2>2. run'[q].task = t /\ run'[nruns'].task = t /\ run'[q].by # run'[nruns'].by
      BY <1>2, <1>6 DEF new
    <2> QED
      BY <1>3, <2>1, <2>2 DEF SharedLaunch
  <1>7. DOMAIN handles' = DOMAIN handles \cup {t} /\ handles'[t] = new
        /\ \A x \in DOMAIN handles : x # t => handles'[x] = handles[x]
    BY <1>1 DEF Insert
  <1>8. LatestHasHandle'
    <2> SUFFICES ASSUME phase = "session", NEW r \in 1..new
                 PROVE  /\ run'[r].task \in DOMAIN handles'
                        /\ Unsettled(r)' => /\ run'[r].wrapper = "live"
                                            /\ handles'[run'[r].task] = r \/ SharedLaunch(run[r].task)'
      BY <1>1 DEF LatestHasHandle, new
    <2>1. CASE r = new
      BY <1>2, <1>7, <2>1
    <2>2. CASE r # new
      <3>1. r \in 1..nruns /\ run'[r] = run[r]
        BY <1>2, <2>2
      <3>2. /\ run[r].task \in DOMAIN handles
            /\ Unsettled(r) => /\ run[r].wrapper = "live"
                               /\ handles[run[r].task] = r \/ SharedLaunch(run[r].task)
        BY <3>1 DEF Launches, LatestHasHandle
      <3>3. CASE run[r].task # t
        <4>1. SharedLaunch(run[r].task) => SharedLaunch(run[r].task)'
          BY <1>2, <3>1 DEF SharedLaunch, new
        <4> QED
          BY <1>5, <1>7, <3>1, <3>2, <3>3, <4>1
      <3>4. ASSUME run[r].task = t, Unsettled(r)
            PROVE  SharedLaunch(run[r].task)'
        <4>1. InLauncher(c)
          BY <1>1 DEF InLauncher
        <4>2. PICK q \in 1..nruns : run[q].task = t /\ run[q].by # call[c].by
          BY <3>1, <3>4, <4>1 DEF Launches, NoneBeforeSpawn
        <4> QED
          BY <1>2, <1>6, <3>1, <3>4, <4>2 DEF SharedLaunch, new
      <3> QED
        BY <1>5, <1>7, <3>1, <3>2, <3>3, <3>4
    <2> QED
      BY <2>1, <2>2
  <1>9. NoneBeforeSpawn'
    <2> SUFFICES ASSUME phase = "session", NEW d \in Call, InLauncher(d)'
                 PROVE  \/ \E q \in 1..new : run'[q].task = call[d].task /\ run'[q].by # call[d].by
                        \/ \A r \in 1..new : run'[r].task = call[d].task => ~Unsettled(r)'
      BY <1>1, <1>3 DEF NoneBeforeSpawn, new
    <2>1. InLauncher(d) /\ d # c /\ InLauncher(c)
      BY <1>1, <1>3 DEF InLauncher
    <2>2. call[d].by # call[c].by
      BY <2>1 DEF Launches, OneInLauncher
    <2>3. CASE call[d].task = t
      BY <1>2, <2>2, <2>3
    <2>4. CASE call[d].task # t
      BY <1>2, <1>5, <2>1, <2>4 DEF Launches, NoneBeforeSpawn
    <2> QED
      BY <2>3, <2>4
  <1> QED
    BY <1>4, <1>8, <1>9 DEF Launches

LEMMA LaunchesNext ==
  ASSUME IInv, IInv', Launches, [Next]_vars
  PROVE  Launches'
  <1>1. CASE \E c \in Call : Check(c)
    BY <1>1, CheckLaunches
  <1>2. CASE \E c \in Call : Spawn(c)
    BY <1>2, SpawnLaunches
  <1>3. CASE \A c \in Call : ~Spawn(c) /\ ~Check(c)
    <2>1. /\ nruns' = nruns
          /\ \A r \in 1..nruns : /\ run'[r].task = run[r].task /\ run'[r].by = run[r].by
                                 /\ Unsettled(r)' => Unsettled(r)
      BY <1>3, RunsStand, RunNumbers DEF IInv
    <2>2. /\ \A c \in Call : InLauncher(c)' => /\ InLauncher(c) /\ call'[c].task = call[c].task
                                               /\ call'[c].by = call[c].by
          /\ phase' = "session" =>
               /\ phase = "session" /\ handles' = handles
               /\ \A r \in 1..nruns : Unsettled(r)' => run'[r].wrapper = run[r].wrapper
      BY <1>3, LauncherStands, RunNumbers DEF IInv
    <2>3. OneInLauncher'
      BY <2>2 DEF Launches, OneInLauncher
    <2>4. \A x : SharedLaunch(x) => SharedLaunch(x)'
      BY SharedStays
    <2>5. LatestHasHandle'
      BY <2>1, <2>2, <2>4 DEF Launches, LatestHasHandle
    <2>6. NoneBeforeSpawn'
      BY <2>1, <2>2 DEF Launches, NoneBeforeSpawn
    <2> QED
      BY <2>3, <2>5, <2>6 DEF Launches
  <1> QED
    BY <1>1, <1>2, <1>3

(* While the root session lasts, a task that one session alone launches    *)
(* never has two runs going on at once, for every policy and every habit   *)
(* of the agents: re-runs, calls left open and kills included.             *)
THEOREM NoRunIsDoubled == Spec => []NoDoubleRun
  <1>1. Launches => NoDoubleRun
    BY DEF Launches, LatestHasHandle, NoDoubleRun
  <1>2. IInv /\ IInv' /\ Launches /\ [Next]_vars => Launches'
    BY LaunchesNext
  <1> QED
    BY <1>1, <1>2, LaunchesInit, Inductive, PTL DEF Spec

-----------------------------------------------------------------------------
(* The lineage of a tree in which no id is launched twice.                 *)

(* Calls that hold a reservation, before their run is spawned and after.   *)
Early(c)    == call[c].pc \in {"reserved", "preparing", "prepared", "failed"}
InLaunch(c) == Early(c) \/ call[c].pc = "launched"

OneCallEach ==
  \A c, d \in Call : InLaunch(c) /\ InLaunch(d) /\ call[c].task = call[d].task => c = d

(* What a call is launching is not a child yet, and before the spawn it is *)
(* nothing the tree knows.                                                 *)
Fresh ==
  \A c \in Call :
    /\ InLaunch(c) => call[c].task \notin DOMAIN parentOf
    /\ Early(c) => /\ call[c].task \notin DOMAIN depths
                   /\ \A r \in 1..nruns : run[r].task # call[c].task

OneRunEach == \A r, s \in 1..nruns : run[r].task = run[s].task => r = s

(* A run's task is a child of the session that launched it, or about to be *)
(* entered as one.                                                         *)
Entered ==
  \A r \in 1..nruns :
    \/ run[r].task \in DOMAIN parentOf /\ parentOf[run[r].task] = run[run[r].by].task
    \/ \E c \in Call : /\ call[c].pc = "launched"
                       /\ call[c].task = run[r].task /\ call[c].by = run[r].by

ChildrenHaveDepth == DOMAIN parentOf \subseteq DOMAIN depths

(* A run is spawned by one that exists.                                    *)
SpawnersExist == \A r \in 1..nruns : run[r].by <= nruns

Lineage ==
  OneCallEach /\ Fresh /\ OneRunEach /\ Entered /\ ChildrenHaveDepth /\ SpawnersExist

(* The root session has no wrapper, and it is never waiting to start.      *)
RootRun == run[0].inner # "queued" /\ run[0].wrapper = "none"

LEMMA LineageInit == Init => Lineage /\ RootRun
  <1> SUFFICES ASSUME Init PROVE Lineage /\ RootRun
    OBVIOUS
  <1>1. nruns = 0 /\ \A c \in Call : ~InLaunch(c) /\ ~Early(c)
    BY DEF Init, InLaunch, Early, Idle
  <1>2. Lineage
    BY <1>1 DEF Init, Lineage, OneCallEach, Fresh, OneRunEach, Entered, ChildrenHaveDepth,
                SpawnersExist
  <1>3. RootRun
    <2>1. run[0] = [NoRun EXCEPT !.inner = "session"]
      BY BrokerAssumption DEF Init, Run
    <2> QED
      BY <2>1 DEF RootRun, NoRun
  <1> QED
    BY <1>2, <1>3

LEMMA RootRunNext ==
  ASSUME IInv, IInv', RootRun, [Next]_vars
  PROVE  RootRun'
  <1>0. 0 \in Run /\ nruns \in Nat /\ TypeOK
    BY RunNumbers DEF IInv
  <1>1. CASE \E c \in Call : Spawn(c)
    BY <1>0, <1>1, SpawnAddsOne DEF RootRun
  <1>2. CASE AgentStep \/ \E c \in Call : CallStep(c) /\ ~Spawn(c)
    BY <1>2 DEF AgentStep, CallStep, Reserve, Await, SetTaskStatus, Check, WriteReady, Register,
                Unrecord, Observe, ReleaseFanout, AwaitTimeout, RootRun
  <1>3. ASSUME NEW q \in Run, RunStep(q) \/ WrapperStep(q)
        PROVE  RootRun'
    <2>1. q # 0
      BY <1>3 DEF RunStep, WrapperStep, Start, Break, Settle, WrapperReturns, HardCeiling, RootRun
    <2>2. run'[0] = run[0]
      BY <1>0, <1>3, <2>1 DEF RunStep, WrapperStep, Start, Break, Settle, WrapperReturns,
                              HardCeiling, TypeOK
    <2> QED
      BY <2>2 DEF RootRun
  <1>4. CASE RootReturns \/ RootStalls
    BY <1>0, <1>4 DEF RootReturns, RootStalls, RootRun, TypeOK
  <1>5. CASE RootErrs
    BY <1>0, <1>5 DEF RootErrs, RootRun, TypeOK
  <1>6. CASE RuntimeStops
    <2>1. run'[0] = [run[0] EXCEPT !.inner = IF Unsettled(0) THEN "killed" ELSE @,
                                   !.wrapper = IF @ = "live" THEN "aborted" ELSE @]
      BY <1>0, <1>6 DEF RuntimeStops
    <2>2. run[0] \in [task : Task, depth : Nat, by : Run, inner : Inner, wrapper : Wrapper]
      BY <1>0 DEF TypeOK
    <2>3. /\ run'[0].inner = (IF Unsettled(0) THEN "killed" ELSE run[0].inner)
          /\ run'[0].wrapper = (IF run[0].wrapper = "live" THEN "aborted" ELSE run[0].wrapper)
      BY <2>1, <2>2
    <2> QED
      BY <2>3 DEF RootRun
  <1>7. CASE Drain \/ Exited \/ UNCHANGED vars
    BY <1>7 DEF Drain, Exited, vars, RootRun
  <1> QED
    BY <1>1, <1>2, <1>3, <1>4, <1>5, <1>6, <1>7 DEF Next

(* Steps that launch nothing, enter no child and give no new task a depth. *)
LEMMA LineageFrame ==
  ASSUME IInv, Lineage, nruns' = nruns, parentOf' = parentOf,
         \A r \in Run : run'[r].task = run[r].task /\ run'[r].by = run[r].by,
         \A t \in DOMAIN depths' :
            t \in DOMAIN depths \/ \E r \in 1..nruns : run[r].task = t,
         DOMAIN depths \subseteq DOMAIN depths',
         \A c \in Call :
            /\ InLaunch(c)' => InLaunch(c) /\ call'[c].task = call[c].task
            /\ Early(c)' => Early(c)
            /\ call[c].pc = "launched" => call'[c] = call[c]
  PROVE  Lineage'
  <1>1. /\ \A r \in 1..nruns : /\ r \in Run /\ run[r].by \in Run
                               /\ run'[r].task = run[r].task /\ run'[r].by = run[r].by
        /\ \A r \in Run : run'[r].task = run[r].task
    BY RunNumbers DEF IInv, TypeOK
  <1>2. OneCallEach'
    BY DEF Lineage, OneCallEach
  <1>3. Fresh'
    <2>1. ASSUME NEW c \in Call, InLaunch(c)'
          PROVE  call'[c].task \notin DOMAIN parentOf'
      BY <2>1 DEF Lineage, Fresh
    <2>2. ASSUME NEW c \in Call, Early(c)'
          PROVE  /\ call'[c].task \notin DOMAIN depths'
                 /\ \A r \in 1..nruns' : run'[r].task # call'[c].task
      <3>1. Early(c) /\ call'[c].task = call[c].task
        BY <2>2 DEF InLaunch
      <3>2. call[c].task \notin DOMAIN depths /\ \A r \in 1..nruns : run[r].task # call[c].task
        BY <3>1 DEF Lineage, Fresh
      <3> QED
        BY <1>1, <3>1, <3>2
    <2> QED
      BY <2>1, <2>2 DEF Fresh
  <1>4. OneRunEach'
    BY <1>1 DEF Lineage, OneRunEach
  <1>5. Entered'
    <2> SUFFICES ASSUME NEW r \in 1..nruns
                 PROVE  \/ run[r].task \in DOMAIN parentOf /\ parentOf[run[r].task] = run[run[r].by].task
                        \/ \E c \in Call : /\ call'[c].pc = "launched"
                                           /\ call'[c].task = run[r].task /\ call'[c].by = run[r].by
      BY <1>1 DEF Entered
    <2> QED
      BY DEF Lineage, Entered
  <1>6. ChildrenHaveDepth'
    BY DEF Lineage, ChildrenHaveDepth
  <1>7. SpawnersExist'
    BY <1>1 DEF Lineage, SpawnersExist
  <1> QED
    BY <1>2, <1>3, <1>4, <1>5, <1>6, <1>7 DEF Lineage

(* An id is reserved only if the tree has never met it.                    *)
LEMMA ReserveLineage ==
  ASSUME "rerun" \notin Habit, IInv, Lineage,
         NEW c \in Call, NEW r \in Run, NEW t \in Task, Reserve(c, r, t)
  PROVE  Lineage'
  <1>1. /\ t \notin DOMAIN depths
        /\ \A d \in Call : call[d].pc # "idle" => call[d].task # t
        /\ UNCHANGED <<nruns, run, parentOf, depths>>
    BY DEF Reserve, tree
  <1>2. /\ call'[c].pc = "reserved" /\ call'[c].task = t /\ call[c].pc = "idle"
        /\ \A d \in Call : d # c => call'[d] = call[d]
    BY DEF Reserve, IInv, TypeOK
  <1>3. t \notin DOMAIN parentOf
    BY <1>1 DEF Lineage, ChildrenHaveDepth
  <1>4. \A q \in 1..nruns : run[q].task # t
    BY <1>1, <1>3 DEF Lineage, Entered
  <1>5. \A d \in Call : /\ InLaunch(d) => call[d].task # t
                        /\ InLaunch(d)' /\ d # c => InLaunch(d) /\ call'[d] = call[d]
                        /\ Early(d)' /\ d # c => Early(d)
    BY <1>1, <1>2 DEF InLaunch, Early
  <1>6. OneCallEach'
    BY <1>2, <1>5 DEF Lineage, OneCallEach
  <1>7. Fresh'
    <2>1. \A d \in Call : d # c =>
            /\ InLaunch(d)' => call'[d].task \notin DOMAIN parentOf'
            /\ Early(d)' => /\ call'[d].task \notin DOMAIN depths'
                            /\ \A q \in 1..nruns' : run'[q].task # call'[d].task
      BY <1>1, <1>2, <1>5 DEF Lineage, Fresh
    <2>2. /\ call'[c].task \notin DOMAIN parentOf' /\ call'[c].task \notin DOMAIN depths'
          /\ \A q \in 1..nruns' : run'[q].task # call'[c].task
      BY <1>1, <1>2, <1>3, <1>4
    <2> QED
      BY <2>1, <2>2 DEF Fresh
  <1>8. Entered'
    <2>1. \A d \in Call : call[d].pc = "launched" => call'[d] = call[d]
      BY <1>2
    <2> QED
      BY <1>1, <2>1 DEF Lineage, Entered
  <1> QED
    BY <1>1, <1>6, <1>7, <1>8 DEF Lineage, OneRunEach, ChildrenHaveDepth, SpawnersExist

(* The run a call spawns is the only one of its task.                      *)
LEMMA SpawnLineage ==
  ASSUME IInv, IInv', Lineage, NEW c \in Call, Spawn(c)
  PROVE  Lineage'
  <1> DEFINE new == nruns'
             t   == call[c].task
  <1>1. /\ call[c].pc = "prepared" /\ call'[c].pc = "launched"
        /\ \A d \in Call : /\ call'[d].task = call[d].task /\ call'[d].by = call[d].by
                           /\ d # c => call'[d].pc = call[d].pc
        /\ UNCHANGED <<parentOf, depths>>
    BY DEF Spawn, tree, IInv, TypeOK
  <1>2. /\ run'[new].task = t /\ run'[new].by = call[c].by
        /\ \A r \in Run : r # new => run'[r] = run[r]
        /\ 1..new = (1..nruns) \cup {new} /\ new \notin 1..nruns
        /\ 1..nruns \subseteq Run
    BY SpawnAddsOne
  <1>3. /\ nruns \in Nat /\ new = nruns + 1
        /\ \A r \in 1..nruns : run'[r] = run[r] /\ run[r].by \in Run /\ run[r].by <= nruns
        /\ call[c].by \in Run /\ call[c].by <= nruns
    BY <1>2, SpawnAddsOne DEF Lineage, SpawnersExist, IInv, TypeOK, RunsNumbered
  <1>4. \A r \in 1..nruns : run'[run[r].by].task = run[run[r].by].task
    <2> SUFFICES ASSUME NEW r \in 1..nruns PROVE run'[run[r].by].task = run[run[r].by].task
      OBVIOUS
    <2>1. run[r].by # new
      BY <1>3 DEF Run
    <2> QED
      BY <1>2, <1>3, <2>1
  <1>5. /\ t \notin DOMAIN parentOf /\ t \notin DOMAIN depths
        /\ \A r \in 1..nruns : run[r].task # t
    BY <1>1 DEF Lineage, Fresh, Early, InLaunch
  <1>6. \A d \in Call : /\ InLaunch(d)' <=> InLaunch(d)
                        /\ Early(d)' => Early(d) /\ d # c
    BY <1>1 DEF InLaunch, Early
  <1> HIDE DEF new
  <1>7. OneCallEach'
    BY <1>1, <1>6 DEF Lineage, OneCallEach
  <1>8. Fresh'
    <2>1. ASSUME NEW d \in Call, InLaunch(d)'
          PROVE  call'[d].task \notin DOMAIN parentOf'
      BY <1>1, <1>6, <2>1 DEF Lineage, Fresh
    <2>2. ASSUME NEW d \in Call, Early(d)'
          PROVE  /\ call'[d].task \notin DOMAIN depths'
                 /\ \A r \in 1..new : run'[r].task # call'[d].task
      <3>1. Early(d) /\ d # c /\ InLaunch(d) /\ InLaunch(c)
        BY <1>1, <1>6, <2>2 DEF InLaunch, Early
      <3>2. call[d].task # t
        BY <3>1 DEF Lineage, OneCallEach
      <3>3. call[d].task \notin DOMAIN depths /\ \A r \in 1..nruns : run[r].task # call[d].task
        BY <3>1 DEF Lineage, Fresh
      <3> QED
        BY <1>1, <1>2, <1>3, <3>2, <3>3
    <2> QED
      BY <2>1, <2>2 DEF Fresh, new
  <1>9. OneRunEach'
    <2>1. \A r, s \in 1..new : run'[r].task = run'[s].task => r = s
      BY <1>2, <1>3, <1>5 DEF Lineage, OneRunEach
    <2> QED
      BY <2>1 DEF OneRunEach, new
  <1>10. Entered'
    <2>1. ASSUME NEW r \in 1..nruns
          PROVE  \/ /\ run'[r].task \in DOMAIN parentOf'
                    /\ parentOf'[run'[r].task] = run'[run'[r].by].task
                 \/ \E d \in Call : /\ call'[d].pc = "launched"
                                    /\ call'[d].task = run'[r].task /\ call'[d].by = run'[r].by
      <3>1. CASE run[r].task \in DOMAIN parentOf /\ parentOf[run[r].task] = run[run[r].by].task
        BY <1>1, <1>3, <1>4, <3>1
      <3>2. CASE \E d \in Call : /\ call[d].pc = "launched"
                                 /\ call[d].task = run[r].task /\ call[d].by = run[r].by
        BY <1>1, <1>3, <3>2
      <3> QED
        BY <3>1, <3>2 DEF Lineage, Entered
    <2>2. \E d \in Call : /\ call'[d].pc = "launched"
                          /\ call'[d].task = run'[new].task /\ call'[d].by = run'[new].by
      BY <1>1, <1>2
    <2>3. \A r \in 1..new :
             \/ /\ run'[r].task \in DOMAIN parentOf'
                /\ parentOf'[run'[r].task] = run'[run'[r].by].task
             \/ \E d \in Call : /\ call'[d].pc = "launched"
                                /\ call'[d].task = run'[r].task /\ call'[d].by = run'[r].by
      BY <1>2, <2>1, <2>2
    <2> QED
      BY <2>3 DEF Entered, new
  <1>11. SpawnersExist'
    <2>1. \A r \in 1..new : run'[r].by <= new
      BY <1>2, <1>3 DEF Run
    <2> QED
      BY <2>1 DEF SpawnersExist, new
  <1> QED
    BY <1>1, <1>7, <1>8, <1>9, <1>10, <1>11 DEF Lineage, ChildrenHaveDepth

(* The answer of a launch enters its child in the lineage, for the first   *)
(* time.                                                                   *)
LEMMA RegisterLineage ==
  ASSUME IInv, Lineage, NEW c \in Call, Register(c)
  PROVE  Lineage'
  <1> DEFINE t == call[c].task
             p == run[call[c].by].task
  <1>1. /\ call[c].pc = "launched" /\ call'[c].pc = "idle"
        /\ \A d \in Call : d # c => call'[d] = call[d]
        /\ depths' = Insert(depths, t, call[c].depth) /\ parentOf' = Insert(parentOf, t, p)
        /\ UNCHANGED <<nruns, run>>
    BY DEF Register, Idle, IInv, TypeOK
  <1>2. /\ DOMAIN depths' = DOMAIN depths \cup {t}
        /\ DOMAIN parentOf' = DOMAIN parentOf \cup {t} /\ parentOf'[t] = p
        /\ \A x \in DOMAIN parentOf : x # t => parentOf'[x] = parentOf[x]
    BY <1>1 DEF Insert
  <1>3. \A d \in Call : /\ InLaunch(d)' => InLaunch(d) /\ d # c /\ call[d].task # t
                        /\ Early(d)' => Early(d) /\ d # c /\ call[d].task # t
    <2>1. \A d \in Call : (InLaunch(d)' => InLaunch(d) /\ d # c) /\ (Early(d)' => Early(d) /\ d # c)
      BY <1>1 DEF InLaunch, Early
    <2>2. InLaunch(c)
      BY <1>1 DEF InLaunch
    <2> QED
      BY <2>1, <2>2 DEF Lineage, OneCallEach, InLaunch
  <1>4. OneCallEach'
    BY <1>1, <1>3 DEF Lineage, OneCallEach
  <1>5. Fresh'
    BY <1>1, <1>2, <1>3 DEF Lineage, Fresh
  <1>6. Entered'
    <2> SUFFICES ASSUME NEW r \in 1..nruns
                 PROVE  \/ run[r].task \in DOMAIN parentOf' /\ parentOf'[run[r].task] = run[run[r].by].task
                        \/ \E d \in Call : /\ call'[d].pc = "launched"
                                           /\ call'[d].task = run[r].task /\ call'[d].by = run[r].by
      BY <1>1 DEF Entered
    <2>1. CASE run[r].task \in DOMAIN parentOf /\ parentOf[run[r].task] = run[run[r].by].task
      <3>1. t \notin DOMAIN parentOf
        BY <1>1 DEF Lineage, Fresh, InLaunch
      <3> QED
        BY <1>2, <2>1, <3>1
    <2>2. ASSUME NEW d \in Call, call[d].pc = "launched",
                 call[d].task = run[r].task, call[d].by = run[r].by
          PROVE  \/ run[r].task \in DOMAIN parentOf' /\ parentOf'[run[r].task] = run[run[r].by].task
                 \/ call'[d].pc = "launched" /\ call'[d].task = run[r].task /\ call'[d].by = run[r].by
      BY <1>1, <1>2, <2>2
    <2> QED
      BY <2>1, <2>2 DEF Lineage, Entered
  <1>7. ChildrenHaveDepth'
    BY <1>2 DEF Lineage, ChildrenHaveDepth
  <1>8. OneRunEach' /\ SpawnersExist'
    BY <1>1 DEF Lineage, OneRunEach, SpawnersExist
  <1> QED
    BY <1>4, <1>5, <1>6, <1>7, <1>8 DEF Lineage

LEMMA LineageNext ==
  ASSUME "rerun" \notin Habit, IInv, IInv', Lineage, RootRun, [Next]_vars
  PROVE  Lineage'
  <1>1. CASE \E c \in Call, r \in Run, t \in Task : Reserve(c, r, t)
    BY <1>1, ReserveLineage
  <1>2. CASE \E c \in Call : Spawn(c)
    BY <1>2, SpawnLineage
  <1>3. CASE \E c \in Call : Register(c)
    BY <1>3, RegisterLineage
  <1>4. ASSUME NEW c \in Call, CallStep(c), ~Spawn(c), ~Register(c)
        PROVE  Lineage'
    <2>1. UNCHANGED <<nruns, run, parentOf, depths>>
      BY <1>4 DEF CallStep, Check, WriteReady, Unrecord, Observe, ReleaseFanout, AwaitTimeout, tree
    <2>2. ASSUME NEW d \in Call
          PROVE  /\ InLaunch(d)' => InLaunch(d) /\ call'[d].task = call[d].task
                 /\ Early(d)' => Early(d)
                 /\ call[d].pc = "launched" => call'[d] = call[d]
      <3>1. d # c => call'[d] = call[d]
        BY <1>4 DEF CallStep, Check, WriteReady, Unrecord, Observe, ReleaseFanout, AwaitTimeout,
                    IInv, TypeOK
      <3>2. CASE Check(c) \/ WriteReady(c)
        BY <3>1, <3>2 DEF Check, WriteReady, InLaunch, Early, IInv, TypeOK
      <3>3. CASE Unrecord(c) \/ Observe(c) \/ ReleaseFanout(c) \/ AwaitTimeout(c)
        BY <3>1, <3>3 DEF Unrecord, Observe, ReleaseFanout, AwaitTimeout, Idle, InLaunch, Early,
                          IInv, TypeOK
      <3> QED
        BY <1>4, <3>2, <3>3 DEF CallStep
    <2> QED
      BY <2>1, <2>2, LineageFrame
  <1>5. ASSUME NEW c \in Call, NEW r \in Run, NEW t \in Task, Await(c, r, t)
        PROVE  Lineage'
    <2>1. UNCHANGED <<nruns, run, parentOf, depths>>
      BY <1>5 DEF Await, tree
    <2>2. \A d \in Call : /\ InLaunch(d)' => InLaunch(d) /\ call'[d].task = call[d].task
                          /\ Early(d)' => Early(d)
                          /\ call[d].pc = "launched" => call'[d] = call[d]
      BY <1>5 DEF Await, InLaunch, Early, IInv, TypeOK
    <2> QED
      BY <2>1, <2>2, LineageFrame
  <1>6. ASSUME UNCHANGED <<call, parentOf>>, \A c \in Call : ~Spawn(c),
               \/ depths' = depths
               \/ \E q \in Run : Start(q)
        PROVE  Lineage'
    <2>1. /\ nruns' = nruns
          /\ \A r \in Run : run'[r].task = run[r].task /\ run'[r].by = run[r].by
      BY <1>6, RunsStand DEF IInv
    <2>2. /\ DOMAIN depths \subseteq DOMAIN depths'
          /\ \A t \in DOMAIN depths' : t \in DOMAIN depths \/ \E r \in 1..nruns : run[r].task = t
      <3>1. CASE depths' = depths
        BY <3>1
      <3>2. ASSUME NEW q \in Run, Start(q)
            PROVE  /\ DOMAIN depths \subseteq DOMAIN depths'
                   /\ \A t \in DOMAIN depths' :
                        t \in DOMAIN depths \/ \E r \in 1..nruns : run[r].task = t
        <4>1. run[q].inner = "queued" /\ DOMAIN depths' = DOMAIN depths \cup {run[q].task}
          BY <3>2 DEF Start, Insert
        <4>2. q # 0 /\ ~(q > nruns)
          BY <4>1 DEF RootRun, IInv, RunsNumbered
        <4>3. q \in 1..nruns
          BY <4>2, BrokerAssumption DEF IInv, TypeOK, Run
        <4> QED
          BY <4>1, <4>3
      <3> QED
        BY <1>6, <3>1, <3>2
    <2>3. \A c \in Call : /\ InLaunch(c)' => InLaunch(c) /\ call'[c].task = call[c].task
                          /\ Early(c)' => Early(c)
                          /\ call[c].pc = "launched" => call'[c] = call[c]
      BY <1>6 DEF InLaunch, Early
    <2> QED
      BY <1>6, <2>1, <2>2, <2>3, LineageFrame
  <1>7. ASSUME NEW r \in Run, RunStep(r) \/ WrapperStep(r)
        PROVE  Lineage'
    <2>1. UNCHANGED <<call, parentOf>> /\ (depths' = depths \/ Start(r))
      BY <1>7 DEF RunStep, WrapperStep, Start, Break, Settle, WrapperReturns, HardCeiling, tree
    <2>2. \A c \in Call : ~Spawn(c)
      BY <2>1 DEF Spawn, IInv, TypeOK
    <2> QED
      BY <1>6, <2>1, <2>2
  <1>8. ASSUME \/ \E r \in Run, t \in Task, s \in Status : SetTaskStatus(r, t, s)
               \/ RootReturns \/ Drain \/ RootErrs \/ RootStalls \/ RuntimeStops \/ Exited
               \/ UNCHANGED vars
        PROVE  Lineage'
    <2>1. UNCHANGED <<call, parentOf, depths>>
      BY <1>8 DEF SetTaskStatus, RootReturns, Drain, RootErrs, RootStalls, RuntimeStops, Exited,
                  vars, tree
    <2>2. \A c \in Call : ~Spawn(c)
      BY <2>1 DEF Spawn, IInv, TypeOK
    <2> QED
      BY <1>6, <2>1, <2>2
  <1> QED
    BY <1>1, <1>2, <1>3, <1>4, <1>5, <1>7, <1>8 DEF Next, AgentStep

-----------------------------------------------------------------------------
(* What a wrapper leaves behind.                                           *)

(* Only the reset to `ready` takes an end status away.                     *)
LEMMA EndsStand ==
  ASSUME TypeOK, [Next]_vars, NEW t \in Task, Terminal(t),
         \A c \in Call : WriteReady(c) => call[c].task # t
  PROVE  Terminal(t)'
  <1>1. CASE AgentStep
    <2>1. CASE \E c \in Call, r \in Run, u \in Task : Reserve(c, r, u) \/ Await(c, r, u)
      BY <2>1 DEF Reserve, Await, Terminal
    <2>2. ASSUME NEW r \in Run, NEW u \in Task, NEW s \in Status, SetTaskStatus(r, u, s)
          PROVE  Terminal(t)'
      BY <2>2 DEF SetTaskStatus, Terminal, IsTerminal, TypeOK
    <2> QED
      BY <1>1, <2>1, <2>2 DEF AgentStep
  <1>2. ASSUME NEW c \in Call, CallStep(c)
        PROVE  Terminal(t)'
    <2>1. CASE WriteReady(c)
      BY <2>1 DEF WriteReady, Terminal, TypeOK
    <2>2. CASE ~WriteReady(c)
      BY <1>2, <2>2 DEF CallStep, Check, Spawn, Register, Unrecord, Observe, ReleaseFanout,
                        AwaitTimeout, Terminal
    <2> QED
      BY <2>1, <2>2
  <1>3. ASSUME NEW r \in Run, RunStep(r) \/ WrapperStep(r)
        PROVE  Terminal(t)'
    <2>1. CASE Start(r)
      BY <2>1 DEF Start, Terminal, IsTerminal, TypeOK
    <2>2. CASE Break(r)
      BY <2>2 DEF Break, Terminal
    <2>3. ASSUME NEW s \in Status, Settle(r, s)
          PROVE  Terminal(t)'
      BY <2>3, BrokerAssumption DEF Settle, Terminal, IsTerminal, TypeOK
    <2>4. CASE WrapperStep(r)
      BY <2>4 DEF WrapperStep, WrapperReturns, HardCeiling, ForceTerminal, Terminal, IsTerminal, TypeOK
    <2> QED
      BY <1>3, <2>1, <2>2, <2>3, <2>4 DEF RunStep
  <1>4. CASE RootReturns \/ Drain \/ RootErrs \/ RootStalls \/ RuntimeStops \/ Exited \/ UNCHANGED vars
    BY <1>4 DEF RootReturns, Drain, RootErrs, RootStalls, RuntimeStops, Exited, vars, Terminal
  <1> QED
    BY <1>1, <1>2, <1>3, <1>4 DEF Next

(* In a tree that launches no id twice nothing resets the task of a run.   *)
LEMMA RunEndsStand ==
  ASSUME IInv, Lineage, [Next]_vars, NEW r \in 1..nruns, Terminal(run[r].task)
  PROVE  IsTerminal(status'[run[r].task])
  <1>1. \A c \in Call : WriteReady(c) => call[c].task # run[r].task
    BY DEF Lineage, Fresh, Early, WriteReady
  <1>2. run[r].task \in Task
    BY RunNumbers DEF IInv, TypeOK
  <1>3. PICK t \in Task : t = run[r].task
    BY <1>2
  <1>4. Terminal(t)'
    BY <1>1, <1>3, EndsStand DEF IInv
  <1> QED
    BY <1>3, <1>4 DEF Terminal

(* A run that returned Ok has left its verdict in the file.                *)
OkIsTerminal == \A r \in 1..nruns : run[r].inner = "ok" => Terminal(run[r].task)

LEMMA OkNext ==
  ASSUME IInv, IInv', Lineage, OkIsTerminal, [Next]_vars
  PROVE  OkIsTerminal'
  <1>1. ASSUME NEW c \in Call, Spawn(c)
        PROVE  OkIsTerminal'
    <2>1. /\ run'[nruns'].inner # "ok"
          /\ \A r \in 1..nruns : run'[r] = run[r]
          /\ 1..nruns' = (1..nruns) \cup {nruns'}
      BY <1>1, SpawnAddsOne
    <2>2. status' = status
      BY <1>1 DEF Spawn
    <2> QED
      BY <2>1, <2>2 DEF OkIsTerminal, Terminal
  <1>2. ASSUME \A c \in Call : ~Spawn(c)
        PROVE  OkIsTerminal'
    <2>0. /\ nruns' = nruns
          /\ \A r \in 1..nruns : r \in Run /\ r # 0 /\ run'[r].task = run[r].task
                                 /\ run[r].task \in Task
      BY <1>2, RunsStand, RunNumbers DEF IInv, TypeOK
    <2> SUFFICES ASSUME NEW r \in 1..nruns, run'[r].inner = "ok"
                 PROVE  IsTerminal(status'[run[r].task])
      BY <2>0 DEF OkIsTerminal, Terminal
    <2>1. ASSUME NEW s \in Status, Settle(r, s)
          PROVE  IsTerminal(status'[run[r].task])
      BY <2>0, <2>1, BrokerAssumption DEF Settle, IsTerminal, IInv, TypeOK
    <2>2. ASSUME \A s \in Status : ~Settle(r, s)
          PROVE  run[r].inner = "ok"
      <3>1. CASE AgentStep \/ \E c \in Call : CallStep(c)
        BY <1>2, <3>1 DEF AgentStep, CallStep, Reserve, Await, SetTaskStatus, Check, WriteReady,
                    Register, Unrecord, Observe, ReleaseFanout, AwaitTimeout
      <3>2. ASSUME NEW q \in Run, RunStep(q) \/ WrapperStep(q)
            PROVE  run[r].inner = "ok"
        <4>1. CASE Start(q) \/ Break(q)
          BY <2>0, <4>1 DEF Start, Break, IInv, TypeOK
        <4>2. ASSUME NEW s \in Status, Settle(q, s)
              PROVE  run[r].inner = "ok"
          <5>1. q # r
            BY <2>2, <4>2
          <5> QED
            BY <2>0, <4>2, <5>1 DEF Settle, IInv, TypeOK
        <4>3. CASE WrapperStep(q)
          BY <2>0, <4>3 DEF WrapperStep, WrapperReturns, HardCeiling, IInv, TypeOK
        <4> QED
          BY <3>2, <4>1, <4>2, <4>3 DEF RunStep
      <3>3. CASE RootReturns \/ RootStalls
        BY <2>0, <3>3 DEF RootReturns, RootStalls, IInv, TypeOK
      <3>4. CASE RootErrs
        <4>1. run'[r] = [run[r] EXCEPT !.wrapper = "aborted"] \/ run'[r] = run[r]
          BY <2>0, <3>4 DEF RootErrs
        <4>2. run[r] \in [task : Task, depth : Nat, by : Run, inner : Inner, wrapper : Wrapper]
          BY <2>0 DEF IInv, TypeOK
        <4>3. run'[r].inner = run[r].inner
          BY <4>1, <4>2
        <4> QED
          BY <4>3
      <3>5. CASE RuntimeStops
        <4>1. run'[r] = [run[r] EXCEPT !.inner = IF Unsettled(r) THEN "killed" ELSE @,
                                       !.wrapper = IF @ = "live" THEN "aborted" ELSE @]
          BY <2>0, <3>5 DEF RuntimeStops
        <4>2. run[r] \in [task : Task, depth : Nat, by : Run, inner : Inner, wrapper : Wrapper]
          BY <2>0 DEF IInv, TypeOK
        <4>3. run'[r].inner = (IF Unsettled(r) THEN "killed" ELSE run[r].inner)
          BY <4>1, <4>2
        <4> QED
          BY <4>3
      <3>6. CASE Drain \/ Exited \/ UNCHANGED vars
        BY <3>6 DEF Drain, Exited, vars
      <3> QED
        BY <3>1, <3>2, <3>3, <3>4, <3>5, <3>6 DEF Next
    <2>3. CASE run[r].inner = "ok"
      BY <2>3, RunEndsStand DEF OkIsTerminal
    <2> QED
      BY <2>1, <2>2, <2>3
  <1> QED
    BY <1>1, <1>2

(* Only the wrapper itself finishes, by one of its two ways.               *)
LEMMA WrapperChanges ==
  ASSUME TypeOK, [Next]_vars, NEW r \in Run, \A c \in Call : ~Spawn(c)
  PROVE  \/ run'[r].wrapper = run[r].wrapper
         \/ WrapperReturns(r) \/ HardCeiling(r)
         \/ run[r].wrapper = "live" /\ run'[r].wrapper = "aborted" /\ phase' \in {"aborted", "exited"}
  <1>1. CASE AgentStep \/ \E c \in Call : CallStep(c)
    BY <1>1 DEF AgentStep, CallStep, Reserve, Await, SetTaskStatus, Check, WriteReady,
                Register, Unrecord, Observe, ReleaseFanout, AwaitTimeout
  <1>2. ASSUME NEW q \in Run, RunStep(q) \/ WrapperStep(q)
        PROVE  \/ run'[r].wrapper = run[r].wrapper
               \/ WrapperReturns(r) \/ HardCeiling(r)
    <2>1. CASE RunStep(q)
      BY <2>1 DEF RunStep, Start, Break, Settle, TypeOK
    <2>2. CASE WrapperStep(q) /\ q # r
      BY <2>2 DEF WrapperStep, WrapperReturns, HardCeiling, TypeOK
    <2>3. CASE WrapperStep(q) /\ q = r
      BY <2>3 DEF WrapperStep
    <2> QED
      BY <1>2, <2>1, <2>2, <2>3
  <1>3. CASE RootReturns \/ RootStalls
    BY <1>3 DEF RootReturns, RootStalls, TypeOK
  <1>4. CASE RootErrs
    BY <1>4 DEF RootErrs, TypeOK
  <1>5. CASE RuntimeStops
    <2>1. run'[r] = [run[r] EXCEPT !.inner = IF Unsettled(r) THEN "killed" ELSE @,
                                   !.wrapper = IF @ = "live" THEN "aborted" ELSE @]
      BY <1>5 DEF RuntimeStops
    <2>2. run[r] \in [task : Task, depth : Nat, by : Run, inner : Inner, wrapper : Wrapper]
      BY DEF TypeOK
    <2>3. run'[r].wrapper = (IF run[r].wrapper = "live" THEN "aborted" ELSE run[r].wrapper)
      BY <2>1, <2>2
    <2> QED
      BY <1>5, <2>3 DEF RuntimeStops
  <1>6. CASE Drain \/ Exited \/ UNCHANGED vars
    BY <1>6 DEF Drain, Exited, vars
  <1> QED
    BY <1>1, <1>2, <1>3, <1>4, <1>5, <1>6 DEF Next

(* Whichever way it finishes, the run it wraps is over and its task        *)
(* settled, and an outcome that stands in the file is left alone.          *)
LEMMA WrapperDone ==
  ASSUME IInv, RootRun, OkIsTerminal, NEW r \in Run, WrapperReturns(r) \/ HardCeiling(r)
  PROVE  /\ r \in 1..nruns /\ run'[r].wrapper = "done" /\ ~Unsettled(r)'
         /\ IsTerminal(status'[run[r].task])
         /\ Terminal(run[r].task) => status' = status
  <1>1. run[r].wrapper = "live" /\ run[r].inner \in {"ok", "error", "queued", "session"}
    BY DEF WrapperReturns, HardCeiling, Unsettled
  <1>2. r \in 1..nruns
    <2>1. r # 0 /\ ~(r > nruns)
      BY <1>1 DEF RootRun, IInv, RunsNumbered
    <2> QED
      BY <2>1, BrokerAssumption DEF IInv, TypeOK, Run
  <1>3. run[r].task \in Task /\ status \in [Task -> Status]
    BY DEF IInv, TypeOK
  <1>4. run'[r].wrapper = "done" /\ ~Unsettled(r)'
    BY <1>1 DEF WrapperReturns, HardCeiling, Unsettled, IInv, TypeOK
  <1>5. \/ ForceTerminal(run[r].task)
        \/ run[r].inner = "ok" /\ status' = status
    BY DEF WrapperReturns, HardCeiling
  <1>6. IsTerminal(status'[run[r].task]) /\ (Terminal(run[r].task) => status' = status)
    <2>1. CASE ForceTerminal(run[r].task)
      BY <1>3, <2>1 DEF ForceTerminal, Terminal, IsTerminal
    <2>2. CASE run[r].inner = "ok" /\ status' = status
      BY <1>2, <2>2 DEF OkIsTerminal, Terminal
    <2> QED
      BY <1>5, <2>1, <2>2
  <1> QED
    BY <1>2, <1>4, <1>6

(* A run that is still to be spawned has no wrapper.                       *)
UnbornUnwrapped == \A r \in Run : r > nruns => run[r].wrapper = "none"

LEMMA UnbornNext ==
  ASSUME IInv, IInv', UnbornUnwrapped, [Next]_vars
  PROVE  UnbornUnwrapped'
  <1>1. CASE \E c \in Call : Spawn(c)
    <2>1. /\ nruns \in Nat /\ nruns' = nruns + 1
          /\ \A r \in Run : r # nruns' => run'[r] = run[r]
      BY <1>1, SpawnAddsOne
    <2>2. \A r \in Run : r > nruns' => r # nruns' /\ r > nruns
      BY <2>1, BrokerAssumption DEF Run
    <2> QED
      BY <2>1, <2>2 DEF UnbornUnwrapped
  <1>2. ASSUME \A c \in Call : ~Spawn(c), NEW r \in Run, r > nruns'
        PROVE  run'[r].wrapper = "none"
    <2>1. r > nruns
      BY <1>2, RunsStand DEF IInv
    <2>2. run[r].wrapper = "none" /\ run[r].inner = "none"
      BY <2>1 DEF UnbornUnwrapped, IInv, RunsNumbered
    <2>3. ~WrapperReturns(r) /\ ~HardCeiling(r)
      BY <2>2 DEF WrapperReturns, HardCeiling
    <2> QED
      BY <1>2, <2>2, <2>3, WrapperChanges DEF IInv
  <1> QED
    BY <1>1, <1>2 DEF UnbornUnwrapped

OnceInv == Lineage /\ RootRun /\ OkIsTerminal /\ UnbornUnwrapped

LEMMA OnceInductive ==
  ASSUME "rerun" \notin Habit
  PROVE  Spec => []OnceInv
  <1>1. Init => OnceInv
    <2>1. Init => UnbornUnwrapped
      BY DEF Init, UnbornUnwrapped, Run, NoRun
    <2> QED
      BY <2>1, LineageInit DEF Init, OnceInv, OkIsTerminal
  <1>2. IInv /\ IInv' /\ OnceInv /\ [Next]_vars => OnceInv'
    BY LineageNext, RootRunNext, OkNext, UnbornNext DEF OnceInv
  <1> QED
    BY <1>1, <1>2, Inductive, PTL DEF Spec

(* In a tree that launches no id twice, a wrapper that finishes leaves its *)
(* task in an end status and does not replace an outcome that the run, or  *)
(* its agent, has written: however the run ended, whoever is still calling.*)
THEOREM WrappersSettle ==
  ASSUME "rerun" \notin Habit
  PROVE  Spec => WrapperSettles
  <1>1. ASSUME IInv, IInv', OnceInv, [Next]_vars,
               NEW r \in Run, run[r].wrapper = "live", run'[r].wrapper = "done"
        PROVE  /\ IsTerminal(status'[run[r].task])
               /\ Terminal(run[r].task) => status' = status
    <2>1. CASE \E c \in Call : Spawn(c)
      BY <1>1, <2>1, SpawnAddsOne
    <2>2. CASE \A c \in Call : ~Spawn(c)
      <3>1. WrapperReturns(r) \/ HardCeiling(r)
        BY <1>1, <2>2, WrapperChanges DEF IInv
      <3> QED
        BY <1>1, <3>1, WrapperDone DEF OnceInv
    <2> QED
      BY <2>1, <2>2
  <1>2. IInv /\ IInv' /\ OnceInv /\ [Next]_vars
          => [\A r \in Run :
                (run[r].wrapper = "live" /\ run'[r].wrapper = "done") =>
                   /\ IsTerminal(status'[run[r].task])
                   /\ Terminal(run[r].task) => status' = status]_vars
    BY <1>1
  <1> QED
    BY <1>2, Inductive, OnceInductive, PTL DEF Spec, WrapperSettles

-----------------------------------------------------------------------------
(* The join.                                                               *)

(* Until the join is over, the wrapper of every run is either finished,    *)
(* with its task settled, or known to the root: its handle is in the map   *)
(* or among those the join has taken out and awaits.                       *)
RunsAccounted ==
  \A r \in 1..nruns :
    \/ /\ run[r].wrapper = "live"
       /\ (run[r].task \in DOMAIN handles /\ handles[run[r].task] = r) \/ r \in joining
    \/ run[r].wrapper = "done" /\ ~Unsettled(r) /\ Terminal(run[r].task)

JoinInv ==
  phase \in {"session", "joining"} =>
    /\ phase = "joining" => run[0].inner = "ok"
    /\ RunsAccounted

LEMMA JoinInit == Init => JoinInv
  <1>1. Init => nruns = 0 /\ phase = "session"
    BY DEF Init
  <1> QED
    BY <1>1 DEF JoinInv, RunsAccounted

(* The run of a new call gets the handle of a task that had none.          *)
LEMMA SpawnJoin ==
  ASSUME IInv, IInv', Lineage, JoinInv, NEW c \in Call, Spawn(c)
  PROVE  JoinInv'
  <1> DEFINE new == nruns'
             t   == call[c].task
  <1>1. call[c].pc = "prepared" /\ UNCHANGED <<status, phase, joining>> /\ handles' = Insert(handles, t, new)
    BY DEF Spawn
  <1>2. /\ run'[new].task = t /\ 0 \in Run /\ new # 0
        /\ phase # "exited" => run'[new].wrapper = "live"
        /\ \A r \in Run : r # new => run'[r] = run[r]
        /\ 1..new = (1..nruns) \cup {new} /\ new \notin 1..nruns /\ 1..nruns \subseteq Run
    <2>1. nruns \in Nat /\ new = nruns + 1 /\ 0 \in Run
      BY RunNumbers, SpawnAddsOne DEF IInv
    <2> QED
      BY <2>1, SpawnAddsOne
  <1> HIDE DEF new
  <1>3. \A r \in 1..nruns : run[r].task # t
    BY <1>1 DEF Lineage, Fresh, Early
  <1>4. /\ t \in DOMAIN handles' /\ handles'[t] = new
        /\ \A x \in DOMAIN handles : x # t => x \in DOMAIN handles' /\ handles'[x] = handles[x]
    BY <1>1 DEF Insert
  <1>5. ASSUME phase \in {"session", "joining"}
        PROVE  RunsAccounted'
    <2> SUFFICES ASSUME NEW r \in 1..new
                 PROVE  \/ /\ run'[r].wrapper = "live"
                           /\ \/ run'[r].task \in DOMAIN handles' /\ handles'[run'[r].task] = r
                              \/ r \in joining'
                        \/ /\ run'[r].wrapper = "done" /\ ~Unsettled(r)'
                           /\ IsTerminal(status'[run'[r].task])
      BY DEF RunsAccounted, Terminal, new
    <2>1. CASE r = new
      BY <1>1, <1>2, <1>4, <1>5, <2>1
    <2>2. CASE r # new
      <3>1. r \in 1..nruns /\ run'[r] = run[r]
        BY <1>2, <2>2
      <3>2. \/ /\ run[r].wrapper = "live"
               /\ (run[r].task \in DOMAIN handles /\ handles[run[r].task] = r) \/ r \in joining
            \/ run[r].wrapper = "done" /\ ~Unsettled(r) /\ Terminal(run[r].task)
        BY <1>5, <3>1 DEF JoinInv, RunsAccounted
      <3> QED
        BY <1>1, <1>3, <1>4, <3>1, <3>2 DEF Unsettled, Terminal
    <2> QED
      BY <2>1, <2>2
  <1> QED
    BY <1>1, <1>2, <1>5 DEF JoinInv

(* A round of the join: what it awaited has finished, what it takes out of *)
(* the map it awaits next.                                                 *)
LEMMA DrainJoin ==
  ASSUME JoinInv, Drain
  PROVE  JoinInv'
  <1>1. /\ phase = "joining" /\ \A r \in joining : run[r].wrapper # "live"
        /\ joining' = {handles[t] : t \in DOMAIN handles}
        /\ UNCHANGED <<status, nruns, run>>
    BY DEF Drain
  <1>2. RunsAccounted
    BY <1>1 DEF JoinInv
  <1>3. RunsAccounted'
    BY <1>1, <1>2 DEF RunsAccounted, Unsettled, Terminal
  <1> QED
    BY <1>1, <1>3 DEF JoinInv

LEMMA JoinNext ==
  ASSUME IInv, IInv', OnceInv, JoinInv, [Next]_vars
  PROVE  JoinInv'
  <1>1. CASE \E c \in Call : Spawn(c)
    BY <1>1, SpawnJoin DEF OnceInv
  <1>2. CASE Drain
    BY <1>2, DrainJoin
  <1>3. ASSUME \A c \in Call : ~Spawn(c), ~Drain, phase' \in {"session", "joining"}
        PROVE  /\ phase' = "joining" => run'[0].inner = "ok"
               /\ RunsAccounted'
    <2>1. /\ nruns' = nruns
          /\ \A r \in 1..nruns : /\ r \in Run /\ run'[r].task = run[r].task
                                 /\ Unsettled(r)' => Unsettled(r)
      BY <1>3, RunsStand, RunNumbers DEF IInv
    <2>2. /\ phase \in {"session", "joining"} /\ UNCHANGED <<handles, joining>>
          /\ phase' # phase => RootReturns
      <3>1. CASE AgentStep \/ \E c \in Call : CallStep(c)
        BY <1>3, <3>1 DEF AgentStep, CallStep, Reserve, Await, SetTaskStatus, Check, WriteReady,
                    Register, Unrecord, Observe, ReleaseFanout, AwaitTimeout
      <3>2. CASE \E q \in Run : RunStep(q) \/ WrapperStep(q)
        BY <1>3, <3>2 DEF RunStep, WrapperStep, Start, Break, Settle, WrapperReturns, HardCeiling
      <3>3. CASE RootReturns \/ RootStalls \/ RootErrs \/ RuntimeStops
        BY <1>3, <3>3 DEF RootReturns, RootStalls, RootErrs, RuntimeStops
      <3>4. CASE Exited \/ UNCHANGED vars
        BY <1>3, <3>4 DEF Exited, vars
      <3> QED
        BY <1>3, <3>1, <3>2, <3>3, <3>4 DEF Next
    <2>3. RunsAccounted
      BY <2>2 DEF JoinInv
    <2>4. ASSUME NEW r \in 1..nruns
          PROVE  \/ /\ run'[r].wrapper = "live"
                    /\ (run[r].task \in DOMAIN handles /\ handles[run[r].task] = r) \/ r \in joining
                 \/ run'[r].wrapper = "done" /\ ~Unsettled(r)' /\ IsTerminal(status'[run[r].task])
      <3>1. CASE run'[r].wrapper = run[r].wrapper
        <4>1. CASE run[r].wrapper = "live"
          BY <2>3, <3>1, <4>1 DEF RunsAccounted
        <4>2. CASE run[r].wrapper # "live"
          <5>1. run[r].wrapper = "done" /\ ~Unsettled(r) /\ Terminal(run[r].task)
            BY <2>3, <4>2 DEF RunsAccounted
          <5>2. IsTerminal(status'[run[r].task])
            BY <5>1, RunEndsStand DEF OnceInv
          <5> QED
            BY <2>1, <3>1, <5>1, <5>2
        <4> QED
          BY <4>1, <4>2
      <3>2. CASE WrapperReturns(r) \/ HardCeiling(r)
        BY <2>1, <3>2, WrapperDone DEF OnceInv
      <3> QED
        BY <1>3, <2>1, <3>1, <3>2, WrapperChanges DEF IInv
    <2>5. RunsAccounted'
      BY <2>1, <2>2, <2>4 DEF RunsAccounted, Terminal
    <2>6. ASSUME phase' = "joining"
          PROVE  run'[0].inner = "ok"
      <3>0. 0 \in Run
        BY RunNumbers DEF IInv
      <3>1. CASE RootReturns
        BY <3>0, <3>1 DEF RootReturns, IInv, TypeOK
      <3>2. CASE ~RootReturns
        <4>1. phase = "joining" /\ run[0].inner = "ok"
          BY <2>2, <2>6, <3>2 DEF JoinInv
        <4>2. CASE AgentStep \/ \E c \in Call : CallStep(c)
          BY <1>3, <4>1, <4>2 DEF AgentStep, CallStep, Reserve, Await, SetTaskStatus, Check,
                      WriteReady, Register, Unrecord, Observe, ReleaseFanout, AwaitTimeout
        <4>3. ASSUME NEW q \in Run, RunStep(q) \/ WrapperStep(q)
              PROVE  run'[0].inner = "ok"
          <5>1. q # 0
            BY <4>1, <4>3 DEF RunStep, WrapperStep, Start, Break, Settle, WrapperReturns, HardCeiling,
                              OnceInv, RootRun
          <5> QED
            BY <3>0, <4>1, <4>3, <5>1 DEF RunStep, WrapperStep, Start, Break, Settle,
                              WrapperReturns, HardCeiling, IInv, TypeOK
        <4>4. CASE RootStalls \/ RootErrs \/ RuntimeStops
          BY <2>6, <4>4 DEF RootStalls, RootErrs, RuntimeStops
        <4>5. CASE Exited \/ UNCHANGED vars
          BY <4>1, <4>5 DEF Exited, vars
        <4> QED
          BY <1>3, <3>2, <4>2, <4>3, <4>4, <4>5 DEF Next
      <3> QED
        BY <3>1, <3>2
    <2> QED
      BY <2>5, <2>6
  <1> QED
    BY <1>1, <1>2, <1>3 DEF JoinInv

(* When the join of a successful root ends, no run and no wrapper of the   *)
(* tree is left and every child run has settled its task: in every tree    *)
(* that launches no id twice, although calls of killed children may still  *)
(* be in flight.                                                           *)
THEOREM JoinEndsRuns ==
  ASSUME "rerun" \notin Habit
  PROVE  Spec => JoinedMeansOver
  <1>1. ASSUME IInv, OnceInv, JoinInv, [Next]_vars, phase = "joining", phase' = "joined"
        PROVE  (/\ \A r \in Run : ~Unsettled(r) /\ run[r].wrapper # "live"
                /\ \A r \in 1..nruns : Terminal(run[r].task))
    <2>1. Drain
      <3>1. CASE AgentStep \/ \E c \in Call : CallStep(c)
        BY <1>1, <3>1 DEF AgentStep, CallStep, Reserve, Await, SetTaskStatus, Check, WriteReady,
                    Spawn, Register, Unrecord, Observe, ReleaseFanout, AwaitTimeout
      <3>2. CASE \E q \in Run : RunStep(q) \/ WrapperStep(q)
        BY <1>1, <3>2 DEF RunStep, WrapperStep, Start, Break, Settle, WrapperReturns, HardCeiling
      <3>3. CASE RootReturns \/ RootErrs \/ RootStalls \/ RuntimeStops \/ Exited \/ UNCHANGED vars
        BY <1>1, <3>3 DEF RootReturns, RootErrs, RootStalls, RuntimeStops, Exited, vars
      <3> QED
        BY <1>1, <3>1, <3>2, <3>3 DEF Next
    <2>2. /\ DOMAIN handles = {} /\ \A r \in joining : run[r].wrapper # "live"
      BY <1>1, <2>1 DEF Drain
    <2>3. ASSUME NEW r \in 1..nruns
          PROVE  run[r].wrapper = "done" /\ ~Unsettled(r) /\ Terminal(run[r].task)
      BY <1>1, <2>2 DEF JoinInv, RunsAccounted
    <2>4. ~Unsettled(0) /\ run[0].wrapper # "live"
      BY <1>1 DEF JoinInv, OnceInv, RootRun, Unsettled
    <2>5. ASSUME NEW r \in Run, r > nruns
          PROVE  ~Unsettled(r) /\ run[r].wrapper # "live"
      BY <1>1, <2>5 DEF OnceInv, UnbornUnwrapped, IInv, RunsNumbered, Unsettled
    <2>6. \A r \in Run : r = 0 \/ r \in 1..nruns \/ r > nruns
      BY <1>1, BrokerAssumption DEF IInv, TypeOK, Run
    <2> QED
      BY <2>3, <2>4, <2>5, <2>6
  <1>2. IInv /\ OnceInv /\ JoinInv /\ [Next]_vars
          => [phase = "joining" /\ phase' = "joined" =>
                /\ \A r \in Run : ~Unsettled(r) /\ run[r].wrapper # "live"
                /\ \A r \in 1..nruns : Terminal(run[r].task)]_vars
    BY <1>1
  <1>3. IInv /\ IInv' /\ OnceInv /\ JoinInv /\ [Next]_vars => JoinInv'
    BY JoinNext
  <1> QED
    BY <1>2, <1>3, JoinInit, Inductive, OnceInductive, PTL DEF Spec, JoinedMeansOver

-----------------------------------------------------------------------------
(* The tally of a parent.                                                  *)

(* Who is awaited is a child, and a slot is given back for a child whose   *)
(* task is settled.                                                        *)
Awaited ==
  /\ released \subseteq DOMAIN parentOf
  /\ \A t \in released : Terminal(t)
  /\ \A c \in Call :
       /\ call[c].pc \in {"awaiting", "observed"} => call[c].task \in DOMAIN parentOf
       /\ call[c].pc = "observed" => Terminal(call[c].task)

LEMMA AwaitedNext ==
  ASSUME "eager_await" \notin Habit, IInv, Lineage, Awaited, [Next]_vars
  PROVE  Awaited'
  <1>1. ASSUME NEW t \in DOMAIN parentOf, Terminal(t)
        PROVE  IsTerminal(status'[t])
    <2>1. \A c \in Call : WriteReady(c) => call[c].task # t
      BY DEF Lineage, Fresh, Early, InLaunch, WriteReady
    <2>2. PICK u \in Task : u = t
      BY DEF IInv, TypeOK
    <2>3. Terminal(u)'
      BY <1>1, <2>1, <2>2, EndsStand DEF IInv
    <2> QED
      BY <2>2, <2>3 DEF Terminal
  <1>2. DOMAIN parentOf \subseteq DOMAIN parentOf'
    <2>1. parentOf' = parentOf \/ \E c \in Call : Register(c)
      <3>1. CASE AgentStep
        BY <3>1 DEF AgentStep, Reserve, Await, SetTaskStatus, tree
      <3>2. CASE \E c \in Call : CallStep(c)
        BY <3>2 DEF CallStep, Check, WriteReady, Spawn, Unrecord, Observe, ReleaseFanout,
                    AwaitTimeout, tree
      <3>3. CASE \E q \in Run : RunStep(q) \/ WrapperStep(q)
        BY <3>3 DEF RunStep, WrapperStep, Start, Break, Settle, WrapperReturns, HardCeiling, tree
      <3>4. CASE RootReturns \/ Drain \/ RootErrs \/ RootStalls \/ RuntimeStops \/ Exited
                 \/ UNCHANGED vars
        BY <3>4 DEF RootReturns, Drain, RootErrs, RootStalls, RuntimeStops, Exited, vars, tree
      <3> QED
        BY <3>1, <3>2, <3>3, <3>4 DEF Next
    <2> QED
      BY <2>1 DEF Register, Insert
  <1>3. \A t \in released' :
           \/ t \in released
           \/ \E c \in Call : call[c].pc = "observed" /\ call[c].task = t
    <2>1. CASE AgentStep
      BY <2>1 DEF AgentStep, Reserve, Await, SetTaskStatus, tree
    <2>2. CASE \E c \in Call : CallStep(c)
      BY <2>2 DEF CallStep, Check, WriteReady, Spawn, Register, Unrecord, Observe, ReleaseFanout,
                  AwaitTimeout, tree
    <2>3. CASE \E q \in Run : RunStep(q) \/ WrapperStep(q)
      BY <2>3 DEF RunStep, WrapperStep, Start, Break, Settle, WrapperReturns, HardCeiling, tree
    <2>4. CASE RootReturns \/ Drain \/ RootErrs \/ RootStalls \/ RuntimeStops \/ Exited
               \/ UNCHANGED vars
      BY <2>4 DEF RootReturns, Drain, RootErrs, RootStalls, RuntimeStops, Exited, vars, tree
    <2> QED
      BY <2>1, <2>2, <2>3, <2>4 DEF Next
  <1>4. ASSUME NEW d \in Call, call'[d].pc \in {"awaiting", "observed"}
        PROVE  /\ call'[d].task \in DOMAIN parentOf
               /\ call'[d].pc = "observed" => Terminal(call'[d].task)
    <2>1. CASE \E c \in Call, r \in Run, t \in Task : Reserve(c, r, t) \/ Await(c, r, t)
      <3>1. CASE call'[d] = call[d]
        BY <1>4, <3>1 DEF Awaited
      <3>2. CASE call'[d] # call[d]
        <4>1. PICK r \in Run, t \in Task : Reserve(d, r, t) \/ Await(d, r, t)
          BY <2>1, <3>2 DEF Reserve, Await, IInv, TypeOK
        <4>2. Await(d, r, t)
          BY <1>4, <4>1 DEF Reserve, IInv, TypeOK
        <4> QED
          BY <1>4, <4>2 DEF Await, IInv, TypeOK
      <3> QED
        BY <3>1, <3>2
    <2>2. ASSUME NEW c \in Call, CallStep(c)
          PROVE  \/ call'[d] = call[d]
                 \/ /\ call[d].pc = "awaiting" /\ call'[d].task = call[d].task
                    /\ Terminal(call[d].task)
      <3>1. CASE Check(c) \/ WriteReady(c) \/ Spawn(c)
        BY <1>4, <3>1 DEF Check, WriteReady, Spawn, IInv, TypeOK
      <3>2. CASE Register(c) \/ Unrecord(c) \/ ReleaseFanout(c) \/ AwaitTimeout(c)
        BY <1>4, <3>2 DEF Register, Unrecord, ReleaseFanout, AwaitTimeout, Idle, IInv, TypeOK
      <3>3. CASE Observe(c)
        BY <1>4, <3>3 DEF Observe, IInv, TypeOK
      <3> QED
        BY <2>2, <3>1, <3>2, <3>3 DEF CallStep
    <2>3. ASSUME ~(\E c \in Call, r \in Run, t \in Task : Reserve(c, r, t) \/ Await(c, r, t)),
                 ~(\E c \in Call : CallStep(c))
          PROVE  call' = call
      <3>1. CASE AgentStep
        BY <2>3, <3>1 DEF AgentStep, SetTaskStatus
      <3>2. CASE \E q \in Run : RunStep(q) \/ WrapperStep(q)
        BY <3>2 DEF RunStep, WrapperStep, Start, Break, Settle, WrapperReturns, HardCeiling
      <3>3. CASE RootReturns \/ Drain \/ RootErrs \/ RootStalls \/ RuntimeStops \/ Exited
                 \/ UNCHANGED vars
        BY <3>3 DEF RootReturns, Drain, RootErrs, RootStalls, RuntimeStops, Exited, vars
      <3> QED
        BY <2>3, <3>1, <3>2, <3>3 DEF Next
    <2> QED
      BY <1>4, <2>1, <2>2, <2>3 DEF Awaited
  <1>5. \A t \in released' : t \in DOMAIN parentOf /\ Terminal(t)
    BY <1>3 DEF Awaited
  <1> QED
    BY <1>1, <1>2, <1>4, <1>5 DEF Awaited, Terminal

(* The calls that launch for a parent are the same before and after a step *)
(* that begins or answers no launch.                                       *)
LEMMA LaunchingStands ==
  ASSUME IInv, IInv', [Next]_vars,
         \A c \in Call, r \in Run, t \in Task : ~Reserve(c, r, t),
         \A c \in Call : ~Register(c) /\ ~Unrecord(c)
  PROVE  \A p \in Task : Launching(p)' = Launching(p)
  <1>1. ASSUME NEW d \in Call
        PROVE  /\ InLaunch(d)' <=> InLaunch(d)
               /\ InLaunch(d) => call'[d].by = call[d].by
    <2>1. CASE \E c \in Call, r \in Run, t \in Task : Await(c, r, t)
      BY <2>1 DEF Await, InLaunch, Early, IInv, TypeOK
    <2>2. ASSUME NEW c \in Call, CallStep(c)
          PROVE  /\ InLaunch(d)' <=> InLaunch(d)
                 /\ InLaunch(d) => call'[d].by = call[d].by
      <3>1. CASE Check(c) \/ WriteReady(c) \/ Spawn(c)
        BY <3>1 DEF Check, WriteReady, Spawn, InLaunch, Early, IInv, TypeOK
      <3>2. CASE Observe(c) \/ ReleaseFanout(c) \/ AwaitTimeout(c)
        BY <3>2 DEF Observe, ReleaseFanout, AwaitTimeout, Idle, InLaunch, Early, IInv, TypeOK
      <3> QED
        BY <2>2, <3>1, <3>2 DEF CallStep
    <2>3. ASSUME ~(\E c \in Call, r \in Run, t \in Task : Await(c, r, t)),
                 ~(\E c \in Call : CallStep(c))
          PROVE  call' = call
      <3>1. CASE AgentStep
        BY <2>3, <3>1 DEF AgentStep, SetTaskStatus
      <3>2. CASE \E q \in Run : RunStep(q) \/ WrapperStep(q)
        BY <3>2 DEF RunStep, WrapperStep, Start, Break, Settle, WrapperReturns, HardCeiling
      <3>3. CASE RootReturns \/ Drain \/ RootErrs \/ RootStalls \/ RuntimeStops \/ Exited
                 \/ UNCHANGED vars
        BY <3>3 DEF RootReturns, Drain, RootErrs, RootStalls, RuntimeStops, Exited, vars
      <3> QED
        BY <2>3, <3>1, <3>2, <3>3 DEF Next
    <2> QED
      BY <2>1, <2>2, <2>3 DEF InLaunch, Early
  <1>2. \A d \in Call : run'[call[d].by].task = run[call[d].by].task
    <2>1. CASE \E c \in Call : Spawn(c)
      <3>1. nruns \in Nat /\ nruns' = nruns + 1 /\ \A r \in Run : r # nruns' => run'[r] = run[r]
        BY <2>1, SpawnAddsOne
      <3>2. \A d \in Call : call[d].by \in Run /\ call[d].by <= nruns
        BY DEF IInv, TypeOK, RunsNumbered
      <3>3. \A d \in Call : call[d].by # nruns'
        BY <3>1, <3>2 DEF Run
      <3> QED
        BY <3>1, <3>2, <3>3
    <2>2. CASE \A c \in Call : ~Spawn(c)
      BY <2>2, RunsStand DEF IInv, TypeOK
    <2> QED
      BY <2>1, <2>2
  <1> QED
    BY <1>1, <1>2 DEF Launching, InLaunch, Early

(* The tally of each parent, and the two sets it stands for.               *)
LEMMA Counted ==
  ASSUME IInv, NEW p \in Task
  PROVE  /\ children[p] \in Nat
         /\ IsFiniteSet(Launching(p)) /\ Cardinality(Launching(p)) \in Nat
         /\ IsFiniteSet(Unreleased(p)) /\ Cardinality(Unreleased(p)) \in Nat
         /\ children[p] >= Cardinality(Launching(p)) + Cardinality(Unreleased(p))
  BY Finite DEF IInv, TypeOK, SlotsCovered

(* A step that takes or gives back one slot of one parent.                 *)
LEMMA FanoutMoves ==
  ASSUME IInv, IInv', FanoutReturned, NEW p \in Task,
         \A q \in Task : q # p => /\ children'[q] = children[q]
                                  /\ Launching(q)' = Launching(q)
                                  /\ Unreleased(q)' = Unreleased(q),
         children'[p] = Cardinality(Launching(p)') + Cardinality(Unreleased(p)')
  PROVE  FanoutReturned'
  BY DEF FanoutReturned

LEMMA ReserveFanout ==
  ASSUME IInv, IInv', FanoutReturned,
         NEW c \in Call, NEW r \in Run, NEW t \in Task, Reserve(c, r, t)
  PROVE  FanoutReturned'
  <1>0. PICK p \in Task : p = run[r].task
    BY DEF IInv, TypeOK
  <1>1. /\ call[c].pc = "idle" /\ children' = [children EXCEPT ![p] = @ + 1]
        /\ call' = [call EXCEPT ![c] = [pc |-> "reserved", by |-> r, task |-> t,
                                        depth |-> depths[p] + 1]]
        /\ UNCHANGED <<parentOf, released, run>>
    BY <1>0 DEF Reserve, Record, tree
  <1>2. \A q \in Task : /\ Unreleased(q)' = Unreleased(q)
                        /\ q # p => Launching(q)' = Launching(q) /\ children'[q] = children[q]
    BY <1>0, <1>1 DEF Unreleased, Launching, IInv, TypeOK
  <1>3. Launching(p)' = Launching(p) \cup {c} /\ c \notin Launching(p)
    BY <1>0, <1>1 DEF Launching, IInv, TypeOK
  <1>4. Cardinality(Launching(p)') = Cardinality(Launching(p)) + 1
    BY <1>3, Counted, OneMore
  <1>5. children'[p] = children[p] + 1
    BY <1>1 DEF IInv, TypeOK
  <1>6. children[p] = Cardinality(Launching(p)) + Cardinality(Unreleased(p))
    BY DEF FanoutReturned
  <1>7. /\ children[p] \in Nat /\ Cardinality(Launching(p)) \in Nat
        /\ Cardinality(Unreleased(p)) \in Nat
    BY Counted
  <1>8. children'[p] = Cardinality(Launching(p)') + Cardinality(Unreleased(p)')
    BY <1>2, <1>4, <1>5, <1>6, <1>7
  <1> QED
    BY <1>2, <1>8, FanoutMoves

LEMMA UnrecordFanout ==
  ASSUME IInv, IInv', FanoutReturned, NEW c \in Call, Unrecord(c)
  PROVE  FanoutReturned'
  <1>1. PICK p \in Task : p = run[call[c].by].task
    BY DEF IInv, TypeOK
  <1>2. /\ call[c].pc = "failed" /\ RollBack(p) /\ call' = [call EXCEPT ![c] = Idle]
        /\ UNCHANGED <<parentOf, released, run>>
    BY <1>1 DEF Unrecord, tree
  <1>3. \A q \in Task : /\ Unreleased(q)' = Unreleased(q)
                        /\ q # p => Launching(q)' = Launching(q)
    BY <1>1, <1>2 DEF Unreleased, Launching, Idle, IInv, TypeOK
  <1>4. Launching(p)' = Launching(p) \ {c} /\ c \in Launching(p)
    BY <1>1, <1>2 DEF Launching, Idle, IInv, TypeOK
  <1>5. /\ Cardinality(Launching(p)') = Cardinality(Launching(p)) - 1
        /\ Cardinality(Launching(p)) > 0
    BY <1>4, Counted, OneLess
  <1>6. /\ children[p] \in Nat /\ Cardinality(Launching(p)) \in Nat
        /\ Cardinality(Unreleased(p)) \in Nat
        /\ children[p] = Cardinality(Launching(p)) + Cardinality(Unreleased(p))
    BY Counted DEF FanoutReturned
  <1>7. children[p] > 0
    BY <1>5, <1>6
  <1>8. children' = [children EXCEPT ![p] = @ - 1]
    BY <1>2, <1>7 DEF RollBack
  <1>9. children'[p] = children[p] - 1 /\ \A q \in Task : q # p => children'[q] = children[q]
    BY <1>8 DEF IInv, TypeOK
  <1>10. children'[p] = Cardinality(Launching(p)') + Cardinality(Unreleased(p)')
    BY <1>3, <1>5, <1>6, <1>9
  <1> QED
    BY <1>3, <1>9, <1>10, FanoutMoves

LEMMA RegisterFanout ==
  ASSUME IInv, IInv', Lineage, Awaited, FanoutReturned, NEW c \in Call, Register(c)
  PROVE  FanoutReturned'
  <1> DEFINE t == call[c].task
  <1>1. PICK p \in Task : p = run[call[c].by].task
    BY DEF IInv, TypeOK
  <1>2. /\ call[c].pc = "launched" /\ call' = [call EXCEPT ![c] = Idle]
        /\ parentOf' = Insert(parentOf, t, p) /\ UNCHANGED <<children, released, run>>
    BY <1>1 DEF Register, ledger
  <1>3. t \notin DOMAIN parentOf /\ t \notin released
    BY <1>2 DEF Lineage, Fresh, InLaunch, Awaited
  <1>4. /\ DOMAIN parentOf' = DOMAIN parentOf \cup {t} /\ parentOf'[t] = p
        /\ \A x \in DOMAIN parentOf : parentOf'[x] = parentOf[x]
    BY <1>2, <1>3 DEF Insert
  <1>5. \A q \in Task : q # p => /\ Unreleased(q)' = Unreleased(q)
                                 /\ Launching(q)' = Launching(q)
    BY <1>1, <1>2, <1>4 DEF Unreleased, Launching, Idle, IInv, TypeOK
  <1>6. Launching(p)' = Launching(p) \ {c} /\ c \in Launching(p)
    BY <1>1, <1>2 DEF Launching, Idle, IInv, TypeOK
  <1>7. Unreleased(p)' = Unreleased(p) \cup {t} /\ t \notin Unreleased(p)
    BY <1>2, <1>3, <1>4 DEF Unreleased
  <1>8. /\ Cardinality(Launching(p)') = Cardinality(Launching(p)) - 1
        /\ Cardinality(Launching(p)) > 0
    BY <1>6, Counted, OneLess
  <1>9. Cardinality(Unreleased(p)') = Cardinality(Unreleased(p)) + 1
    BY <1>7, Counted, OneMore
  <1>10. /\ Cardinality(Launching(p)) \in Nat /\ Cardinality(Unreleased(p)) \in Nat
         /\ children[p] = Cardinality(Launching(p)) + Cardinality(Unreleased(p))
    BY Counted DEF FanoutReturned
  <1>11. children'[p] = Cardinality(Launching(p)') + Cardinality(Unreleased(p)')
    BY <1>2, <1>8, <1>9, <1>10
  <1> QED
    BY <1>2, <1>5, <1>11, FanoutMoves

LEMMA ReleaseKeepsFanout ==
  ASSUME IInv, IInv', Awaited, FanoutReturned, [Next]_vars, NEW c \in Call, ReleaseFanout(c)
  PROVE  FanoutReturned'
  <1> DEFINE t == call[c].task
  <1>1. /\ call[c].pc = "observed" /\ released' = released \cup {t}
        /\ call' = [call EXCEPT ![c] = Idle] /\ UNCHANGED <<parentOf, run>>
        /\ IF ReleaseDue(t) THEN Release(parentOf[t]) ELSE UNCHANGED ledger
    BY DEF ReleaseFanout
  <1>2. \A q \in Task : Launching(q)' = Launching(q)
    BY <1>1 DEF Launching, Idle, IInv, TypeOK
  <1>3. t \in DOMAIN parentOf
    BY <1>1 DEF Awaited
  <1>4. PICK p \in Task : p = parentOf[t]
    BY <1>3 DEF IInv, TypeOK
  <1>5. CASE t \in released
    <2>1. children' = children /\ \A q \in Task : Unreleased(q)' = Unreleased(q)
      BY <1>1, <1>5 DEF ReleaseDue, ledger, Unreleased
    <2> QED
      BY <1>2, <2>1 DEF FanoutReturned
  <1>6. CASE t \notin released
    <2>1. Release(p)
      BY <1>1, <1>3, <1>4, <1>6 DEF ReleaseDue
    <2>2. Unreleased(p)' = Unreleased(p) \ {t} /\ t \in Unreleased(p)
      BY <1>1, <1>3, <1>4, <1>6 DEF Unreleased
    <2>3. \A q \in Task : q # p => Unreleased(q)' = Unreleased(q)
      BY <1>1, <1>4 DEF Unreleased
    <2>4. /\ Cardinality(Unreleased(p)') = Cardinality(Unreleased(p)) - 1
          /\ Cardinality(Unreleased(p)) > 0
      BY <2>2, Counted, OneLess
    <2>5. /\ children[p] \in Nat /\ Cardinality(Launching(p)) \in Nat
          /\ Cardinality(Unreleased(p)) \in Nat
          /\ children[p] = Cardinality(Launching(p)) + Cardinality(Unreleased(p))
      BY Counted DEF FanoutReturned
    <2>6. children[p] > 0
      BY <2>4, <2>5
    <2>7. children' = [children EXCEPT ![p] = @ - 1]
      BY <2>1, <2>6 DEF Release
    <2>8. children'[p] = children[p] - 1 /\ \A q \in Task : q # p => children'[q] = children[q]
      BY <2>7 DEF IInv, TypeOK
    <2>9. children'[p] = Cardinality(Launching(p)') + Cardinality(Unreleased(p)')
      BY <1>2, <2>4, <2>5, <2>8
    <2> QED
      BY <1>2, <2>3, <2>8, <2>9, FanoutMoves
  <1> QED
    BY <1>5, <1>6

LEMMA FanoutNext ==
  ASSUME IInv, IInv', Lineage, Awaited, FanoutReturned, [Next]_vars
  PROVE  FanoutReturned'
  <1>1. CASE \E c \in Call, r \in Run, t \in Task : Reserve(c, r, t)
    BY <1>1, ReserveFanout
  <1>2. CASE \E c \in Call : Register(c) \/ Unrecord(c) \/ ReleaseFanout(c)
    BY <1>2, RegisterFanout, UnrecordFanout, ReleaseKeepsFanout
  <1>3. ASSUME \A c \in Call, r \in Run, t \in Task : ~Reserve(c, r, t),
               \A c \in Call : ~Register(c) /\ ~Unrecord(c) /\ ~ReleaseFanout(c)
        PROVE  FanoutReturned'
    <2>1. UNCHANGED <<children, parentOf, released>>
      <3>1. CASE AgentStep
        BY <1>3, <3>1 DEF AgentStep, Await, SetTaskStatus, ledger, tree
      <3>2. CASE \E c \in Call : CallStep(c)
        BY <1>3, <3>2 DEF CallStep, Check, WriteReady, Spawn, Observe, AwaitTimeout, ledger, tree
      <3>3. CASE \E q \in Run : RunStep(q) \/ WrapperStep(q)
        BY <3>3 DEF RunStep, WrapperStep, Start, Break, Settle, WrapperReturns, HardCeiling,
                    ledger, tree
      <3>4. CASE RootReturns \/ Drain \/ RootErrs \/ RootStalls \/ RuntimeStops \/ Exited
                 \/ UNCHANGED vars
        BY <3>4 DEF RootReturns, Drain, RootErrs, RootStalls, RuntimeStops, Exited, vars,
                    ledger, tree
      <3> QED
        BY <3>1, <3>2, <3>3, <3>4 DEF Next
    <2>2. \A p \in Task : Launching(p)' = Launching(p)
      BY <1>3, LaunchingStands
    <2> QED
      BY <2>1, <2>2 DEF FanoutReturned, Unreleased
  <1> QED
    BY <1>1, <1>2, <1>3

LEMMA FanoutInit == Init => Awaited /\ FanoutReturned
  <1> SUFFICES ASSUME Init PROVE Awaited /\ FanoutReturned
    OBVIOUS
  <1>1. Awaited
    BY DEF Init, Awaited, Idle
  <1>2. ASSUME NEW p \in Task
        PROVE  children[p] = Cardinality(Launching(p)) + Cardinality(Unreleased(p))
    <2>1. Launching(p) = {} /\ Unreleased(p) = {} /\ children[p] = 0
      BY DEF Init, Launching, Unreleased, Idle
    <2>2. Cardinality(Launching(p)) = 0 /\ Cardinality(Unreleased(p)) = 0
      BY <2>1, FS_EmptySet
    <2> QED
      BY <2>1, <2>2
  <1> QED
    BY <1>1, <1>2 DEF FanoutReturned

LEMMA FanoutInductive ==
  ASSUME "rerun" \notin Habit, "eager_await" \notin Habit
  PROVE  Spec => [](Awaited /\ FanoutReturned)
  <1>1. IInv /\ IInv' /\ OnceInv /\ Awaited /\ FanoutReturned /\ [Next]_vars
          => (Awaited /\ FanoutReturned)'
    BY AwaitedNext, FanoutNext DEF OnceInv
  <1> QED
    BY <1>1, FanoutInit, Inductive, OnceInductive, PTL DEF Spec

(* A slot of a parent is held for nothing but its calls in flight and the  *)
(* children it has not awaited to their end: when all of them are, it may  *)
(* spawn a full wave again.  For trees whose agents launch no id twice and *)
(* await an id only after its launch has answered; with either habit TLC   *)
(* finds a slot that never comes back.                                     *)
THEOREM EverySlotReturns ==
  ASSUME "rerun" \notin Habit, "eager_await" \notin Habit
  PROVE  Spec => []FanoutReturned
  BY FanoutInductive, PTL

-----------------------------------------------------------------------------
(* Children at work.                                                       *)

Capped == \A p \in Task : children[p] <= MaxFanout

(* Only an authorized reservation takes a slot.                            *)
LEMMA CappedNext ==
  ASSUME IInv, Capped, [Next]_vars
  PROVE  Capped'
  <1> USE BrokerAssumption
  <1>0. children \in [Task -> Nat]
    BY DEF IInv, TypeOK
  <1>1. ASSUME NEW c \in Call, NEW r \in Run, NEW t \in Task, Reserve(c, r, t)
        PROVE  Capped'
    <2>1. /\ children[run[r].task] + 1 <= MaxFanout
          /\ children' = [children EXCEPT ![run[r].task] = @ + 1]
      BY <1>1 DEF Reserve, Record, Authorized
    <2> QED
      BY <1>0, <2>1 DEF Capped
  <1>2. ASSUME NEW p \in Task,
               \/ RollBack(p)
               \/ Release(p)
        PROVE  Capped'
    <2>1. children' = children \/ children' = [children EXCEPT ![p] = @ - 1]
      BY <1>2 DEF RollBack, Release, ledger
    <2> QED
      BY <1>0, <2>1 DEF Capped
  <1>3. ASSUME UNCHANGED children
        PROVE  Capped'
    BY <1>3 DEF Capped
  <1>4. ASSUME NEW c \in Call, CallStep(c)
        PROVE  Capped'
    <2>1. CASE Unrecord(c)
      BY <1>2, <2>1 DEF Unrecord, IInv, TypeOK
    <2>2. CASE ReleaseFanout(c)
      <3>1. CASE ReleaseDue(call[c].task)
        BY <1>2, <2>2, <3>1 DEF ReleaseFanout, ReleaseDue, IInv, TypeOK
      <3>2. CASE ~ReleaseDue(call[c].task)
        BY <1>3, <2>2, <3>2 DEF ReleaseFanout, ledger
      <3> QED
        BY <3>1, <3>2
    <2>3. CASE Check(c) \/ WriteReady(c) \/ Spawn(c) \/ Register(c) \/ Observe(c) \/ AwaitTimeout(c)
      BY <1>3, <2>3 DEF Check, WriteReady, Spawn, Register, Observe, AwaitTimeout, ledger
    <2> QED
      BY <1>4, <2>1, <2>2, <2>3 DEF CallStep
  <1>5. CASE AgentStep
    <2>1. CASE \E c \in Call, r \in Run, t \in Task : Await(c, r, t)
      BY <1>3, <2>1 DEF Await, ledger
    <2>2. CASE \E r \in Run, t \in Task, s \in Status : SetTaskStatus(r, t, s)
      BY <1>3, <2>2 DEF SetTaskStatus, ledger
    <2> QED
      BY <1>1, <1>5, <2>1, <2>2 DEF AgentStep
  <1>6. CASE \E q \in Run : RunStep(q) \/ WrapperStep(q)
    BY <1>3, <1>6 DEF RunStep, WrapperStep, Start, Break, Settle, WrapperReturns, HardCeiling, ledger
  <1>7. CASE RootReturns \/ Drain \/ RootErrs \/ RootStalls \/ RuntimeStops \/ Exited
             \/ UNCHANGED vars
    BY <1>3, <1>7 DEF RootReturns, Drain, RootErrs, RootStalls, RuntimeStops, Exited, vars, ledger
  <1> QED
    BY <1>4, <1>5, <1>6, <1>7 DEF Next

LEMMA CappedInit == Init => Capped
  BY BrokerAssumption DEF Init, Capped

(* Each child at work holds a slot of its own: its entry in the lineage,   *)
(* or the call that is about to make it.                                   *)
LEMMA AtWorkHoldsSlot ==
  ASSUME IInv, OnceInv, Awaited, Capped, NEW p \in Task
  PROVE  Cardinality({r \in Run \ {0} : /\ Unsettled(r) /\ ~Terminal(run[r].task)
                                        /\ run[run[r].by].task = p}) <= MaxFanout
  <1> DEFINE K == {r \in Run \ {0} : /\ Unsettled(r) /\ ~Terminal(run[r].task)
                                     /\ run[run[r].by].task = p}
             A == {r \in K : run[r].task \in Unreleased(p)}
             B == K \ A
             f == [r \in A |-> run[r].task]
             g == [r \in B |-> CHOOSE c \in Launching(p) :
                                 call[c].pc = "launched" /\ call[c].task = run[r].task]
  <1>1. \A r \in K : r \in 1..nruns
    <2>1. \A r \in K : ~(r > nruns) /\ r # 0 /\ r \in Run
      BY DEF IInv, RunsNumbered, Unsettled
    <2> QED
      BY <2>1, BrokerAssumption DEF IInv, TypeOK, Run
  <1>2. \A r, s \in K : run[r].task = run[s].task => r = s
    BY <1>1 DEF OnceInv, Lineage, OneRunEach
  <1>3. f \in Injection(A, Unreleased(p))
    BY <1>2 DEF Injection, IsInjective
  <1>4. ASSUME NEW r \in B
        PROVE  \E c \in Launching(p) : call[c].pc = "launched" /\ call[c].task = run[r].task
    <2>1. /\ r \in 1..nruns /\ ~Terminal(run[r].task) /\ run[run[r].by].task = p
          /\ run[r].task \notin Unreleased(p)
      BY <1>1
    <2>2. run[r].task \notin released
      BY <2>1 DEF Awaited
    <2>3. PICK c \in Call : /\ call[c].pc = "launched"
                            /\ call[c].task = run[r].task /\ call[c].by = run[r].by
      BY <2>1, <2>2 DEF OnceInv, Lineage, Entered, Unreleased
    <2> QED
      BY <2>1, <2>3 DEF Launching
  <1>5. g \in Injection(B, Launching(p))
    <2>1. \A r \in B : g[r] \in Launching(p) /\ call[g[r]].task = run[r].task
      BY <1>4
    <2>2. \A r, s \in B : g[r] = g[s] => r = s
      <3>1. B \subseteq K
        OBVIOUS
      <3> HIDE DEF K, B, g
      <3> QED
        BY <1>2, <2>1, <3>1
    <2> QED
      BY <2>1, <2>2 DEF Injection, IsInjective
  <1> HIDE DEF f, g
  <1>6. /\ IsFiniteSet(A) /\ Cardinality(A) <= Cardinality(Unreleased(p))
        /\ IsFiniteSet(B) /\ Cardinality(B) <= Cardinality(Launching(p))
    BY <1>3, <1>5, Counted, FS_Injection
  <1>7. K = A \cup B
    OBVIOUS
  <1> HIDE DEF K, A, B
  <1>8. /\ Cardinality(A \cup B) = Cardinality(A) + Cardinality(B) - Cardinality(A \cap B)
        /\ Cardinality(A) \in Nat /\ Cardinality(B) \in Nat /\ Cardinality(A \cap B) \in Nat
    BY <1>6, FS_Union, FS_Intersection, FS_CardinalityType
  <1>9. /\ children[p] \in Nat /\ children[p] <= MaxFanout
        /\ Cardinality(Launching(p)) \in Nat /\ Cardinality(Unreleased(p)) \in Nat
        /\ children[p] >= Cardinality(Launching(p)) + Cardinality(Unreleased(p))
    BY Counted DEF Capped
  <1>10. Cardinality(K) <= MaxFanout
    BY <1>6, <1>7, <1>8, <1>9, BrokerAssumption
  <1> QED
    BY <1>10 DEF K

(* At no time has a parent more than max_fanout children whose run goes on *)
(* and whose task is not settled, in trees whose agents launch no id twice *)
(* and await an id only after its launch has answered.                     *)
THEOREM ChildrenStayWithinFanout ==
  ASSUME "rerun" \notin Habit, "eager_await" \notin Habit
  PROVE  Spec => []ConcurrentChildren
  <1>1. IInv /\ OnceInv /\ Awaited /\ Capped => ConcurrentChildren
    BY AtWorkHoldsSlot DEF ConcurrentChildren
  <1>2. IInv /\ Capped /\ [Next]_vars => Capped'
    BY CappedNext
  <1> QED
    BY <1>1, <1>2, CappedInit, FanoutInductive, Inductive, OnceInductive, PTL DEF Spec
================================================================================
