------------------------------ MODULE SpawnBroker ------------------------------
(***************************************************************************)
(* One root orchestration run: the spawn tree every broker of the run      *)
(* shares (SpawnTreeState: ledger, depths, child_parent, released,         *)
(* handles), the concurrent MCP calls of the agents (run_subtask,          *)
(* await_subtask, set_task_status), the launcher behind run_subtask, the   *)
(* detached child runs with the wrapper that settles each of them, and the *)
(* teardown of the root session.                                           *)
(*                                                                         *)
(* Every call runs on its own blocking thread (mcp_transport::             *)
(* handle_stream), so a call is a process with a program counter and the   *)
(* atomic steps are the sections that hold SharedSpawnState's mutex and    *)
(* the single reads and writes of a task file.                             *)
(***************************************************************************)
EXTENDS Integers, FiniteSets

CONSTANTS
  Task,           \* task ids
  Root,           \* the id of the task whose session is the root run
  Call,           \* slots for calls in flight at one time
  MaxDepth,       \* policy.max_depth
  MaxFanout,      \* policy.max_fanout
  Budget,         \* policy.global_child_budget
  ApprovalDepth,  \* policy.require_approval_at_depth; 0 is None (children are at 1 or more)
  Runnable,       \* the ids the agents pass to run_subtask
  InitStatus,     \* what the files of the other tasks say at the start
  Outcome,        \* the statuses the runner settles runs on in this instance
  Habit           \* what the agents of this run may do, see Habits

Status == {"backlog", "ready", "running", "review", "needs_user", "failed", "done"}

(* What an agent is free to do with its tools. A set of habits is an       *)
(* assumption on the agents of a run, never on the host's code.            *)
(*   rerun         run_subtask on an id this tree has launched before      *)
(*   eager_await   await an id whose run_subtask has not answered yet      *)
(*   open_calls    the session ends while its calls are still in flight    *)
(*   self_report   set_task_status on its own task                         *)
(*   settle_other  the root sets the status of another running task        *)
(*   root_fails    the root session ends with an error                     *)
(*   root_stalls   the runner's watchdog drops the root session            *)
Habits == {"rerun", "eager_await", "open_calls", "self_report", "settle_other",
           "root_fails", "root_stalls"}

ASSUME BrokerAssumption ==
  /\ Root \in Task
  /\ IsFiniteSet(Task) /\ IsFiniteSet(Call)
  /\ MaxDepth \in Nat /\ MaxFanout \in Nat /\ Budget \in Nat /\ ApprovalDepth \in Nat
  /\ Runnable \subseteq Task
  /\ InitStatus \subseteq Status
  /\ Outcome \subseteq {"review", "needs_user", "failed"}
  /\ Habit \subseteq Habits

VARIABLES
  status,    \* the status each task file holds
  children,  \* ledger.children: the fan-out tally of each parent
  spawned,   \* ledger.global_spawned
  depths,    \* task id -> depth in the tree, a partial map
  parentOf,  \* child_parent: child id -> the parent that spawned it, a partial map
  released,  \* ids whose fan-out slot has been released
  handles,   \* task id -> the detached run its JoinHandle belongs to, a partial map
  nruns,     \* child runs spawned so far; each has its own number
  run,       \* run number -> task, depth, spawner, state of the run and of its wrapper
  call,      \* call slot -> the call it holds
  phase,     \* where the root session is
  joining    \* runs whose handles the root has drained and is awaiting

ledger == <<children, spawned>>
tree   == <<depths, parentOf, released>>
vars   == <<status, ledger, tree, handles, nruns, run, call, phase, joining>>

(* Run 0 is the root session; the budget bounds the others. *)
Run == 0..Budget

Phase   == {"session", "joining", "joined", "aborted", "dropped", "exited"}
Inner   == {"none", "queued", "session", "ok", "error", "killed"}
Wrapper == {"none", "live", "done", "aborted"}
Pc      == {"idle", "reserved", "preparing", "prepared", "launched", "failed",
            "awaiting", "observed"}

NoRun == [task |-> Root, depth |-> 0, by |-> 0, inner |-> "none", wrapper |-> "none"]
Idle  == [pc |-> "idle", by |-> 0, task |-> Root, depth |-> 0]

IsTerminal(s) == s \in {"done", "failed", "needs_user", "review"}

(* BTreeMap::insert *)
Insert(f, k, v) == [x \in DOMAIN f \cup {k} |-> IF x = k THEN v ELSE f[x]]

Terminal(t)    == IsTerminal(status[t])
InSession(r)   == run[r].inner = "session"
Unsettled(r)   == run[r].inner \in {"queued", "session"}
CallsOf(r)     == {c \in Call : call[c].pc # "idle" /\ call[c].by = r}

(* The launcher of a broker is behind a mutex that run_existing holds from *)
(* its first check until the run is spawned.                               *)
LauncherBusy(r) == \E c \in Call : call[c].by = r /\ call[c].pc \in {"preparing", "prepared"}

(* Mutated form: the launcher does not look for a live handle. *)
HasNoHandle(t) == FALSE

(* has_live_handle: a handle whose wrapper has not finished. *)
HasLiveHandle(t) == t \in DOMAIN handles /\ run[handles[t]].wrapper = "live"

TypeOK ==
  /\ status \in [Task -> Status]
  /\ children \in [Task -> Nat]
  /\ spawned \in Nat
  /\ DOMAIN depths \subseteq Task /\ \A t \in DOMAIN depths : depths[t] \in Nat
  /\ DOMAIN parentOf \subseteq Task /\ \A t \in DOMAIN parentOf : parentOf[t] \in Task
  /\ released \subseteq Task
  /\ DOMAIN handles \subseteq Task /\ \A t \in DOMAIN handles : handles[t] \in Run
  /\ nruns \in Run
  /\ run \in [Run -> [task : Task, depth : Nat, by : Run, inner : Inner, wrapper : Wrapper]]
  /\ call \in [Call -> [pc : Pc, by : Run, task : Task, depth : Nat]]
  /\ phase \in Phase
  /\ joining \subseteq Run

(* The root's broker has been built: with_shared_state has registered the  *)
(* root at depth 0, and the runner has written `running` to its file.      *)
Init ==
  /\ status \in {s \in [Task -> Status] :
                   s[Root] = "running" /\ \A t \in Task \ {Root} : s[t] \in InitStatus}
  /\ children = [t \in Task |-> 0]
  /\ spawned = 0
  /\ depths = [t \in {Root} |-> 0]
  /\ parentOf = [t \in {} |-> Root]
  /\ released = {}
  /\ handles = [t \in {} |-> 0]
  /\ nruns = 0
  /\ run = [r \in Run |-> IF r = 0 THEN [NoRun EXCEPT !.inner = "session"] ELSE NoRun]
  /\ call = [c \in Call |-> Idle]
  /\ phase = "session"
  /\ joining = {}

-----------------------------------------------------------------------------
(* SpawnLedger::record, unrecord and release. *)
Record(p) ==
  /\ children' = [children EXCEPT ![p] = @ + 1]
  /\ spawned' = spawned + 1

(* Mutated form: the rollback forgets the global counter. *)
RollBackTallyOnly(p) ==
  /\ children' = IF children[p] > 0 THEN [children EXCEPT ![p] = @ - 1] ELSE children
  /\ UNCHANGED spawned

RollBack(p) ==
  IF children[p] > 0
  THEN /\ children' = [children EXCEPT ![p] = @ - 1]
       /\ spawned' = IF spawned > 0 THEN spawned - 1 ELSE 0
  ELSE UNCHANGED ledger

(* Mutated form: the release gives budget back as the rollback does. *)
ReleaseRefundsBudget(p) ==
  /\ children' = IF children[p] > 0 THEN [children EXCEPT ![p] = @ - 1] ELSE children
  /\ spawned' = IF spawned > 0 THEN spawned - 1 ELSE 0

Release(p) ==
  /\ children' = IF children[p] > 0 THEN [children EXCEPT ![p] = @ - 1] ELSE children
  /\ UNCHANGED spawned

(* The policy check of run_subtask: the request names no agent, route or   *)
(* sandbox and is never approved, so depth, fan-out, budget and the        *)
(* approval gate decide.                                                   *)
(* Mutated form: the caller's depth is compared, not the child's. *)
AuthorizedPastDepth(parent, depth) ==
  /\ depth <= MaxDepth
  /\ children[parent] + 1 <= MaxFanout
  /\ spawned + 1 <= Budget
  /\ depth + 1 # ApprovalDepth

(* Mutated form: the budget check is off by one. *)
AuthorizedPastBudget(parent, depth) ==
  /\ depth + 1 <= MaxDepth
  /\ children[parent] + 1 <= MaxFanout
  /\ spawned <= Budget
  /\ depth + 1 # ApprovalDepth

(* Mutated form: the approval gate looks at the caller's depth. *)
AuthorizedGateOnCaller(parent, depth) ==
  /\ depth + 1 <= MaxDepth
  /\ children[parent] + 1 <= MaxFanout
  /\ spawned + 1 <= Budget
  /\ depth = 0 \/ depth # ApprovalDepth

Authorized(parent, depth) ==
  /\ depth + 1 <= MaxDepth
  /\ children[parent] + 1 <= MaxFanout
  /\ spawned + 1 <= Budget
  /\ depth + 1 # ApprovalDepth

(* gated_launch, first locked section: look the caller's depth up, check   *)
(* and reserve. A denied or unknown caller changes nothing.                *)
Reserve(c, r, t) ==
  /\ call[c].pc = "idle"
  /\ InSession(r)
  /\ t \in Runnable
  /\ "rerun" \in Habit \/ (t \notin DOMAIN depths /\ \A d \in Call : call[d].pc # "idle" => call[d].task # t)
  /\ LET p == run[r].task IN
       /\ p \in DOMAIN depths
       /\ Authorized(p, depths[p])
       /\ Record(p)
       /\ call' = [call EXCEPT ![c] = [pc |-> "reserved", by |-> r, task |-> t,
                                       depth |-> depths[p] + 1]]
  /\ UNCHANGED <<status, tree, handles, nruns, run, phase, joining>>

(* run_existing under the launcher's mutex: resolve and validate the task, *)
(* then refuse one that has a live handle. The validation may fail for     *)
(* reasons outside this module (no such task, no route, no sandbox).       *)
Check(c) ==
  /\ call[c].pc = "reserved"
  /\ ~LauncherBusy(call[c].by)
  /\ \/ ~HasLiveHandle(call[c].task) /\ call' = [call EXCEPT ![c].pc = "preparing"]
     \/ call' = [call EXCEPT ![c].pc = "failed"]
  /\ UNCHANGED <<status, ledger, tree, handles, nruns, run, phase, joining>>

(* run_existing resets the task file to `ready`, or fails to write it. *)
WriteReady(c) ==
  /\ call[c].pc = "preparing"
  /\ \/ /\ status' = [status EXCEPT ![call[c].task] = "ready"]
        /\ call' = [call EXCEPT ![c].pc = "prepared"]
     \/ /\ call' = [call EXCEPT ![c].pc = "failed"]
        /\ UNCHANGED status
  /\ UNCHANGED <<ledger, tree, handles, nruns, run, phase, joining>>

(* run_existing spawns the settling wrapper, inserts its handle and        *)
(* releases the launcher. A handle already in the map is replaced.         *)
Spawn(c) ==
  /\ call[c].pc = "prepared"
  /\ nruns' = nruns + 1
  /\ run' = [run EXCEPT ![nruns + 1] =
               [task |-> call[c].task, depth |-> call[c].depth, by |-> call[c].by,
                inner |-> IF phase = "exited" THEN "killed" ELSE "queued",
                wrapper |-> IF phase = "exited" THEN "aborted" ELSE "live"]]
  /\ handles' = Insert(handles, call[c].task, nruns + 1)
  /\ call' = [call EXCEPT ![c].pc = "launched"]
  /\ UNCHANGED <<status, ledger, tree, phase, joining>>

(* Mutated form: the child's parent is not entered in the lineage. *)
RegisterDepthOnly(c) ==
  /\ call[c].pc = "launched"
  /\ depths' = Insert(depths, call[c].task, call[c].depth)
  /\ call' = [call EXCEPT ![c] = Idle]
  /\ UNCHANGED <<status, ledger, parentOf, released, handles, nruns, run, phase, joining>>

(* gated_launch after a launch: enter the child in the lineage. *)
Register(c) ==
  /\ call[c].pc = "launched"
  /\ depths' = Insert(depths, call[c].task, call[c].depth)
  /\ parentOf' = Insert(parentOf, call[c].task, run[call[c].by].task)
  /\ call' = [call EXCEPT ![c] = Idle]
  /\ UNCHANGED <<status, ledger, released, handles, nruns, run, phase, joining>>

(* gated_launch after a failed launch: SpawnLedger::unrecord. *)
Unrecord(c) ==
  /\ call[c].pc = "failed"
  /\ RollBack(run[call[c].by].task)
  /\ call' = [call EXCEPT ![c] = Idle]
  /\ UNCHANGED <<status, tree, handles, nruns, run, phase, joining>>

-----------------------------------------------------------------------------
(* await_subtask: any caller may wait for any id. *)
Await(c, r, t) ==
  /\ call[c].pc = "idle"
  /\ InSession(r)
  /\ "eager_await" \in Habit \/ (t \in DOMAIN parentOf
                                 /\ \A d \in Call : call[d].pc # "idle" => call[d].task # t)
  /\ call' = [call EXCEPT ![c] = [pc |-> "awaiting", by |-> r, task |-> t, depth |-> 0]]
  /\ UNCHANGED <<status, ledger, tree, handles, nruns, run, phase, joining>>

(* Mutated form: the poll takes any status it finds for the end. *)
ObserveAnyStatus(c) ==
  /\ call[c].pc = "awaiting"
  /\ call' = [call EXCEPT ![c].pc = "observed"]
  /\ UNCHANGED <<status, ledger, tree, handles, nruns, run, phase, joining>>

(* One poll of the task file that reads a terminal status. *)
Observe(c) ==
  /\ call[c].pc = "awaiting"
  /\ Terminal(call[c].task)
  /\ call' = [call EXCEPT ![c].pc = "observed"]
  /\ UNCHANGED <<status, ledger, tree, handles, nruns, run, phase, joining>>

(* Mutated form: every observation releases, not the first one only. *)
ReleaseDueEachTime(t) == t \in DOMAIN parentOf

ReleaseDue(t) == t \notin released /\ t \in DOMAIN parentOf

(* release_fanout: the first time an id is observed terminal, give its     *)
(* slot back to the parent the lineage names, if it names one.             *)
ReleaseFanout(c) ==
  /\ call[c].pc = "observed"
  /\ LET t == call[c].task IN
       /\ released' = released \cup {t}
       /\ IF ReleaseDue(t) THEN Release(parentOf[t]) ELSE UNCHANGED ledger
  /\ call' = [call EXCEPT ![c] = Idle]
  /\ UNCHANGED <<status, depths, parentOf, handles, nruns, run, phase, joining>>

(* await_subtask gives up after max_wait. *)
AwaitTimeout(c) ==
  /\ call[c].pc = "awaiting"
  /\ call' = [call EXCEPT ![c] = Idle]
  /\ UNCHANGED <<status, ledger, tree, handles, nruns, run, phase, joining>>

(* set_task_status: a task closes itself, the caller at depth 0 closes any *)
(* task, and only a running task is closed.                                *)
SetTaskStatus(r, t, s) ==
  /\ InSession(r)
  /\ \/ "self_report" \in Habit /\ t = run[r].task
     \/ "settle_other" \in Habit /\ run[r].task \in DOMAIN depths /\ depths[run[r].task] = 0
  /\ s \in {"done", "needs_user", "failed"}
  /\ status[t] = "running"
  /\ status' = [status EXCEPT ![t] = s]
  /\ UNCHANGED <<ledger, tree, handles, nruns, run, call, phase, joining>>

-----------------------------------------------------------------------------
(* A child run's task starts: runner::run_task takes a ready task to       *)
(* `running` and its broker registers the run's own depth again.           *)
Start(r) ==
  /\ run[r].inner = "queued"
  /\ status[run[r].task] = "ready"
  /\ status' = [status EXCEPT ![run[r].task] = "running"]
  /\ depths' = Insert(depths, run[r].task, run[r].depth)
  /\ run' = [run EXCEPT ![r].inner = "session"]
  /\ UNCHANGED <<ledger, parentOf, released, handles, nruns, call, phase, joining>>

(* The run returns Err, or panics: the task is not ready, a file cannot be *)
(* written, the route no longer resolves.                                  *)
Break(r) ==
  /\ r # 0
  /\ Unsettled(r)
  /\ "open_calls" \in Habit \/ CallsOf(r) = {}
  /\ run' = [run EXCEPT ![r].inner = "error"]
  /\ UNCHANGED <<status, ledger, tree, handles, nruns, call, phase, joining>>

(* The agent's session is over and the runner writes its verdict. *)
Settle(r, s) ==
  /\ r # 0
  /\ InSession(r)
  /\ "open_calls" \in Habit \/ CallsOf(r) = {}
  /\ s \in Outcome
  /\ status' = [status EXCEPT ![run[r].task] = s]
  /\ run' = [run EXCEPT ![r].inner = "ok"]
  /\ UNCHANGED <<ledger, tree, handles, nruns, call, phase, joining>>

(* Mutated form: the wrapper leaves the file alone. *)
ForceNothing(t) == UNCHANGED status

(* Mutated form: the wrapper does not look at the status it replaces. *)
ForceAlways(t) == status' = [status EXCEPT ![t] = "failed"]

(* What run_spawned_subtask_settling does to the task file when the run it *)
(* wraps did not return Ok.                                                *)
ForceTerminal(t) ==
  status' = IF Terminal(t) THEN status ELSE [status EXCEPT ![t] = "failed"]

(* The wrapper sees its run return. *)
WrapperReturns(r) ==
  /\ run[r].wrapper = "live"
  /\ \/ run[r].inner = "ok" /\ UNCHANGED status
     \/ run[r].inner = "error" /\ ForceTerminal(run[r].task)
  /\ run' = [run EXCEPT ![r].wrapper = "done"]
  /\ UNCHANGED <<ledger, tree, handles, nruns, call, phase, joining>>

(* Mutated form: the ceiling covers the wait for a start only. *)
CeilingBeforeStart(r) ==
  /\ run[r].wrapper = "live"
  /\ run[r].inner = "queued"
  /\ run' = [run EXCEPT ![r].inner = "killed", ![r].wrapper = "done"]
  /\ ForceTerminal(run[r].task)
  /\ UNCHANGED <<ledger, tree, handles, nruns, call, phase, joining>>

(* The hard ceiling: the wrapper kills the run and settles the task. *)
HardCeiling(r) ==
  /\ run[r].wrapper = "live"
  /\ Unsettled(r)
  /\ run' = [run EXCEPT ![r].inner = "killed", ![r].wrapper = "done"]
  /\ ForceTerminal(run[r].task)
  /\ UNCHANGED <<ledger, tree, handles, nruns, call, phase, joining>>

-----------------------------------------------------------------------------
(* The root session returns Ok and finish_spawned_subtasks starts to join. *)
RootReturns ==
  /\ phase = "session"
  /\ "open_calls" \in Habit \/ CallsOf(0) = {}
  /\ phase' = "joining"
  /\ run' = [run EXCEPT ![0].inner = "ok"]
  /\ UNCHANGED <<status, ledger, tree, handles, nruns, call, joining>>

(* Mutated form: the join looks again without awaiting what it drained. *)
DrainWithoutAwait ==
  /\ phase = "joining"
  /\ joining' = {handles[t] : t \in DOMAIN handles}
  /\ handles' = [t \in {} |-> 0]
  /\ phase' = IF handles = [t \in {} |-> 0] THEN "joined" ELSE "joining"
  /\ UNCHANGED <<status, ledger, tree, nruns, run, call>>

(* Mutated form: the join reads the handles and leaves them in the map. *)
DrainKeepsHandles ==
  /\ phase = "joining"
  /\ \A r \in joining : run[r].wrapper # "live"
  /\ joining' = {handles[t] : t \in DOMAIN handles}
  /\ phase' = IF handles = [t \in {} |-> 0] THEN "joined" ELSE "joining"
  /\ UNCHANGED <<status, ledger, tree, handles, nruns, run, call>>

(* join_spawned_subtasks: take every handle out of the map, await the runs *)
(* they belong to, and look again; an empty map ends the join.             *)
Drain ==
  /\ phase = "joining"
  /\ \A r \in joining : run[r].wrapper # "live"
  /\ joining' = {handles[t] : t \in DOMAIN handles}
  /\ handles' = [t \in {} |-> 0]
  /\ phase' = IF handles = [t \in {} |-> 0] THEN "joined" ELSE "joining"
  /\ UNCHANGED <<status, ledger, tree, nruns, run, call>>

(* The root session returns Err: abort_spawned_subtasks takes the handles  *)
(* out once and aborts the wrappers; the runs they wrap are detached.      *)
RootErrs ==
  /\ phase = "session"
  /\ "root_fails" \in Habit
  /\ "open_calls" \in Habit \/ CallsOf(0) = {}
  /\ phase' = "aborted"
  /\ LET taken == {handles[t] : t \in DOMAIN handles} IN
       run' = [r \in Run |-> IF r = 0 THEN [run[r] EXCEPT !.inner = "error"]
                             ELSE IF r \in taken /\ run[r].wrapper = "live"
                             THEN [run[r] EXCEPT !.wrapper = "aborted"]
                             ELSE run[r]]
  /\ handles' = [t \in {} |-> 0]
  /\ UNCHANGED <<status, ledger, tree, nruns, call, joining>>

(* The runner's watchdog drops the session future in which the broker's    *)
(* teardown would have run: nothing is joined and nothing is aborted.      *)
RootStalls ==
  /\ phase = "session"
  /\ "root_stalls" \in Habit
  /\ phase' = "dropped"
  /\ run' = [run EXCEPT ![0].inner = "killed"]
  /\ UNCHANGED <<status, ledger, tree, handles, nruns, call, joining>>

(* The command ends and its runtime shuts down: async tasks are dropped    *)
(* where they stand, calls on blocking threads run to their end, and a run *)
(* spawned from one of them never starts.                                  *)
RuntimeStops ==
  /\ phase \in {"joined", "aborted", "dropped"}
  /\ phase' = "exited"
  /\ run' = [r \in Run |->
               [run[r] EXCEPT !.inner = IF Unsettled(r) THEN "killed" ELSE @,
                              !.wrapper = IF @ = "live" THEN "aborted" ELSE @]]
  /\ UNCHANGED <<status, ledger, tree, handles, nruns, call, joining>>

Exited == phase = "exited" /\ UNCHANGED vars

-----------------------------------------------------------------------------
CallStep(c) ==
  \/ Check(c) \/ WriteReady(c) \/ Spawn(c) \/ Register(c) \/ Unrecord(c)
  \/ Observe(c) \/ ReleaseFanout(c) \/ AwaitTimeout(c)

AgentStep ==
  \/ \E c \in Call, r \in Run, t \in Task : Reserve(c, r, t) \/ Await(c, r, t)
  \/ \E r \in Run, t \in Task, s \in Status : SetTaskStatus(r, t, s)

RunStep(r) ==
  \/ Start(r) \/ Break(r) \/ \E s \in Status : Settle(r, s)

WrapperStep(r) == WrapperReturns(r) \/ HardCeiling(r)

Next ==
  \/ AgentStep
  \/ \E c \in Call : CallStep(c)
  \/ \E r \in Run : RunStep(r) \/ WrapperStep(r)
  \/ RootReturns \/ Drain \/ RootErrs \/ RootStalls
  \/ RuntimeStops \/ Exited

Spec == Init /\ [][Next]_vars

(* The host's own steps are scheduled: threads of calls in flight, the     *)
(* wrappers (whose ceiling is a timer), the root's teardown. Nothing is    *)
(* assumed of the agents, whose sessions need never end by themselves.     *)
Fairness ==
  /\ \A c \in Call : WF_vars(CallStep(c))
  /\ \A r \in Run : WF_vars(WrapperStep(r))
  /\ WF_vars(Drain)

FairSpec == Spec /\ Fairness

-----------------------------------------------------------------------------
(* Calls that hold a reservation no child run stands for yet, and calls    *)
(* between their reservation and their answer.                             *)
Reservations == {c \in Call : call[c].pc \in {"reserved", "preparing", "prepared", "failed"}}
Launching(p) == {c \in Call : /\ call[c].pc \in {"reserved", "preparing", "prepared", "launched", "failed"}
                              /\ run[call[c].by].task = p}

(* The children the lineage names for p whose slot has not been released.  *)
Unreleased(p) == {t \in DOMAIN parentOf \ released : parentOf[t] = p}

(* The global counter is exact: it counts the runs spawned and the         *)
(* reservations in flight. A rollback that found its parent's tally at     *)
(* zero would skip the decrement and lose one unit of budget for ever.     *)
LedgerExact == spawned = Cardinality(Reservations) + nruns

(* However calls interleave, no more runs are spawned than the budget.     *)
LaunchesWithinBudget == nruns <= Budget

(* A parent's tally covers every call it has in flight and every child it  *)
(* has not been given back, so neither unrecord nor release ever saturates. *)
SlotsCovered ==
  \A p \in Task : children[p] >= Cardinality(Launching(p)) + Cardinality(Unreleased(p))

(* A slot is held for nothing else: once every child of a parent has been  *)
(* awaited to its end the parent may spawn a full wave again.              *)
FanoutReturned ==
  \A p \in Task : children[p] = Cardinality(Launching(p)) + Cardinality(Unreleased(p))

(* At no time does one parent have more than max_fanout children whose     *)
(* run is going on and whose file does not yet hold an end status.         *)
ConcurrentChildren ==
  \A p \in Task :
    Cardinality({r \in Run \ {0} : /\ Unsettled(r) /\ ~Terminal(run[r].task)
                                   /\ run[run[r].by].task = p}) <= MaxFanout

(* No run is deeper than max_depth, and since run_subtask is never         *)
(* approved, none is at or below the approval gate, whatever order lineage *)
(* entries are written in by parents, children and re-runs.                *)
DepthCap ==
  \A r \in Run : /\ run[r].depth <= MaxDepth
                 /\ ApprovalDepth > 0 => run[r].depth < ApprovalDepth

(* Runs of t were launched by two sessions of the tree. *)
SharedLaunch(t) ==
  \E r, s \in 1..nruns : run[r].task = t /\ run[s].task = t /\ run[r].by # run[s].by

(* While the root session lasts, a task that one session alone launches    *)
(* never has two runs going on at once, however its calls interleave with  *)
(* each other and with the end of a run: run_existing refuses a task that  *)
(* is executing in this process.  Launches of two sessions do not exclude  *)
(* each other (OneRunInSession below).                                     *)
NoDoubleRun ==
  phase = "session" =>
    \A r, s \in 1..nruns :
      r # s /\ Unsettled(r) /\ Unsettled(s) /\ run[r].task = run[s].task
        => SharedLaunch(run[r].task)

(* When the join of a successful root session ends, no child runs, nor a   *)
(* wrapper, so that teardown may touch their checkouts; and every child    *)
(* run has left its task in a terminal status, whatever became of the run: *)
(* nothing is left to be reconciled by hand.                               *)
JoinedMeansOver ==
  [][phase = "joining" /\ phase' = "joined" =>
       /\ \A r \in Run : ~Unsettled(r) /\ run[r].wrapper # "live"
       /\ \A r \in 1..nruns : Terminal(run[r].task)]_vars

(* A wrapper that finishes leaves its task terminal, and does not replace  *)
(* an outcome the run already wrote.                                       *)
WrapperSettles ==
  [][\A r \in Run :
       (run[r].wrapper = "live" /\ run'[r].wrapper = "done") =>
          /\ IsTerminal(status'[run[r].task])
          /\ Terminal(run[r].task) => status' = status]_vars

(* The join of a successful root run ends, although each child it waits    *)
(* for may itself spawn: the hard ceiling ends each run, the budget ends   *)
(* their number.                                                           *)
JoinTerminates == phase = "joining" ~> phase = "joined"

(* Every run spawned before the root's join is over settles its task, so   *)
(* an awaiting parent is answered even by an agent that never returns.     *)
SpawnedSettles ==
  \A r \in Run : (run[r].wrapper = "live" /\ phase \in {"session", "joining"})
                   ~> Terminal(run[r].task)

-----------------------------------------------------------------------------
(* The promise of the budget alone, with the ledger abstracted away: each  *)
(* reservation becomes a run or is cancelled, and both together stay       *)
(* within the budget.                                                      *)
Promise == INSTANCE SpawnBudget WITH pending <- Cardinality(Reservations), launched <- nruns
BudgetKept == Promise!Spec

-----------------------------------------------------------------------------
(* Promises of the sources and the documents that the code does not keep   *)
(* (README, Findings): TLC refutes each of them.                           *)

(* The same promise as SubtaskLauncher states it, for every task and at    *)
(* every time: also while the join of the root has drained the handles the *)
(* refusal looks at, and for the root's own task, which never has one.     *)
OneRunPerTask ==
  \A r, s \in Run : (r # s /\ Unsettled(r) /\ Unsettled(s)) => run[r].task # run[s].task

(* And within the root session: run_existing refuses a task that is        *)
(* executing in this process, whichever session of the tree launched it.   *)
OneRunInSession ==
  phase = "session" =>
    \A r, s \in Run \ {0} : (r # s /\ Unsettled(r) /\ Unsettled(s)) => run[r].task # run[s].task

(* Once the children are joined none can still be using its checkout.      *)
NoneAfterJoin == phase = "joined" => \A r \in Run : ~Unsettled(r)

(* An agent that marks its own task done has closed it: the run does not   *)
(* take the status back.                                                   *)
DoneStands == [][\A t \in Task : status[t] = "done" => status'[t] = "done"]_vars

(* An answered await gives the slot back: when nothing else is going on,   *)
(* what a parent's tally still holds are the children it has not awaited.  *)
AwaitReturnsSlot ==
  [][\A c \in Call :
       (/\ call[c].pc = "observed" /\ call'[c].pc = "idle"
        /\ \A r \in Run : ~Unsettled(r) \/ r = 0
        /\ \A p \in Task : Launching(p) = {}) =>
          \A p \in Task : children'[p] = Cardinality(Unreleased(p) \ {call[c].task})]_vars

(* A dropped root session leaves no child behind: its handles were joined  *)
(* or aborted with it.                                                     *)
DroppedRootOwnsNothing ==
  (phase = "dropped" /\ CallsOf(0) = {}) => \A r \in Run : run[r].wrapper # "live"
=============================================================================
