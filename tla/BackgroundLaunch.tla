-------------------------- MODULE BackgroundLaunch --------------------------
(***************************************************************************)
(* `varda task run --background` (main.rs spawn_task_in_background,        *)
(* wait_for_background_launch_with_timeout,                                *)
(* record_background_launch_failure).  A launcher starts `varda task run`  *)
(* as a child process, then looks in turn at the task file and at the      *)
(* child until the file holds the log of a new session, the child is gone  *)
(* or ten seconds are over.  In the last two cases it writes the failure   *)
(* into the file itself.                                                   *)
(*                                                                         *)
(* Launchers and children share nothing but the task file and the session  *)
(* logs, and none of the steps below takes the task's lock: a process may  *)
(* write what it read before another one wrote.  The run of the child is   *)
(* that of TaskRun, of which only the writes are left here.                *)
(***************************************************************************)
EXTENDS Integers, Sequences

CONSTANTS
    Launcher,   \* commands started for the same task, each with its child
    Before,     \* the session of an earlier run of the task
    MaxPolls    \* bound: looks at the file before the timeout

ASSUME LauncherAssumption == Before \notin Launcher
ASSUME PollsAssumption == MaxPolls \in Nat \ {0}

Settled == {"needs_user", "failed", "review"}
Status == {"ready", "running"} \cup Settled

\* off, waiting, after a look at the file, recording a failure, ended.
LauncherPhase == {"off", "poll", "check", "load", "write", "ok", "exited", "late"}
\* Before the run, with the file read, marked, logged and running, settled.
ChildPhase == {"none", "start", "mark", "log", "run", "settled", "over"}

\* A session is named by who opened it and by the kind of opener.
Session == {<<Before, "run">>} \cup (Launcher \X {"run", "failure"})

VARIABLES
    file,       \* the task file: status, sessions, and (ghost) its writer
    logs,       \* the sessions whose log file exists
    phase,      \* where each launcher is
    child,      \* where its child is
    seen,       \* sessions in the file when the launcher started
    recorded,   \* what its last look at the file told
    polls,      \* looks so far
    doc,        \* the sessions that a launcher read to record a failure
    own,        \* the sessions in the memory of its child
    reason      \* why the launcher gave up

vars == <<file, logs, phase, child, seen, recorded, polls, doc, own, reason>>
launcher == <<phase, seen, recorded, polls, doc, reason>>

Init ==
    /\ file \in [status : {"ready"}, sessions : {<<>>, <<<<Before, "run">>>>}, by : {"nobody"}]
    /\ logs = {<<Before, "run">>}
    /\ phase = [l \in Launcher |-> "off"]
    /\ child = [l \in Launcher |-> "none"]
    /\ seen = [l \in Launcher |-> 0]
    /\ recorded = [l \in Launcher |-> FALSE]
    /\ polls = [l \in Launcher |-> 0]
    /\ doc = [l \in Launcher |-> <<>>]
    /\ own = [l \in Launcher |-> <<>>]
    /\ reason = [l \in Launcher |-> "none"]

-----------------------------------------------------------------------------
(* The child: `varda task run`.                                            *)

ChildGoes(l, next) == child' = [child EXCEPT ![l] = next]

\* A task that is not ready turns the child away.
Read(l) ==
    /\ child[l] = "start"
    /\ IF file.status = "ready"
       THEN ChildGoes(l, "mark") /\ own' = [own EXCEPT ![l] = file.sessions]
       ELSE ChildGoes(l, "over") /\ UNCHANGED own
    /\ UNCHANGED <<file, logs, launcher>>

Mark(l) ==
    /\ child[l] = "mark"
    /\ own' = [own EXCEPT ![l] = Append(@, <<l, "run">>)]
    /\ file' = [status |-> "running", sessions |-> own'[l], by |-> l]
    /\ ChildGoes(l, "log")
    /\ UNCHANGED <<logs, launcher>>

\* The log is written after the push to the tracker, so some time later.
Log(l) ==
    /\ child[l] = "log"
    /\ logs' = logs \cup {<<l, "run">>}
    /\ ChildGoes(l, "run")
    /\ UNCHANGED <<file, own, launcher>>

\* The outcome is written with the child's own list of sessions.
Settle(l) ==
    /\ child[l] = "run"
    /\ \E s \in Settled : file' = [status |-> s, sessions |-> own[l], by |-> l]
    /\ ChildGoes(l, "settled")
    /\ UNCHANGED <<logs, own, launcher>>

\* The run is over, or the child fails on the way: no route, no agent, a file
\* that cannot be written, a crash.
Exit(l) ==
    /\ child[l] \notin {"none", "over"}
    /\ ChildGoes(l, "over")
    /\ UNCHANGED <<file, logs, own, launcher>>

-----------------------------------------------------------------------------
(* The launcher.                                                           *)

Goes(l, next) == phase' = [phase EXCEPT ![l] = next]

Launch(l) ==
    /\ phase[l] = "off" /\ file.status = "ready"
    /\ Goes(l, "poll")
    /\ seen' = [seen EXCEPT ![l] = Len(file.sessions)]
    /\ ChildGoes(l, "start")
    /\ UNCHANGED <<file, logs, recorded, polls, doc, own, reason>>

\* The first session that was not there before has its log.
IsRecorded(l) ==
    /\ Len(file.sessions) > seen[l]
    /\ file.sessions[seen[l] + 1] \in logs

(* Mutated form: the ten seconds start again with each look.               *)
ElapsedRestarts(n) == n

\* Time passes between two looks.
Elapsed(n) == n + 1

\* The look at the file.
Poll(l) ==
    /\ phase[l] = "poll"
    /\ recorded' = [recorded EXCEPT ![l] = IsRecorded(l)]
    /\ polls' = [polls EXCEPT ![l] = Elapsed(@)]
    /\ Goes(l, IF IsRecorded(l) /\ file.status # "ready" THEN "ok" ELSE "check")
    /\ UNCHANGED <<file, logs, child, seen, doc, own, reason>>

\* The look at the child, which may have gone on since.
FindExited(l) ==
    /\ phase[l] = "check" /\ child[l] = "over"
    /\ IF recorded[l]
       THEN Goes(l, "ok") /\ UNCHANGED reason
       ELSE Goes(l, "load") /\ reason' = [reason EXCEPT ![l] = "exited"]
    /\ UNCHANGED <<file, logs, child, seen, recorded, polls, doc, own>>

(* Mutated form: the child is told to stop and not waited for.             *)
KillNoWait(l) == child' = child

\* The child is killed and waited for.
Kill(l) == ChildGoes(l, "over")

\* The ten seconds are over, however little the child did in them.
TimeOut(l) ==
    /\ phase[l] = "check" /\ child[l] # "over"
    /\ Kill(l)
    /\ Goes(l, "load")
    /\ reason' = [reason EXCEPT ![l] = "late"]
    /\ UNCHANGED <<file, logs, seen, recorded, polls, doc, own>>

Again(l) ==
    /\ phase[l] = "check" /\ child[l] # "over" /\ polls[l] < MaxPolls
    /\ Goes(l, "poll")
    /\ UNCHANGED <<file, logs, child, seen, recorded, polls, doc, own, reason>>

(* Mutated form: only a task that nobody started is marked as failed.      *)
IsOpenReady == file.status = "ready"

(* Mutated form: whatever the file says, the launch failed.                *)
IsOpenAlways == TRUE

\* Only a task without an outcome is given one.
IsOpen == file.status \in {"ready", "running"}

\* An outcome that is there by now stands; the launch is an error all the same.
LoadForFailure(l) ==
    /\ phase[l] = "load"
    /\ IF IsOpen
       THEN Goes(l, "write") /\ doc' = [doc EXCEPT ![l] = file.sessions]
       ELSE Goes(l, reason[l]) /\ UNCHANGED doc
    /\ UNCHANGED <<file, logs, child, seen, recorded, polls, own, reason>>

(* Mutated form: the failure is recorded under the session of the run.     *)
FailureOfRun(l) == <<l, "run">>

\* A failure has a session of its own.
FailureSession(l) == <<l, "failure">>

WriteFailure(l) ==
    /\ phase[l] = "write"
    /\ file' = [status |-> "failed", sessions |-> Append(doc[l], FailureSession(l)), by |-> l]
    /\ logs' = logs \cup {FailureSession(l)}
    /\ Goes(l, reason[l])
    /\ UNCHANGED <<child, seen, recorded, polls, doc, own, reason>>

Waits(l) ==
    \/ Poll(l) \/ FindExited(l) \/ TimeOut(l) \/ Again(l)
    \/ LoadForFailure(l) \/ WriteFailure(l)

Runs(l) == Read(l) \/ Mark(l) \/ Log(l) \/ Settle(l) \/ Exit(l)

Next == \E l \in Launcher : Launch(l) \/ Waits(l) \/ Runs(l)

\* The loop of a launcher goes on; a child may hang for ever.
Fairness == \A l \in Launcher : WF_vars(Waits(l))

Spec == Init /\ [][Next]_vars /\ Fairness

-----------------------------------------------------------------------------
(* Properties.                                                             *)

Ended == {"ok", "exited", "late"}
Errors == {"exited", "late"}

\* Every variable keeps its type; one session for each opener at most.
TypeOK ==
    /\ file.status \in Status /\ file.by \in Launcher \cup {"nobody"}
    /\ \A i, j \in DOMAIN file.sessions :
          /\ file.sessions[i] \in Session
          /\ file.sessions[i] = file.sessions[j] => i = j
    /\ logs \subseteq Session
    /\ phase \in [Launcher -> LauncherPhase]
    /\ child \in [Launcher -> ChildPhase]
    /\ seen \in [Launcher -> 0..1]
    /\ recorded \in [Launcher -> BOOLEAN]
    /\ polls \in [Launcher -> 0..MaxPolls]
    /\ reason \in [Launcher -> {"none"} \cup Errors]

\* A launch that is reported as failed is over: it leaves no child behind that
\* goes on to write the file (child.kill and child.wait, main.rs:4895-4896); and
\* when every launch of the task was an error the file says so, it is not left
\* ready or running with nobody to run it, although launchers and children of
\* the same task write over one another (record_background_launch_failure).
ErrorMeansOver ==
    /\ \A l \in Launcher : phase[l] \in Errors => child[l] = "over"
    /\ (/\ \A l \in Launcher : phase[l] \in Errors \cup {"off"}
        /\ \E l \in Launcher : phase[l] \in Errors)
       => file.status \in Settled

\* The outcome that a child wrote is never replaced by the failure that its own
\* launcher records, however late the launcher finds out that it ran.
OutcomeStands ==
    [][\A l \in Launcher :
          (phase[l] = "write" /\ phase'[l] # "write")
          => ~(file.by = l /\ file.status \in Settled)]_vars

\* A launch ends: the command returns, with a child that hangs as well.
LaunchEnds == \A l \in Launcher : phase[l] = "poll" ~> phase[l] \in Ended

-----------------------------------------------------------------------------
(* A promise of the sources that the code does not keep (README,           *)
(* Findings): TLC refutes it.                                              *)

\* What a comment says of the wait: a child that recorded its session and
\* finished before a look at the file is a success (main.rs:4752).  It is one
\* for a look at the file only, not when the child does so between the look at
\* the file and the look at the child.
FastRunSucceeds ==
    \A l \in Launcher : phase[l] = "exited" => <<l, "run">> \notin logs
=============================================================================
