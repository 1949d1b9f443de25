-------------------------------- MODULE TaskRun --------------------------------
(***************************************************************************)
(* One run of one task, from the ready file to the settled one: the        *)
(* watchdog around a session, the auto-resume loop that stitches sessions  *)
(* together, the operator's inbox, the verdict the runner writes, and what *)
(* the command does with it afterwards (verification gate, completeness    *)
(* check, notification, commit).                                           *)
(*                                                                         *)
(* Time is counted in polls of the watchdog. Reports are abstracted to     *)
(* what the runner reads in them.                                          *)
(***************************************************************************)
EXTENDS Integers, FiniteSets

CONSTANTS
  SecondTicks,    \* polls in a second
  IdleTicks,      \* idle_timeout in polls
  Ceiling,        \* the values of max_seconds, NoCeiling among them if unset
  Continuation,   \* the values of max_continuations
  Entry,          \* how runs are started
  Verdict,        \* what the route's verify commands say
  Mail            \* the messages the operator may leave in the inbox

NoCeiling == -1

(*   single  varda task run        batch  varda run, several at once       *)
(*   resume  varda task resume     child  run_subtask                      *)
Entries == {"single", "batch", "resume", "child"}

ASSUME RunAssumption ==
  /\ SecondTicks \in Nat \ {0} /\ IdleTicks \in Nat \ {0}
  /\ Ceiling \subseteq Nat \cup {NoCeiling}
  /\ Continuation \subseteq Nat
  /\ Entry \subseteq Entries
  /\ Verdict \subseteq {"skipped", "passed", "failed"}
  /\ IsFiniteSet(Mail)

VARIABLES
  setup,      \* how the run was started and the bounds resolved for it
  pc,         \* where the command is
  status,     \* the status the task file holds
  sessions,   \* sessions dispatched
  hop,        \* continuations dispatched
  retried,    \* retried_never_booted
  clock,      \* polls since the loop started
  deadline,   \* when the session's share of the budget is used up
  quiet,      \* polls since the session's log last grew
  last,       \* what ended the latest session, and its report
  pending,    \* some report so far waits for a verification
  request,    \* the messages the session's resume command carries
  inbox,      \* the messages in the inbox file
  sent,       \* the messages the operator has written
  taken,      \* the messages read off the inbox
  seen,       \* how many sessions in which the agent ran got each message
  snapshot,   \* the dirty paths were recorded before the run
  unreported, \* the run changed files its report does not list
  verified,   \* what the verification gate found
  committed,  \* the reported files are committed
  notified    \* the user has been notified

session == <<sessions, hop, retried, clock, deadline, quiet>>
steering == <<request, inbox, sent, taken, seen>>
work == <<snapshot, unreported, verified, committed, notified>>
vars == <<setup, pc, status, session, last, pending, steering, work>>

Setup == [entry : Entries, interactive : BOOLEAN, ceiling : Ceiling, conts : Continuation,
          streams : BOOLEAN, slot : BOOLEAN, commit : BOOLEAN]

Status == {"ready", "running", "review", "needs_user", "failed"}

(* How a session ends, and what its log says of the guest: a log without a *)
(* word on it counts as a guest that was reached.                          *)
End  == {"none", "report", "error", "idle", "budget", "limit", "unread"}
Boot == {"reached", "never"}
Report == [end : End, boot : Boot, resume : BOOLEAN, user : BOOLEAN]

NoReport == [end |-> "none", boot |-> "reached", resume |-> FALSE, user |-> FALSE]

Pc == {"ready", "session", "ended", "clearing", "interpret", "verdict", "settled",
       "gated", "checked", "finished", "stranded"}

TypeOK ==
  /\ setup \in Setup
  /\ pc \in Pc
  /\ status \in Status
  /\ sessions \in Nat /\ hop \in Nat /\ retried \in BOOLEAN
  /\ clock \in Nat /\ deadline \in Nat /\ quiet \in Nat
  /\ last \in Report
  /\ pending \in BOOLEAN
  /\ request \subseteq Mail /\ inbox \subseteq Mail /\ sent \subseteq Mail /\ taken \subseteq Mail
  /\ seen \in [Mail -> Nat]
  /\ snapshot \in BOOLEAN /\ unreported \in BOOLEAN
  /\ verified \in {"none", "skipped", "passed", "failed"}
  /\ committed \in BOOLEAN /\ notified \in BOOLEAN

(* A resumed run is interactive; a batch and a child run are not. The      *)
(* snapshot is of use to the single run only.                              *)
Init ==
  /\ setup \in {s \in Setup : /\ s.entry \in Entry
                              /\ s.entry \in {"batch", "child"} => ~s.interactive
                              /\ s.entry = "resume" => s.interactive}
  /\ pc = "ready"
  /\ status = "ready"
  /\ sessions = 0 /\ hop = 0 /\ retried = FALSE
  /\ clock = 0 /\ deadline = 0 /\ quiet = 0
  /\ last = NoReport
  /\ pending = FALSE
  /\ request = {} /\ inbox = {} /\ sent = {} /\ taken = {}
  /\ seen = [m \in Mail |-> 0]
  /\ snapshot = FALSE /\ unreported = FALSE
  /\ verified = "none"
  /\ committed = FALSE /\ notified = FALSE

-----------------------------------------------------------------------------
HasCeiling == setup.ceiling # NoCeiling

(* Mutated form: every session gets the whole budget. *)
FullSeconds == setup.ceiling

(* The whole seconds of the total budget that are left.                    *)
RemainingSeconds ==
  LET spent == clock \div SecondTicks IN
    IF setup.ceiling > spent THEN setup.ceiling - spent ELSE 0

(* Mutated form: a budget that is not set is used as if it were. *)
DispatchUnsetCeiling(messages) ==
  /\ pc' = "session"
  /\ sessions' = sessions + 1
  /\ request' = messages
  /\ deadline' = clock + (setup.ceiling - clock \div SecondTicks) * SecondTicks
  /\ quiet' = 0
  /\ UNCHANGED clock

(* Dispatch a session with a log of its own; its messages come with it.    *)
Dispatch(messages) ==
  /\ pc' = "session"
  /\ sessions' = sessions + 1
  /\ request' = messages
  /\ deadline' = IF HasCeiling /\ ~setup.interactive
                 THEN clock + RemainingSeconds * SecondTicks ELSE 0
  /\ quiet' = 0
  /\ UNCHANGED clock

(* run_task or resume_interactive_task takes the ready task to running. A  *)
(* task that is not ready is refused.                                      *)
Start ==
  /\ pc = "ready"
  /\ IF status = "ready"
     THEN /\ status' = "running"
          /\ Dispatch({})
          /\ pending' = FALSE
          /\ snapshot' \in IF setup.entry = "single" /\ setup.commit THEN BOOLEAN ELSE {FALSE}
     ELSE /\ pc' = "stranded"
          /\ UNCHANGED <<status, sessions, request, deadline, quiet, clock, pending, snapshot>>
  /\ UNCHANGED <<setup, hop, retried, last, inbox, sent, taken, seen,
                 unreported, verified, committed, notified>>

(* The messages of a request reach an agent unless its guest never came up. *)
SeenAfter(boot) ==
  seen' = [m \in Mail |-> IF m \in request /\ boot # "never" THEN seen[m] + 1 ELSE seen[m]]

(* Mutated form: an agent that does not stream is not watched at all. *)
WatchedIfStreaming == ~setup.interactive /\ setup.streams

(* An interactive session is left to its user. *)
Watched == ~setup.interactive

(* Time matters only to a run with a ceiling. *)
Elapsed == IF HasCeiling THEN clock + 1 ELSE clock

(* Why a poll stops the session: the ceiling is looked at first, and       *)
(* silence counts only for agents known to stream.                         *)
KillAt(now, silence) ==
  IF HasCeiling /\ now >= deadline THEN "budget"
  ELSE IF setup.streams /\ silence >= IdleTicks THEN "idle"
  ELSE "none"

(* A poll of run_session_watched that finds the session still going on.    *)
(* The log may have grown since the poll before.                           *)
Poll(grown, boot) ==
  /\ pc = "session"
  /\ Watched
  /\ quiet' = IF grown \/ ~setup.streams THEN 0 ELSE quiet + 1
  /\ clock' = Elapsed
  /\ LET kill == KillAt(clock', quiet') IN
       IF kill = "none"
       THEN UNCHANGED <<pc, last, seen>>
       ELSE /\ last' = [end |-> kill, boot |-> boot, resume |-> FALSE, user |-> kill = "budget"]
            /\ SeenAfter(boot)
            /\ pc' = "ended"
  /\ UNCHANGED <<setup, status, sessions, hop, retried, deadline, pending,
                 request, inbox, sent, taken, work>>

(* resume_task_command's fallback: a fresh run, which may be a headless one. *)
FallBack == \E i \in BOOLEAN : setup' = [setup EXCEPT !.entry = "single", !.interactive = i]

(* The session is over before the next poll, or just as it is due: then    *)
(* the result wins. The text of an error may hold the agent's words too,   *)
(* but from a guest that never came up there are neither words nor report. *)
Return(end, boot, resume, user, waits, late) ==
  /\ pc = "session"
  /\ boot = "never" => end = "error" /\ ~user /\ ~waits
  /\ end = "error" => ~resume
  /\ last' = [end |-> end, boot |-> boot, resume |-> resume, user |-> user]
  /\ pending' = (pending \/ waits)
  /\ SeenAfter(boot)
  /\ clock' = IF late /\ HasCeiling /\ ~setup.interactive THEN clock + 1 ELSE clock
  /\ IF setup.entry = "resume" /\ end = "error"
     THEN \* the failed resume gives the task back and a fresh run is started
          /\ pc' = "ready"
          /\ status' = "ready"
          /\ FallBack
     ELSE /\ pc' = IF setup.interactive
                   THEN IF end = "report" THEN "interpret" ELSE "verdict"
                   ELSE "ended"
          /\ UNCHANGED <<status, setup>>
  /\ UNCHANGED <<sessions, hop, retried, deadline, quiet, request, inbox, sent, taken, work>>

-----------------------------------------------------------------------------
(* Mutated form: any failed session is tried again. *)
RetryAnyFailure == last.end \in {"error", "idle"} /\ ~retried

(* Mutated form: the loop does not remember that it retried. *)
RetryEachTime == last.boot = "never"

RetryDue == last.boot = "never" /\ ~retried

(* Mutated form: the retry starts from the task, without the messages. *)
RetryFromScratch ==
  /\ pc = "ended"
  /\ RetryDue
  /\ retried' = TRUE
  /\ Dispatch({})
  /\ UNCHANGED <<setup, status, hop, last, pending, inbox, sent, taken, seen, work>>

(* A guest that never came up ran nothing: one fresh session per hop.      *)
RetryNeverBooted ==
  /\ pc = "ended"
  /\ RetryDue
  /\ retried' = TRUE
  /\ Dispatch(request)
  /\ UNCHANGED <<setup, status, hop, last, pending, inbox, sent, taken, seen, work>>

MoreWork == last.end = "report" /\ setup.conts > 0 /\ last.resume /\ ~last.user

(* The next hop begins with the inbox, if the resume command has a place   *)
(* for it: its content is read...                                          *)
ReadInbox ==
  /\ pc = "ended"
  /\ ~RetryDue /\ MoreWork /\ hop < setup.conts
  /\ request' = IF setup.slot THEN inbox ELSE {}
  /\ taken' = IF setup.slot THEN taken \cup inbox ELSE taken
  /\ pc' = "clearing"
  /\ UNCHANGED <<setup, status, session, last, pending, inbox, sent, seen, work>>

(* ... and the file truncated before the continuation is dispatched.       *)
Continue ==
  /\ pc = "clearing"
  /\ inbox' = IF setup.slot THEN {} ELSE inbox
  /\ hop' = hop + 1
  /\ retried' = FALSE
  /\ Dispatch(request)
  /\ UNCHANGED <<setup, status, last, pending, sent, taken, seen, work>>

(* Mutated form: at the limit the last report stands as it is. *)
LimitForgotten(r) == r

(* Reaching the limit with work left is a question to the user.            *)
AtLimit(r) == IF MoreWork THEN [r EXCEPT !.end = "limit", !.user = TRUE] ELSE r

LoopLocalsGone ==
  /\ hop' = 0 /\ retried' = FALSE
  /\ clock' = 0 /\ deadline' = 0 /\ quiet' = 0
  /\ request' = {}

(* The loop is over: the last report, the limit or the failure stands.     *)
LeaveLoop ==
  /\ pc = "ended"
  /\ ~RetryDue /\ ~(MoreWork /\ hop < setup.conts)
  /\ last' = AtLimit(last)
  /\ pc' = "verdict"
  /\ LoopLocalsGone
  /\ UNCHANGED <<setup, status, sessions, pending, inbox, sent, taken, seen, work>>

(* After an interactive session an interpreter reads the log. When it      *)
(* cannot, the outcome is unknown. A bare shell is not interpreted.        *)
Interpret(end, user, waits) ==
  /\ pc = "interpret"
  /\ end = "unread" => user
  /\ last' = [NoReport EXCEPT !.end = end, !.user = user]
  /\ pending' = waits
  /\ pc' = "verdict"
  /\ UNCHANGED <<setup, status, session, steering, work>>

(* The status a run settles on: reports of all the hops count.             *)
SettledStatus ==
  IF last.user \/ pending THEN "needs_user"
  ELSE IF last.end \in {"error", "idle"} THEN "failed" ELSE "review"

(* persist_settled_task. What the run changed is known from here on.       *)
Settle ==
  /\ pc = "verdict"
  /\ status' = SettledStatus
  /\ unreported' \in BOOLEAN
  /\ pc' = "settled"
  /\ UNCHANGED <<setup, session, last, pending, steering, snapshot, verified, committed, notified>>

-----------------------------------------------------------------------------
Gated   == setup.entry \in {"single", "batch"} /\ setup.commit
Checked == setup.entry = "single" /\ setup.commit /\ snapshot

(* Mutated form: a red verification fails whatever the run settled on. *)
AfterGateAlways(v) == IF v = "failed" THEN "failed" ELSE status

AfterGate(v) == IF v = "failed" /\ status # "needs_user" THEN "failed" ELSE status

(* apply_verification_gate, on the host, before anything is committed.     *)
Gate ==
  /\ pc = "settled"
  /\ IF Gated
     THEN \E v \in Verdict : verified' = v /\ status' = AfterGate(v)
     ELSE UNCHANGED <<verified, status>>
  /\ pc' = "gated"
  /\ UNCHANGED <<setup, session, last, pending, steering, snapshot, unreported, committed, notified>>

(* flag_incomplete_files_touched: a short list is a question to the user,  *)
(* unless the run has failed.                                              *)
Flag ==
  /\ pc = "gated"
  /\ status' = IF Checked /\ unreported /\ status # "failed" THEN "needs_user" ELSE status
  /\ pc' = "checked"
  /\ UNCHANGED <<setup, session, last, pending, steering, work>>

(* Mutated form: what the gate found does not keep files back. *)
MayCommitAlways == Gated

MayCommit == Gated /\ verified # "failed"

(* Mutated form: the notification goes by what the agent asked. *)
NotifyOnAnswer == setup.entry \in {"single", "batch"} /\ last.user

Notify == setup.entry \in {"single", "batch"} /\ status = "needs_user"

(* The rest of the command: notify the user, commit the reported files.    *)
Finish ==
  /\ pc = "checked"
  /\ notified' = Notify
  /\ committed' = MayCommit
  /\ pc' = "finished"
  /\ UNCHANGED <<setup, status, session, last, pending, steering, snapshot, unreported, verified>>

(* A file the command needs cannot be read or written: it returns Err. A   *)
(* resumed run falls back to a fresh one, which needs a ready task.        *)
Strand ==
  /\ pc \notin {"session", "finished", "stranded"}
  /\ IF setup.entry = "resume" /\ pc \in {"ready", "interpret", "verdict"}
     THEN pc' = "ready" /\ FallBack
     ELSE pc' = "stranded" /\ UNCHANGED setup
  /\ UNCHANGED <<status, session, last, pending, steering, work>>

(* The operator appends to the inbox whenever she likes. What she writes   *)
(* to a run that does not read it, or no longer, is of no consequence.     *)
Write(m) ==
  /\ setup.slot /\ ~setup.interactive
  /\ pc \in {"session", "ended", "clearing"}
  /\ m \notin sent
  /\ sent' = sent \cup {m}
  /\ inbox' = inbox \cup {m}
  /\ UNCHANGED <<setup, pc, status, session, last, pending, request, taken, seen, work>>

Ended == pc \in {"finished", "stranded"}

Over == Ended /\ UNCHANGED vars

-----------------------------------------------------------------------------
AgentStep ==
  \E end \in {"report", "error"}, boot \in Boot, resume, user, waits, late \in BOOLEAN :
    Return(end, boot, resume, user, waits, late)

Watch == \E grown \in BOOLEAN, boot \in Boot : Poll(grown, boot)

LoopStep == RetryNeverBooted \/ ReadInbox \/ Continue \/ LeaveLoop

SettleStep ==
  \/ \E end \in {"report", "unread"}, user, waits \in BOOLEAN : Interpret(end, user, waits)
  \/ Settle \/ Gate \/ Flag \/ Finish

Next ==
  \/ Start \/ AgentStep \/ Watch \/ LoopStep \/ SettleStep \/ Strand
  \/ \E m \in Mail : Write(m)
  \/ Over

Spec == Init /\ [][Next]_vars

(* The runner's own steps and its poll timer; nothing is assumed of the    *)
(* agent, which may neither report nor stop to print.                      *)
Fairness == WF_vars(Start) /\ WF_vars(Watch) /\ WF_vars(LoopStep) /\ WF_vars(SettleStep)

FairSpec == Spec /\ Fairness

-----------------------------------------------------------------------------
(* A run stays within its bounds through all its sessions.  The ceiling is *)
(* one budget for all of them: only the part of a second that rounding     *)
(* leaves and one poll per session go beyond it.  Continuations and        *)
(* retries are bounded together: one retry for each hop and never more     *)
(* hops than allowed, the fresh run after a failed resume being one        *)
(* session more.                                                           *)
WithinBounds ==
  /\ pc = "session" /\ HasCeiling => clock < (setup.ceiling + 1) * SecondTicks + sessions
  /\ sessions <= 2 * (setup.conts + 1) + 1

(* A message read off the inbox reaches one agent: it is in the hands of   *)
(* the session that runs or has reached one before, so that a retry does   *)
(* not lose it, and no agent is given it twice, retries included.          *)
SteeringDelivered ==
  \A m \in Mail : /\ seen[m] <= 1
                  /\ pc = "session" /\ m \in taken => m \in request \/ seen[m] > 0

(* A task is up for review only if its last session ended by itself with   *)
(* nothing asked, nothing left to continue, no hop waiting for a           *)
(* verification, and neither the host's verification nor the completeness  *)
(* check against it.                                                       *)
ReviewMeansComplete ==
  (pc = "finished" /\ status = "review") =>
    /\ last.end = "report" /\ ~last.user /\ ~pending
    /\ ~setup.interactive /\ setup.conts > 0 => ~last.resume
    /\ verified # "failed"
    /\ Checked => ~unreported

(* A question to the user outranks what the checks find after it.          *)
QuestionStands == [][status = "needs_user" => status' = "needs_user"]_status

(* What is done after a run agrees with where its task ends: what the      *)
(* host's verification found red is not committed, and the user is         *)
(* notified exactly when the task is left to her, whichever of the steps   *)
(* decided that.                                                           *)
AftermathAgrees ==
  /\ committed => verified \in {"passed", "skipped"}
  /\ (pc = "finished" /\ setup.entry \in {"single", "batch"}) =>
       (notified <=> status = "needs_user")

(* A run with a ceiling ends, whatever its sessions do and even if they    *)
(* never answer.                                                           *)
RunEnds == (pc = "session" /\ HasCeiling /\ ~setup.interactive) ~> Ended

-----------------------------------------------------------------------------
(* A promise of the sources that the code does not keep (README,           *)
(* Findings): TLC refutes it.                                              *)

(* A resumed session that fails gives the task back, so that the fresh run *)
(* it falls back to finds it ready.                                        *)
FallbackStarts == (pc = "ready" /\ sessions > 0) => status = "ready"
=============================================================================
