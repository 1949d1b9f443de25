------------------------------ MODULE TrackedTask ------------------------------
(***************************************************************************)
(* A task and the work item of a tracker that it mirrors: the task file    *)
(* with its `external' block, the remote item that people move as they     *)
(* like, and everything of varda that writes either: the runner with its   *)
(* push at every change of status, `varda tracker sync', `varda tracker    *)
(* pull', the commands that set a status, and the checks after a run.      *)
(*                                                                         *)
(* A push is a sequence of requests, and people may come between any two.  *)
(* A writer of the file either loads it and writes it later, with nothing  *)
(* to stop others (most do), or does both under the lock of the task.      *)
(***************************************************************************)
EXTENDS Naturals

CONSTANTS
  RemoteState,  \* states of a work item
  StatusMap,    \* the status_map of the tracker: status -> remote state
  Terminal,     \* the remote states that the backend reports as closed
  None,         \* no state, no status, nobody
  Backend,      \* backends: "azdo" compares and sets, "github" only compares
  Verdict,      \* statuses that a run may settle on
  Command,      \* statuses that the dashboard and `varda task update' may set
  Report,       \* statuses that an agent may report of its own run
  Gate,         \* statuses that the checks after a run may write
  MaxEdits,     \* bound on how often people touch the item
  MaxEvents     \* bound, by backend, on the requests that fail, the continuations of
                \* the run, the pulls and the commands, together

Status == {"backlog", "ready", "running", "review", "needs_user", "failed", "done"}

(* The runner pushes; so does `varda tracker sync'. *)
Pusher == {"runner", "sync"}

ASSUME TrackedAssumption ==
  /\ StatusMap \in [Status -> RemoteState]
  /\ Terminal \subseteq RemoteState /\ StatusMap["done"] \in Terminal
  /\ None \notin RemoteState \cup Status \cup Pusher
  /\ Verdict \subseteq {"review", "needs_user", "failed"}
  /\ Command \subseteq Status /\ Report \subseteq {"done", "needs_user", "failed"}
  /\ Gate \subseteq {"needs_user", "failed"}
  /\ MaxEdits \in Nat /\ MaxEvents \in [Backend -> Nat]

VARIABLES
  backend,  \* which kind of tracker this is
  item,     \* the remote item: its state and its revision
  file,     \* the task file: its status and its external block
  lock,     \* who holds the lock of the task, or None
  run,      \* where the run is
  doc,      \* the document that the runner holds in memory
  push,     \* who pushes -> where the push is, with its locals
  desk,     \* where the pull or the command in hand is, with its locals
  events,   \* how much of MaxEvents was used
  edits,    \* how much of MaxEdits was used
  raced,    \* whether a write without the lock undid one that its writer had not read,
            \* or came between the two steps of a write under it, or a pull
            \* took an answer older than what the file knows
  unrecorded \* whether what a push did to the item was not written to the file

remote == <<backend, item, edits>>
vars == <<remote, file, lock, run, doc, push, desk, events, raced, unrecorded>>

Idle == [pc |-> "idle"]

(* The external block: the revision and the state that varda last saw, the *)
(* status it last pushed, and the error of the last push.                  *)
External == [rev : Nat, known : RemoteState \cup {None}, synced : Status \cup {None},
             err : {"none", "conflict", "failed"}]

Doc == [status : Status, ext : External]
Gone == [status |-> None]  \* no document: there is no process
Item == [state : RemoteState, rev : Nat]

Closed(state) == state \in Terminal
IsDone(state) == state = StatusMap["done"]

(* A task that was imported and synced; an older varda did not record the  *)
(* state it saw.                                                           *)
Init ==
  /\ backend \in Backend
  /\ item = [state |-> StatusMap["ready"], rev |-> 1]
  /\ \E known \in {None, item.state} :
       file = [status |-> "ready",
               ext |-> [rev |-> 1, known |-> known, synced |-> "ready", err |-> "none"]]
  /\ lock = None
  /\ run = "idle" /\ doc = Gone
  /\ push = [a \in Pusher |-> Idle] /\ desk = Idle
  /\ events = 0 /\ edits = 0 /\ raced = FALSE /\ unrecorded = FALSE

Happens == events < MaxEvents[backend] /\ events' = events + 1

(* Somebody moves the item, or changes something else of it. *)
Edit ==
  /\ edits < MaxEdits /\ edits' = edits + 1
  /\ \E state \in RemoteState : item' = [state |-> state, rev |-> item.rev + 1]
  /\ UNCHANGED <<backend, file, lock, run, doc, push, desk, events, raced, unrecorded>>

-----------------------------------------------------------------------------
(* A push: push_via_tracked under push_bounded, then the merge *)

At(a, where) == push[a].pc = where

Begin(d) == [pc |-> "get", status |-> d.status, before |-> d.ext, tries |-> 0]

(* The push is over and its bookkeeping is `ext': that goes into the       *)
(* document of the runner, and, if it changed, into the file.              *)
Conclude(a, ext) ==
  /\ push' = [push EXCEPT ![a] =
                IF ext = push[a].before THEN Idle
                ELSE [pc |-> "lock", before |-> push[a].before, ext |-> ext]]
  /\ doc' = IF a # "runner" THEN doc
            ELSE IF run = "settled" THEN Gone ELSE [doc EXCEPT !.ext = ext]

Continue(a, state) == push' = [push EXCEPT ![a] = state] /\ UNCHANGED doc

Erring(ext, err) == [ext EXCEPT !.err = err]

(* The state the item is expected to be in. *)
Baseline(ext) ==
  IF ext.known # None THEN ext.known
  ELSE IF ext.synced # None THEN StatusMap[ext.synced] ELSE None

(* Why a push refuses: it would reopen the item, or undo what somebody did.*)
OwnershipRefuses(ext, status, state) ==
  \/ Closed(state) /\ status # "done"
  \/ Baseline(ext) \notin {None, state}

AlreadyDone(status, state) == IsDone(state) /\ status = "done"

Unwritten == <<backend, edits, file, lock, run, desk, raced>>
OnlyPushes == UNCHANGED <<Unwritten, unrecorded>>

(* The item is read and it is decided who owns it. *)
GetProceeds(a) ==
  /\ At(a, "get")
  /\ ~AlreadyDone(push[a].status, item.state)
  /\ ~OwnershipRefuses(push[a].before, push[a].status, item.state)
  /\ Continue(a, [pc |-> "move", status |-> push[a].status, before |-> push[a].before,
                  tries |-> push[a].tries, got |-> item])
  /\ OnlyPushes /\ UNCHANGED <<item, events>>

GetConcludes(a) ==
  /\ At(a, "get")
  /\ IF AlreadyDone(push[a].status, item.state)
     THEN Conclude(a, [push[a].before EXCEPT !.synced = push[a].status, !.err = "none"])
     ELSE /\ OwnershipRefuses(push[a].before, push[a].status, item.state)
          /\ Conclude(a, Erring(push[a].before, "conflict"))
  /\ OnlyPushes /\ UNCHANGED <<item, events>>

(* The transition. Every backend first compares the revision; only one that *)
(* compares and sets does the rest in the same request.                    *)
Moved(a) ==
  [state |-> StatusMap[push[a].status], rev |-> item.rev + 1]

(* What the answer says is kept at once; most statuses have a comment. *)
Commented == {"running", "review", "needs_user", "failed"}

Landed(a, answer) ==
  LET ext == [rev |-> answer.rev, known |-> answer.state, synced |-> push[a].status, err |-> "none"]
  IN IF push[a].status \in Commented
     THEN Continue(a, [pc |-> "comment", before |-> push[a].before, ext |-> ext])
     ELSE Conclude(a, ext)

(* Mutated form: the transition is tried again on the revision it found. *)
MoveConflictsRepinned(a) ==
  /\ At(a, "move") /\ item.rev # push[a].got.rev
  /\ IF push[a].tries = 0 THEN Continue(a, [push[a] EXCEPT !.got = item, !.tries = 1])
     ELSE Conclude(a, Erring(push[a].before, "conflict"))
  /\ OnlyPushes /\ UNCHANGED <<item, events>>

(* Another revision than the one just read: the push starts over, once. *)
MoveConflicts(a) ==
  /\ At(a, "move") /\ item.rev # push[a].got.rev
  /\ IF push[a].tries = 0 THEN Continue(a, [pc |-> "get", status |-> push[a].status,
                                            before |-> push[a].before, tries |-> 1])
     ELSE Conclude(a, Erring(push[a].before, "conflict"))
  /\ OnlyPushes /\ UNCHANGED <<item, events>>

MoveAtomically(a) ==
  /\ At(a, "move") /\ backend = "azdo" /\ item.rev = push[a].got.rev
  /\ item' = Moved(a) /\ Landed(a, item')
  /\ OnlyPushes /\ UNCHANGED events

MoveCompares(a) ==
  /\ At(a, "move") /\ backend = "github" /\ item.rev = push[a].got.rev
  /\ Continue(a, [push[a] EXCEPT !.pc = "patch"])
  /\ OnlyPushes /\ UNCHANGED <<item, events>>

(* Only an item in another state is moved; labels change in any case. *)
Patch(a) ==
  /\ At(a, "patch")
  /\ item' = IF push[a].got.state = StatusMap[push[a].status]
             THEN [item EXCEPT !.rev = @ + 1] ELSE Moved(a)
  /\ Continue(a, [pc |-> "reread", status |-> push[a].status, before |-> push[a].before])
  /\ OnlyPushes /\ UNCHANGED events

Reread(a) ==
  /\ At(a, "reread")
  /\ Landed(a, item)
  /\ OnlyPushes /\ UNCHANGED <<item, events>>

(* The comment is a revision of its own. *)
Comment(a) ==
  /\ At(a, "comment")
  /\ item' = [item EXCEPT !.rev = @ + 1]
  /\ Continue(a, [push[a] EXCEPT !.pc = "refresh"])
  /\ OnlyPushes /\ UNCHANGED events

(* The revision is read again, whoever made it; the state is not. *)
Refresh(a) ==
  /\ At(a, "refresh")
  /\ Conclude(a, [push[a].ext EXCEPT !.rev = item.rev])
  /\ OnlyPushes /\ UNCHANGED <<item, events>>

(* A request fails, or the time is up: what had landed before the comment  *)
(* is kept, with an error; without it only the error is.                   *)
RequestFails(a) ==
  /\ push[a].pc \in {"get", "move", "patch", "reread", "comment"} /\ Happens
  /\ Conclude(a, Erring(IF At(a, "comment") THEN push[a].ext ELSE push[a].before, "failed"))
  /\ unrecorded' = (unrecorded \/ At(a, "reread"))
  /\ UNCHANGED <<Unwritten, item>>

(* The item has moved, and the answer does not arrive. *)
AnswerLost(a) ==
  /\ At(a, "move") /\ backend = "azdo" /\ item.rev = push[a].got.rev /\ Happens
  /\ item' = Moved(a)
  /\ Conclude(a, Erring(push[a].before, "failed"))
  /\ unrecorded' = TRUE
  /\ UNCHANGED Unwritten

(* The revision cannot be read: the one of the transition stays. *)
RefreshFails(a) ==
  /\ At(a, "refresh") /\ Happens
  /\ \E err \in {"none", "failed"} : Conclude(a, Erring(push[a].ext, err))
  /\ OnlyPushes /\ UNCHANGED item

(* Mutated form: the file is read without the lock. *)
MergeReadsUnlocked(a) ==
  /\ At(a, "lock")
  /\ lock' = a
  /\ push' = [push EXCEPT ![a] = [pc |-> "save", before |-> @.before, ext |-> @.ext, fresh |-> file]]
  /\ UNCHANGED <<remote, file, run, doc, desk, events, raced, unrecorded>>

(* merge_external_if_changed: under the lock the file is read again, ... *)
MergeReads(a) ==
  /\ At(a, "lock") /\ lock = None
  /\ lock' = a
  /\ push' = [push EXCEPT ![a] = [pc |-> "save", before |-> @.before, ext |-> @.ext, fresh |-> file]]
  /\ UNCHANGED <<remote, file, run, doc, desk, events, raced, unrecorded>>

(* Mutated form: the status the file has now counts as pushed. *)
MergedAsPushed(fresh, ext) ==
  [fresh EXCEPT !.ext = [ext EXCEPT !.synced = IF ext.err = "none" THEN fresh.status ELSE @]]

Merged(fresh, ext) == [fresh EXCEPT !.ext = ext]

(* ... and its bookkeeping replaced if nobody else did. *)
MergeWrites(a) ==
  /\ At(a, "save")
  /\ lock' = None /\ push' = [push EXCEPT ![a] = Idle]
  /\ IF push[a].fresh.ext = push[a].before
     THEN file' = Merged(push[a].fresh, push[a].ext) /\ UNCHANGED unrecorded
     ELSE unrecorded' = TRUE /\ UNCHANGED file
  /\ UNCHANGED <<remote, run, doc, desk, events, raced>>

Pushing(a) ==
  \/ GetProceeds(a) \/ GetConcludes(a) \/ MoveConflicts(a) \/ MoveAtomically(a)
  \/ MoveCompares(a) \/ Patch(a) \/ Reread(a) \/ Comment(a) \/ Refresh(a)
  \/ MergeReads(a) \/ MergeWrites(a)

Faulty(a) == RequestFails(a) \/ AnswerLost(a) \/ RefreshFails(a)

(* Mutated form: an error alone is no reason to push again. *)
NeedsSyncByStatus(d) == d.ext.synced # d.status

(* sync_tasks: a task whose status was not pushed, or whose push failed. *)
NeedsSync(d) == d.ext.synced # d.status \/ d.ext.err # "none"

Sync ==
  /\ At("sync", "idle") /\ NeedsSync(file)
  /\ push' = [push EXCEPT !["sync"] = Begin(file)]
  /\ UNCHANGED <<remote, file, lock, run, doc, desk, events, raced, unrecorded>>

-----------------------------------------------------------------------------
(* The run *)

Free == At("runner", "idle")
PushDoc == push' = [push EXCEPT !["runner"] = Begin(doc')]

(* A write, without the lock, of the whole document as it was read earlier. *)
Overwrite(d, read) ==
  /\ file' = d
  /\ raced' = (raced \/ file # read \/ lock # None)

LoadToRun ==
  /\ run = "idle" /\ file.status = "ready"
  /\ doc' = file /\ run' = "begin"
  /\ UNCHANGED <<remote, file, lock, push, desk, events, raced, unrecorded>>

(* Nobody looks at the file again before running is written. *)
WriteRunning ==
  /\ run = "begin"
  /\ doc' = [doc EXCEPT !.status = "running"] /\ run' = "working"
  /\ Overwrite(doc', doc) /\ PushDoc
  /\ UNCHANGED <<remote, lock, desk, events, unrecorded>>

(* A continuation writes the document in memory, after the push. *)
Hop ==
  /\ run = "working" /\ Free /\ Happens
  /\ Overwrite(doc, doc)
  /\ UNCHANGED <<remote, lock, run, doc, push, desk, unrecorded>>

(* Mutated form: the bookkeeping is the one in memory. *)
SettledFromMemory(verdict, fresh) == [status |-> verdict, ext |-> doc.ext]

(* persist_settled_task: under the lock the bookkeeping is that of the file.*)
Settled(verdict, fresh) == [status |-> verdict, ext |-> fresh.ext]

SettleReads ==
  /\ run = "working" /\ Free /\ lock = None
  /\ lock' = "runner" /\ run' = "settling"
  /\ \E verdict \in Verdict : doc' = Settled(verdict, file)
  /\ UNCHANGED <<remote, file, push, desk, events, raced, unrecorded>>

(* Mutated form: the lock stays. *)
SettleWritesHolding ==
  /\ run = "settling"
  /\ run' = "settled"
  /\ file' = doc
  /\ UNCHANGED <<doc, lock>> /\ PushDoc
  /\ UNCHANGED <<remote, desk, events, raced, unrecorded>>

SettleWrites ==
  /\ run = "settling"
  /\ lock' = None /\ run' = "settled"
  /\ file' = doc
  /\ UNCHANGED doc /\ PushDoc
  /\ UNCHANGED <<remote, desk, events, raced, unrecorded>>

RunStep ==
  LoadToRun \/ WriteRunning \/ SettleReads \/ SettleWrites

-----------------------------------------------------------------------------
(* Pulls and commands: each loads the file and writes it later *)

OnlyDesk == UNCHANGED <<remote, lock, run, doc, push, unrecorded>>

Query ==
  /\ desk = Idle /\ Happens
  /\ desk' = [pc |-> "answer", got |-> item]
  /\ OnlyDesk /\ UNCHANGED <<file, raced>>

(* What a pull makes of a task whose item has another revision. *)
Pulled(d, got) ==
  [status |-> IF IsDone(got.state) THEN "done" ELSE d.status,
   ext |-> [d.ext EXCEPT !.rev = got.rev, !.known = got.state]]

PullLoads ==
  /\ desk.pc = "answer"
  /\ desk' = IF file.status = "running" \/ file.ext.rev = desk.got.rev THEN Idle
             ELSE [pc |-> "write", read |-> file, d |-> Pulled(file, desk.got)]
  /\ raced' = (raced \/ (desk' # Idle /\ desk.got.rev < file.ext.rev))
  /\ OnlyDesk /\ UNCHANGED <<file, events>>

(* The dashboard, `varda task update', an agent that reports on its run, and *)
(* the checks that follow a run: they write a status, and do not push it.  *)
Settable ==
  Command \cup (IF file.status = "running" THEN Report ELSE {})
          \cup (IF run = "settled" /\ Free THEN Gate ELSE {})

CommandLoads ==
  /\ desk = Idle /\ Happens
  /\ \E status \in Settable :
       desk' = [pc |-> "write", read |-> file, d |-> [file EXCEPT !.status = status]]
  /\ OnlyDesk /\ UNCHANGED <<file, raced>>

DeskWrites ==
  /\ desk.pc = "write" /\ desk' = Idle
  /\ Overwrite(desk.d, desk.read)
  /\ OnlyDesk /\ UNCHANGED events

-----------------------------------------------------------------------------
Next ==
  \/ Edit
  \/ \E a \in Pusher : Pushing(a) \/ Faulty(a)
  \/ Sync \/ RunStep \/ Hop
  \/ Query \/ PullLoads \/ CommandLoads \/ DeskWrites

(* A process goes on with what it began, and `varda tracker sync' is run    *)
(* until it has nothing to do; no pull, command or continuation need come, *)
(* or come to its end.                                                     *)
Fairness ==
  /\ WF_vars((run # "idle" /\ RunStep) \/ Pushing("runner"))
  /\ WF_vars(Sync \/ Pushing("sync"))

Spec == Init /\ [][Next]_vars /\ Fairness

-----------------------------------------------------------------------------
(* Properties *)

PushState ==
  {Idle}
  \cup [pc : {"get"}, status : Status, before : External, tries : 0..1]
  \cup [pc : {"move", "patch"}, status : Status, before : External, tries : 0..1, got : Item]
  \cup [pc : {"reread"}, status : Status, before : External]
  \cup [pc : {"comment", "refresh", "lock"}, before : External, ext : External]
  \cup [pc : {"save"}, before : External, ext : External, fresh : Doc]

DeskState ==
  {Idle} \cup [pc : {"answer"}, got : Item] \cup [pc : {"write"}, read : Doc, d : Doc]

(* The types; the lock is held by whoever is between its two steps. *)
TypeOK ==
  /\ backend \in Backend
  /\ item \in Item /\ file \in Doc /\ doc \in Doc \cup {Gone}
  /\ run \in {"idle", "begin", "working", "settling", "settled"}
  /\ push \in [Pusher -> PushState] /\ desk \in DeskState
  /\ lock = IF run = "settling" \/ At("runner", "save") THEN "runner"
            ELSE IF At("sync", "save") THEN "sync" ELSE None
  /\ events \in 0..MaxEvents[backend] /\ edits \in 0..MaxEdits
  /\ raced \in BOOLEAN /\ unrecorded \in BOOLEAN

Quiet == desk = Idle /\ \A a \in Pusher : push[a] = Idle

(* What varda believes of the item is so, once everything at work is done, *)
(* if nobody moved it, no write undid an unread one and no push went       *)
(* unrecorded: settling, in particular, keeps what `varda tracker sync'    *)
(* wrote while the agent ran (persist_settled_task).  A task that shows as *)
(* pushed is then so on the item.                                          *)
BookkeepingTrue ==
  Quiet /\ run # "settling" /\ edits = 0 /\ ~raced /\ ~unrecorded =>
    /\ file.ext.known \in {item.state, None}
    /\ ~NeedsSync(file) => item.state = StatusMap[file.status]

(* On a backend that compares and sets, varda moves an item only out of    *)
(* the state it last knew it in, whatever people do between two requests,  *)
(* and it never opens a closed one (docs/trackers.md, Conflicts).          *)
HumanStands ==
  [][backend = "azdo" /\ item'.state # item.state /\ ~Edit =>
       /\ Closed(item.state) => Closed(item'.state)
       /\ \E a \in Pusher : At(a, "move") /\ Baseline(push[a].before) \in {None, item.state}]_vars

(* A push that was under way while the status changed leaves that status   *)
(* alone: only runs and commands set it (merge_external_if_changed).       *)
PushKeepsStatus ==
  [][file'.status # file.status /\ ~raced => run' # run \/ desk' # desk \/ Hop]_vars

(* In the end the status of the task is on the item, or the task shows a   *)
(* conflict: no failed or forgotten push stays (sync_tasks).               *)
PushedOrRefused ==
  <>[](\/ file.ext.err = "conflict"
       \/ file.ext.synced = file.status /\ file.ext.err = "none")

-----------------------------------------------------------------------------
(* A promise of the sources that the code does not keep (README,           *)
(* Findings): TLC refutes it.                                              *)

(* When people move the item to done, a pull that sees it marks the task   *)
(* done unless it runs (docs/trackers.md, Lifecycle).                      *)
CloseIsPulled ==
  [][desk.pc = "answer" /\ desk' = Idle /\ IsDone(desk.got.state)
       => file.status \in {"running", "done"}]_vars
=============================================================================
