------------------------------- MODULE Checkouts -------------------------------
(***************************************************************************)
(* The checkouts of isolated workers, from the clone to the removal: a     *)
(* root run (a resident) clones the mother repository for every worker it  *)
(* launches, records the clone in a registry that it shares, on disk, with *)
(* other residents and with those that come after a crash, merges branches *)
(* of workers into the mother when its agent asks for that, and removes    *)
(* what is integrated when it succeeds.                                    *)
(*                                                                         *)
(* A commit is the set of the contributions it contains.  What a worker    *)
(* contributes is one file that its recap reports and one that it does     *)
(* not.  Agents await a worker before they integrate it, as the launcher   *)
(* expects of them (the code does not check it).                           *)
(***************************************************************************)
EXTENDS Naturals, Sequences, FiniteSets

CONSTANTS
  Root,       \* residents, each a process that may start again after it ended
  Task,       \* subtasks
  Branch,     \* branches of the mother
  Start,      \* the branch that the mother has checked out at first
  None,
  MaxClones,  \* bound on launches
  MaxStarts,  \* bound on starts of residents
  MaxMoves    \* bound on what the operator does in the mother

ASSUME CheckoutsAssumption ==
  /\ IsFiniteSet(Root) /\ IsFiniteSet(Task)
  /\ Start \in Branch /\ None \notin Branch
  /\ MaxClones \in Nat /\ MaxStarts \in Nat /\ MaxMoves \in Nat

Clone == 1..MaxClones

VARIABLES
  hist,     \* the tip of every branch of the mother
  head,     \* what the mother has checked out: a branch or None, and its commit if None
  fetched,  \* FETCH_HEAD of the mother
  moves,
  clone,    \* the clones made so far, each with its worker
  recap,    \* per task, the clone whose files its recap reports, 0 if it has none
  disk,     \* the registry on disk: per task a clone, 0 if there is no entry
  mem,      \* the registry of each resident, likewise
  owned,    \* the tasks whose clones each resident owns
  root,     \* where each resident is, with its locals
  starts,
  slipped,  \* the clones with work in a merge that another one raced
  misfiled  \* the tasks whose entry was lost to that of an older clone

mother == <<hist, head, fetched, moves>>
worker == <<clone, recap>>
registry == <<disk, mem, owned, misfiled>>
vars == <<mother, worker, registry, root, starts, slipped>>

Told(c) == <<c, "told">>
Untold(c) == <<c, "untold">>
Own(c) == {Told(c), Untold(c)}
Contribution == (Clone \X {"told", "untold"}) \cup ({0} \X Branch)

(* The commit that HEAD of the mother resolves to. *)
HeadCommit == IF head.on = None THEN head.at ELSE hist[head.on]

Made == 1..Len(clone)

(* What a worker has produced, in its tree or in a commit. *)
Produced(c) == (clone[c].tree \cup clone[c].commits) \cap Own(c)

Off == [pc |-> "off"]
On == [pc |-> "on"]
Pinned(t) == [pc |-> "pinned", task |-> t, target |-> head.on, at |-> head.at]
Wave(pc, queue, clean) == [pc |-> pc, queue |-> queue, clean |-> clean]
Teardown(left) == IF left = {} THEN Off ELSE [pc |-> "judge", left |-> left]

At(r, pc) == root[r].pc = pc
Goes(r, state) == root' = [root EXCEPT ![r] = state]

Init ==
  /\ hist = [b \in Branch |-> {<<0, b>>}]
  /\ head = [on |-> Start, at |-> {}] /\ fetched = {} /\ moves = 0
  /\ clone = <<>> /\ recap = [t \in Task |-> 0]
  /\ disk = [t \in Task |-> 0] /\ mem = [r \in Root |-> [t \in Task |-> 0]]
  /\ owned = [r \in Root |-> {}] /\ misfiled = {}
  /\ root = [r \in Root |-> Off] /\ starts = 0
  /\ slipped = {}

-----------------------------------------------------------------------------
(***************************************************************************)
(* The registry.                                                           *)
(***************************************************************************)

(* A resident starts with the entries whose clone exists; it owns none. *)
Loaded == [t \in Task |-> IF disk[t] # 0 /\ clone[disk[t]].state # "gone" THEN disk[t] ELSE 0]

StartRoot(r) ==
  /\ At(r, "off") /\ starts < MaxStarts
  /\ starts' = starts + 1
  /\ mem' = [mem EXCEPT ![r] = Loaded] /\ owned' = [owned EXCEPT ![r] = {}]
  /\ Goes(r, On)
  /\ UNCHANGED <<mother, worker, disk, misfiled, slipped>>

(* Recording writes the entry over the one that is there, ... *)
Record(t, c) ==
  /\ disk' = [disk EXCEPT ![t] = c]
  /\ misfiled' = IF disk[t] <= c THEN misfiled ELSE misfiled \cup {t}

(* ... and takes the clone into the memory and the ownership of the run. *)
Hold(r, t, c) ==
  mem' = [mem EXCEPT ![r][t] = c] /\ owned' = [owned EXCEPT ![r] = @ \cup {t}]

(* What a run owns: only that is torn down. *)
Owned(r) == {t \in owned[r] : mem[r][t] # 0}

NoMemory(r) == [mem EXCEPT ![r] = [t \in Task |-> 0]]

(* Mutated form: the files go with the memory. *)
DrainFiles(r) ==
  /\ mem' = NoMemory(r) /\ owned' = [owned EXCEPT ![r] = {}]
  /\ disk' = [t \in Task |-> IF t \in Owned(r) THEN 0 ELSE disk[t]]

(* Mutated form: the run goes on owning what it has let go. *)
DrainKeepsOwned(r) ==
  /\ mem' = NoMemory(r)
  /\ UNCHANGED <<owned, disk>>

(* Teardown takes what the run owns out of its memory, and what else is in *)
(* it, or comes back, is not read again; the files stay.                   *)
Drain(r) ==
  /\ mem' = NoMemory(r) /\ owned' = [owned EXCEPT ![r] = {}]
  /\ UNCHANGED disk

(* Deleting the entry of a clone that is gone deletes whatever entry the   *)
(* task has by then.                                                       *)
Forget(t, c) ==
  /\ disk' = [disk EXCEPT ![t] = 0]
  /\ misfiled' = IF disk[t] > c THEN misfiled \cup {t} ELSE misfiled

-----------------------------------------------------------------------------
(***************************************************************************)
(* A launch, and the worker.                                               *)
(***************************************************************************)

(* The task must have no live handle in this process; the branch of the    *)
(* mother, or its commit when HEAD is detached, is captured before the     *)
(* clone is made.                                                          *)
Capture(r, t) ==
  /\ At(r, "on") /\ Len(clone) + Cardinality({q \in Root : At(q, "pinned")}) < MaxClones
  /\ \A c \in Made : ~(clone[c].task = t /\ clone[c].by = r /\ clone[c].working)
  /\ Goes(r, Pinned(t))
  /\ UNCHANGED <<mother, worker, registry, starts, slipped>>

(* The clone is pinned to what was captured. *)
CloneBase(r) == IF root[r].target = None THEN root[r].at ELSE hist[root[r].target]

(* The clone is made and recorded, and the worker started. *)
Launch(r) ==
  /\ At(r, "pinned")
  /\ clone' = Append(clone,
       [task |-> root[r].task, by |-> r, working |-> TRUE, state |-> "present",
        target |-> root[r].target, at |-> root[r].at,
        commits |-> CloneBase(r), tree |-> {}])
  /\ Record(root[r].task, Len(clone) + 1) /\ Hold(r, root[r].task, Len(clone) + 1)
  /\ Goes(r, On)
  /\ UNCHANGED <<mother, recap, starts, slipped>>

(* A clone that cannot be made leaves the worker on the shared mount. *)
LaunchFails(r) ==
  /\ At(r, "pinned")
  /\ Goes(r, On)
  /\ UNCHANGED <<mother, worker, registry, starts, slipped>>

(* What a worker may leave when it settles: its files in the tree, or in   *)
(* commits of its own (all of them: what is not reported is treated as the *)
(* rest is, once it is committed), or nothing.  Nobody looks into a clone  *)
(* before that.                                                            *)
Work(c) == [tree : {{}, {Told(c)}, Own(c)}, commits : {{}}]
             \cup [tree : {{}}, commits : {Own(c)}]

(* A worker settles, with a recap as long as its resident lives; the recap *)
(* of an earlier run of the task stays when this one leaves none.          *)
Settle(c) ==
  /\ clone[c].working
  /\ \E work \in Work(c) :
       /\ clone' = [clone EXCEPT ![c].working = FALSE, ![c].by = None,
                                 ![c].tree = work.tree, ![c].commits = @ \cup work.commits]
       /\ \/ UNCHANGED recap
          \/ /\ clone[c].by # None /\ Told(c) \in work.tree \cup work.commits
             /\ recap' = [recap EXCEPT ![clone[c].task] = c]
  /\ UNCHANGED <<mother, registry, root, starts, slipped>>

-----------------------------------------------------------------------------
(***************************************************************************)
(* integrate_subtasks.                                                     *)
(***************************************************************************)

(* Looking a clone up adopts it; a task without one is skipped, so `found' *)
(* is what the agent asked for without these, and a mother with modified   *)
(* files refuses before anything is committed.                             *)
Harvest(r, found) ==
  LET pick(t) == [clone |-> mem[r][t], reported |-> recap[t] = mem[r][t]]
  IN /\ At(r, "on")
     /\ \A i \in DOMAIN found : mem[r][found[i]] # 0 /\ ~clone[mem[r][found[i]]].working
     /\ owned' = [owned EXCEPT ![r] = @ \cup {found[i] : i \in DOMAIN found}]
     /\ \/ Goes(r, Wave("commit", [i \in DOMAIN found |-> pick(found[i])], {}))
        \/ Goes(r, On)
     /\ UNCHANGED <<mother, worker, disk, mem, misfiled, starts, slipped>>

(* The worker whose turn it is.                                            *)
Turn(r) == Head(root[r].queue).clone
Reported(r) == Head(root[r].queue).reported

After(r, clean) == Goes(r, Wave("commit", Tail(root[r].queue), clean))

(* After the last worker the call answers which are merged cleanly; an     *)
(* error before that answers for none of them.                             *)
Answer(r) ==
  /\ At(r, "commit") /\ root[r].queue = <<>>
  /\ Goes(r, On)
  /\ UNCHANGED <<mother, worker, registry, starts, slipped>>

Error(r) == Goes(r, On)

(* Mutated form: the branch that is checked out is good enough. *)
OnSomeTarget(c) == clone[c].state = "present"

(* The mother is still on the branch, or at the commit, of the launch. *)
OnTargetOf(c) ==
  IF clone[c].target # None THEN head.on = clone[c].target
  ELSE head.on = None /\ head.at = clone[c].at

(* A mother that moved is an error; else the branch is fetched. *)
CheckAndFetch(r, commits) ==
  \/ /\ OnTargetOf(Turn(r))
     /\ fetched' = commits
     /\ Goes(r, Wave("merge", root[r].queue, root[r].clean))
  \/ ~OnTargetOf(Turn(r)) /\ Error(r) /\ UNCHANGED fetched

(* Mutated form: work that is committed already is taken for merged. *)
CommittedEarlierIsMerged(r) ==
  LET c == Turn(r) IN
  /\ clone[c].state = "present" /\ Told(c) \in clone[c].commits
  /\ After(r, root[r].clean \cup {c})
  /\ UNCHANGED <<clone, fetched>>

(* Work that an earlier call committed is merged all the same. *)
CommittedEarlier(r) ==
  LET c == Turn(r) IN
  /\ clone[c].state = "present" /\ Told(c) \in clone[c].commits
  /\ CheckAndFetch(r, clone[c].commits)
  /\ UNCHANGED clone

CommitsNow(r) ==
  LET c == Turn(r)
      commits == clone[c].commits \cup {Told(c)}
  IN /\ clone[c].state = "present" /\ Told(c) \in clone[c].tree
     /\ clone' = [clone EXCEPT ![c].tree = @ \ {Told(c)}, ![c].commits = commits]
     /\ CheckAndFetch(r, commits)

(* The files that the recap reports are committed and the branch is        *)
(* fetched.  A recap of another clone names paths outside this one: then   *)
(* there is nothing to commit, nor to merge.  A clone that is not there is *)
(* an error.                                                               *)
IntegrateOne(r) ==
  /\ At(r, "commit") /\ root[r].queue # <<>>
  /\ \/ ~Reported(r) /\ After(r, root[r].clean) /\ UNCHANGED <<clone, fetched>>
     \/ Reported(r) /\ (CommitsNow(r) \/ CommittedEarlier(r))
     \/ /\ Reported(r) /\ clone[Turn(r)].state # "present"
        /\ Error(r) /\ UNCHANGED <<clone, fetched>>
  /\ UNCHANGED <<hist, head, moves, recap, registry, starts, slipped>>

(* FETCH_HEAD, whatever it is by now, goes to HEAD, whatever it is by now. *)
Advance ==
  /\ hist' = IF head.on = None THEN hist ELSE [hist EXCEPT ![head.on] = @ \cup fetched]
  /\ head' = IF head.on = None THEN [head EXCEPT !.at = @ \cup fetched] ELSE head

Raced(r) == ~OnTargetOf(Turn(r)) \/ fetched # clone[Turn(r)].commits

(* FETCH_HEAD does not matter when nobody is about to merge it. *)
Fetched(r) == IF \E q \in Root \ {r} : At(q, "merge") THEN fetched ELSE {}

(* A conflict is undone and reported; an error ends the wave. *)
Merge(r) ==
  /\ At(r, "merge")
  /\ \/ /\ Advance
        /\ slipped' = IF Raced(r)
                      THEN slipped \cup {c \in Clone : c = Turn(r) \/ Own(c) \cap fetched # {}}
                      ELSE slipped
        /\ After(r, root[r].clean \cup {Turn(r)})
     \/ /\ ~(HeadCommit \subseteq fetched) /\ ~(fetched \subseteq HeadCommit)
        /\ After(r, root[r].clean)
        /\ UNCHANGED <<hist, head, slipped>>
     \/ Error(r) /\ UNCHANGED <<hist, head, slipped>>
  /\ fetched' = Fetched(r)
  /\ UNCHANGED <<moves, worker, registry, starts>>

-----------------------------------------------------------------------------
(***************************************************************************)
(* The end of a resident.                                                  *)
(***************************************************************************)

(* Success: the workers it launched are joined, and what it owns drained. *)
Succeed(r) ==
  /\ At(r, "on")
  /\ \A c \in Made : clone[c].by = r => ~clone[c].working
  /\ Drain(r)
  /\ Goes(r, Teardown({<<t, mem[r][t]>> : t \in Owned(r)}))
  /\ UNCHANGED <<mother, worker, misfiled, starts, slipped>>

(* Mutated form: untracked files do not count as changes. *)
IntegratedByHead(c) ==
  /\ clone[c].state = "present"
  /\ clone[c].commits \subseteq
       IF clone[c].target # None THEN hist[clone[c].target] ELSE clone[c].at

(* The tree is clean, and its commit is in the target of the launch. *)
Integrated(c) ==
  /\ clone[c].state = "present" /\ clone[c].tree = {}
  /\ clone[c].commits \subseteq
       IF clone[c].target # None THEN hist[clone[c].target] ELSE clone[c].at

(* A clone that is not integrated, or cannot be shown to be, is recorded   *)
(* back.  After the last one the resident is at its end.                   *)
Judge(r) ==
  /\ At(r, "judge")
  /\ \E t \in Task, c \in Made :
       /\ <<t, c>> \in root[r].left
       /\ \/ /\ Integrated(c)
             /\ clone' = [clone EXCEPT ![c].state = "broken"]
             /\ Goes(r, [pc |-> "remove", left |-> root[r].left \ {<<t, c>>}, task |-> t, clone |-> c])
             /\ UNCHANGED registry
          \/ /\ ~Integrated(c)
             /\ Record(t, c)
             /\ Goes(r, Teardown(root[r].left \ {<<t, c>>}))
             /\ UNCHANGED <<clone, mem, owned>>
  /\ UNCHANGED <<mother, recap, starts, slipped>>

(* The removal that has begun ends, and the entry goes, or it fails half   *)
(* way, and the clone is recorded back.                                    *)
Remove(r) ==
  /\ At(r, "remove")
  /\ \/ /\ clone' = [clone EXCEPT ![root[r].clone].state = "gone"]
        /\ Forget(root[r].task, root[r].clone)
     \/ /\ Record(root[r].task, root[r].clone)
        /\ UNCHANGED clone
  /\ Goes(r, Teardown(root[r].left))
  /\ UNCHANGED <<mother, recap, mem, owned, starts, slipped>>

(* A resident fails, or its process dies, anywhere: nothing is removed,    *)
(* and its workers are no longer anybody's.                                *)
Die(r) ==
  /\ ~At(r, "off")
  /\ Goes(r, Off)
  /\ clone' = [c \in Made |-> IF clone[c].by = r THEN [clone[c] EXCEPT !.by = None] ELSE clone[c]]
  /\ mem' = NoMemory(r) /\ owned' = [owned EXCEPT ![r] = {}]
  /\ fetched' = Fetched(r)
  /\ UNCHANGED <<hist, head, moves, recap, disk, misfiled, starts, slipped>>

-----------------------------------------------------------------------------
(***************************************************************************)
(* The operator checks a branch out in the mother, or detaches its HEAD;   *)
(* that this happens while a resident is there loses nothing.              *)
(***************************************************************************)

Operate ==
  /\ moves < MaxMoves /\ moves' = moves + 1
  /\ \E r \in Root : ~At(r, "off")
  /\ head' \in {[on |-> b, at |-> {}] : b \in Branch \ {head.on}}
              \cup {[on |-> None, at |-> HeadCommit]}
  /\ UNCHANGED <<hist, fetched, worker, registry, root, starts, slipped>>

Waves == {s \in UNION {[1..n -> Task] : n \in 1..Cardinality(Task)} :
            \A i, j \in DOMAIN s : s[i] = s[j] => i = j}

Next ==
  \/ \E r \in Root :
       \/ StartRoot(r) \/ Launch(r) \/ LaunchFails(r) \/ IntegrateOne(r) \/ Merge(r)
       \/ Answer(r)
       \/ Succeed(r) \/ Judge(r) \/ Remove(r) \/ Die(r)
       \/ \E t \in Task : Capture(r, t)
       \/ \E found \in Waves : Harvest(r, found)
  \/ \E c \in Made : Settle(c)
  \/ Operate

Spec == Init /\ [][Next]_vars

-----------------------------------------------------------------------------
(* Every variable has its type; a resident owns nothing that it does not   *)
(* hold in memory (orchestration.rs, record and drain), and the entry of a *)
(* resident at work names a clone that was made.                           *)
TypeOK ==
  /\ hist \in [Branch -> SUBSET Contribution]
  /\ head.on \in Branch \cup {None} /\ head.at \subseteq Contribution
  /\ fetched \subseteq Contribution
  /\ Len(clone) <= MaxClones
  /\ \A c \in Made :
       /\ clone[c].task \in Task /\ clone[c].by \in Root \cup {None}
       /\ clone[c].working \in BOOLEAN /\ clone[c].state \in {"present", "broken", "gone"}
       /\ clone[c].target \in Branch \cup {None} /\ clone[c].at \subseteq Contribution
       /\ clone[c].commits \subseteq Contribution /\ clone[c].tree \subseteq Own(c)
       /\ clone[c].commits \cap clone[c].tree = {}
  /\ recap \in [Task -> Made \cup {0}] /\ disk \in [Task -> Made \cup {0}]
  /\ mem \in [Root -> [Task -> Made \cup {0}]] /\ owned \in [Root -> SUBSET Task]
  /\ \A r \in Root : \A t \in owned[r] : mem[r][t] # 0
  /\ slipped \subseteq Made /\ misfiled \subseteq Task
  /\ starts \in 0..MaxStarts /\ moves \in 0..MaxMoves

(* A clone is removed only when all that its worker produced, reported or  *)
(* not, committed or not, is on a branch of the mother: removing checkouts *)
(* loses no work, whoever dies or moves the mother in between.             *)
NothingLost ==
  \A c \in Made : clone[c].state # "present" => Produced(c) \subseteq UNION {hist[b] : b \in Branch}

(* The work of a worker reaches no branch of the mother but the one it was *)
(* launched from, whatever the operator checks out in the meantime, unless *)
(* the mother moved between the check and the merge, or two integrations   *)
(* shared FETCH_HEAD.                                                      *)
OnTarget ==
  \A c \in Made \ slipped : \A b \in Branch \ {clone[c].target} : Own(c) \cap hist[b] = {}

(* What a resident is about to answer as merged cleanly is in the branch   *)
(* of the launch, also when the commit was made by an earlier call that    *)
(* failed before it merged.                                                *)
ClaimsHold ==
  \A r \in Root : root[r].pc \in {"commit", "merge"} =>
    \A c \in root[r].clean \ slipped :
      clone[c].target # None => Told(c) \in hist[clone[c].target]

(* The newest clone of a task that a worker has worked in can be found on  *)
(* disk by the next resident until it is integrated, at every point of a   *)
(* teardown, unless another resident put that of an older one over it.     *)
Newest(t) == {c \in Made : clone[c].task = t /\ \A d \in Made : clone[d].task = t => d <= c}

Recoverable ==
  \A t \in Task \ misfiled : \A c \in Newest(t) :
    clone[c].state = "present" /\ Produced(c) # {} /\ ~Integrated(c) => disk[t] = c

-----------------------------------------------------------------------------
(* A promise of the sources that the code does not keep (README,           *)
(* Findings): TLC refutes it.                                              *)

(* Two residents never overwrite each other's registrations                *)
(* (orchestration.rs, WorkerRegistry): the entry of a task whose clone is  *)
(* there never goes back to an older clone.                                *)
RegistrationStands ==
  [][\A t \in Task :
       disk[t] # 0 /\ disk'[t] # 0 /\ clone[disk[t]].state = "present" => disk'[t] >= disk[t]]_vars
=============================================================================
