---------------------------- MODULE CheckoutsProofs ----------------------------
(***************************************************************************)
(* For every number of residents, tasks, branches, clones, restarts and    *)
(* moves of the mother: removing the checkouts of workers loses no work,   *)
(* work reaches the branch of its launch only, an answer of integration is *)
(* true, and what is not integrated can be found again on disk.            *)
(*                                                                         *)
(* The argument: nothing in the mother, in a clone or about to be merged   *)
(* holds work of a clone that is not made yet (NothingAhead), so that the  *)
(* commit a clone began from never counts as work of its own; nobody       *)
(* tears down a clone whose worker still works in it (Adopted, Ending),    *)
(* and a clone that is removed does not change any more; what a clone for  *)
(* a branch holds of others was made for that branch (CommitsOnTarget);    *)
(* and the entry on disk of a task is that of its newest clone until that  *)
(* one is removed, or was overwritten by an older one (Stored).            *)
(***************************************************************************)
EXTENDS Checkouts, FiniteSetTheorems, TLAPS

Tip == SUBSET Contribution

CloneRecord ==
  [task : Task, by : Root \cup {None}, working : BOOLEAN,
   state : {"present", "broken", "gone"}, target : Branch \cup {None},
   at : Tip, commits : Tip, tree : Tip]

Pick == [clone : Clone, reported : BOOLEAN]

RootState ==
  [pc : {"off", "on"}]
  \cup [pc : {"pinned"}, task : Task, target : Branch \cup {None}, at : Tip]
  \cup [pc : {"commit", "merge"}, queue : Seq(Pick), clean : SUBSET Clone]
  \cup [pc : {"judge"}, left : SUBSET (Task \X Clone)]
  \cup [pc : {"remove"}, left : SUBSET (Task \X Clone), task : Task, clone : Clone]

Types ==
  /\ hist \in [Branch -> Tip]
  /\ head \in [on : Branch \cup {None}, at : Tip]
  /\ fetched \in Tip
  /\ clone \in Seq(CloneRecord) /\ Len(clone) <= MaxClones
  /\ recap \in [Task -> Made \cup {0}] /\ disk \in [Task -> Made \cup {0}]
  /\ mem \in [Root -> [Task -> Made \cup {0}]] /\ owned \in [Root -> SUBSET Task]
  /\ root \in [Root -> RootState]
  /\ slipped \subseteq Made /\ misfiled \subseteq Task
  /\ starts \in 0..MaxStarts /\ moves \in 0..MaxMoves

\* Every launch that was captured has room.
Pinning == {r \in Root : At(r, "pinned")}
Room == Len(clone) + Cardinality(Pinning) <= MaxClones

\* A commit that holds work of the first n clones only.
UpTo(commit, n) == \A c \in Nat : c > n => Own(c) \cap commit = {}

NothingAhead ==
  /\ \A b \in Branch : UpTo(hist[b], Len(clone))
  /\ UpTo(head.at, Len(clone)) /\ UpTo(fetched, Len(clone))
  /\ \A c \in Made : UpTo(clone[c].commits, Len(clone)) /\ UpTo(clone[c].at, c - 1)
  /\ \A r \in Root : At(r, "pinned") => UpTo(root[r].at, Len(clone))

\* A worker that works has left nothing yet, and its clone is there; what it
\* leaves is its own, in the tree or in a commit.
Trees ==
  \A c \in Made :
    /\ clone[c].tree \subseteq Own(c) /\ clone[c].tree \cap clone[c].commits = {}
    /\ clone[c].working =>
         clone[c].tree = {} /\ clone[c].commits \cap Own(c) = {} /\ clone[c].state = "present"

\* An entry is one of its task.
Entries ==
  /\ \A t \in Task : disk[t] # 0 => clone[disk[t]].task = t
  /\ \A r \in Root, t \in Task : mem[r][t] # 0 => clone[mem[r][t]].task = t

\* What a resident owns it holds, and it launched the worker or that is done.
Adopted ==
  \A r \in Root : \A t \in owned[r] :
    /\ mem[r][t] # 0
    /\ clone[mem[r][t]].by = r \/ ~clone[mem[r][t]].working

\* A teardown has only clones, of their tasks, in which nobody works.
TornDown(t, c) == c \in Made /\ clone[c].task = t /\ ~clone[c].working

Ending ==
  \A r \in Root :
    /\ root[r].pc \in {"judge", "remove"} =>
         \A t \in Task, c \in Clone : <<t, c>> \in root[r].left => TornDown(t, c)
    /\ root[r].pc = "remove" =>
         TornDown(root[r].task, root[r].clone) /\ clone[root[r].clone].state # "present"

\* A wave is of clones that were made; what is to be merged is committed.
Merging ==
  \A r \in Root :
    /\ root[r].pc \in {"commit", "merge"} =>
         /\ root[r].clean \subseteq Made
         /\ \A i \in 1..Len(root[r].queue) : root[r].queue[i].clone \in Made
    /\ root[r].pc = "merge" =>
         root[r].queue # <<>> /\ Told(Turn(r)) \in clone[Turn(r)].commits

\* A clone for a branch holds what was made for that branch.
CommitsOnTarget ==
  \A c \in Made : clone[c].target # None =>
    \A d \in Made \ slipped :
      Own(d) \cap clone[c].commits # {} => clone[d].target = clone[c].target

\* The entry on disk is that of the newest clone as long as it is there.
Stored ==
  \A t \in Task \ misfiled : \A c \in Newest(t) : clone[c].state = "present" => disk[t] = c

IInv ==
  /\ Types /\ Room /\ NothingAhead /\ Trees /\ Entries /\ Adopted /\ Ending
  /\ Merging /\ CommitsOnTarget /\ Stored
  /\ NothingLost /\ OnTarget /\ ClaimsHold

-----------------------------------------------------------------------------
(* Lemmas on contributions, commits and the states of residents.           *)

\* The contributions of two clones differ, and from those of a branch.
LEMMA OwnFacts ==
  ASSUME NEW c \in Nat
  PROVE  /\ Told(c) \in Own(c) /\ Untold(c) \in Own(c)
         /\ \A x : x \in Own(c) => x = Told(c) \/ x = Untold(c)
         /\ \A d \in Nat : d # c => Own(d) \cap Own(c) = {} /\ Told(c) \notin Own(d)
         /\ \A b : c # 0 => <<0, b>> \notin Own(c)
         /\ c \in Clone => Own(c) \in Tip
BY DEF Own, Told, Untold, Contribution, Tip

\* A merge holds what is in one of the two.
LEMMA UpToUnion ==
  ASSUME NEW n \in Nat, NEW x, NEW y, UpTo(x, n), UpTo(y, n)
  PROVE  UpTo(x \cup y, n)
BY DEF UpTo

\* What is made stays made.
LEMMA UpToMore ==
  ASSUME NEW n \in Nat, NEW m \in Nat, n <= m, NEW x, UpTo(x, n)
  PROVE  UpTo(x, m)
BY DEF UpTo

\* A worker adds work of its own.
LEMMA UpToOwn ==
  ASSUME NEW n \in Nat, NEW c \in 1..n, NEW x, UpTo(x, n), NEW y \in SUBSET Own(c)
  PROVE  UpTo(x \cup y, n)
<1> SUFFICES ASSUME NEW d \in Nat, d > n PROVE Own(d) \cap (x \cup y) = {}
  BY DEF UpTo
<1>1. Own(d) \cap x = {}
  BY DEF UpTo
<1>2. Own(d) \cap Own(c) = {}
  BY OwnFacts
<1> QED BY <1>1, <1>2

\* The clones made are clones, with the fields of one.
LEMMA MadeFacts ==
  ASSUME Types
  PROVE  /\ Len(clone) \in Nat /\ Made \subseteq Clone /\ Made \subseteq Nat \ {0}
         /\ \A c \in Made : clone[c] \in CloneRecord
         /\ DOMAIN clone = Made
         /\ \A c \in Nat \ {0} : c <= Len(clone) => c \in Made
BY CheckoutsAssumption DEF Types, Made, Clone

\* The locals of a resident, by where it is.
LEMMA RootFields ==
  ASSUME Types, NEW r \in Root
  PROVE  /\ root[r].pc \in {"off", "on", "pinned", "commit", "merge", "judge", "remove"}
         /\ root[r].pc = "pinned" =>
              root[r].task \in Task /\ root[r].target \in Branch \cup {None} /\ root[r].at \in Tip
         /\ root[r].pc \in {"commit", "merge"} =>
              root[r].queue \in Seq(Pick) /\ root[r].clean \subseteq Clone
         /\ root[r].pc \in {"judge", "remove"} => root[r].left \subseteq Task \X Clone
         /\ root[r].pc = "remove" => root[r].task \in Task /\ root[r].clone \in Clone
<1>1. root[r] \in RootState
  BY DEF Types
<1> QED BY <1>1 DEF RootState

\* A wave that is not over has a worker whose turn it is, one that was made.
LEMMA TurnFacts ==
  ASSUME Types, Merging, NEW r \in Root, root[r].pc \in {"commit", "merge"},
         root[r].queue # <<>>
  PROVE  /\ Turn(r) \in Made /\ Reported(r) \in BOOLEAN
         /\ Tail(root[r].queue) \in Seq(Pick)
         /\ \A i \in 1..Len(Tail(root[r].queue)) : Tail(root[r].queue)[i].clone \in Made
<1> DEFINE queue == root[r].queue
<1>1. queue \in Seq(Pick) /\ queue # <<>> /\ \A i \in 1..Len(queue) : queue[i].clone \in Made
  BY RootFields DEF Merging
<1>2. /\ Len(queue) \in Nat \ {0} /\ Head(queue) = queue[1] /\ Head(queue) \in Pick
      /\ Tail(queue) \in Seq(Pick) /\ Len(Tail(queue)) = Len(queue) - 1
      /\ \A i \in 1..Len(Tail(queue)) : Tail(queue)[i] = queue[i + 1] /\ i + 1 \in 1..Len(queue)
  BY <1>1
<1>3. 1 \in 1..Len(queue)
  BY <1>2
<1>4. Head(queue).clone \in Made /\ Head(queue).reported \in BOOLEAN
  BY <1>1, <1>2, <1>3 DEF Pick
<1> QED BY <1>1, <1>2, <1>4 DEF Turn, Reported

\* A resident that is at none of the two ends of a capture takes no room.
LEMMA RoomKept ==
  ASSUME IInv, NEW r \in Root, NEW state, root' = [root EXCEPT ![r] = state],
         root[r].pc # "pinned", state.pc # "pinned", Len(clone') = Len(clone)
  PROVE  Room'
<1>1. Pinning' = Pinning
  BY DEF IInv, Types, Pinning, At
<1> QED BY <1>1 DEF IInv, Room

\* The states that residents go to.
LEMMA StateTypes ==
  /\ Off \in RootState /\ On \in RootState /\ Off.pc = "off" /\ On.pc = "on"
  /\ \A pc \in {"commit", "merge"}, queue \in Seq(Pick), clean \in SUBSET Clone :
       /\ Wave(pc, queue, clean) \in RootState
       /\ Wave(pc, queue, clean).pc = pc /\ Wave(pc, queue, clean).queue = queue
       /\ Wave(pc, queue, clean).clean = clean
  /\ \A left \in SUBSET (Task \X Clone) :
       /\ Teardown(left) \in RootState
       /\ Teardown(left).pc \in {"off", "judge"}
       /\ Teardown(left).pc = "judge" => Teardown(left).left = left
BY DEF Off, On, Wave, Teardown, RootState

\* What the residents do among themselves leaves the work as it is.
LEMMA WorkKept ==
  ASSUME IInv, UNCHANGED <<hist, clone, slipped, disk, misfiled>>
  PROVE  Trees' /\ CommitsOnTarget' /\ Stored' /\ NothingLost' /\ OnTarget'
<1>1. Made' = Made
  BY DEF Made
<1>2. Trees' /\ CommitsOnTarget'
  BY <1>1 DEF IInv, Trees, CommitsOnTarget
<1>3. Stored'
  BY <1>1 DEF IInv, Stored, Newest
<1>4. NothingLost' /\ OnTarget'
  BY <1>1 DEF IInv, NothingLost, OnTarget, Produced
<1> QED BY <1>2, <1>3, <1>4

\* The clones are those that were made; what a step may do to one is add to
\* its commits, end its worker, and begin, or end, its removal.
Wears ==
  /\ clone' \in Seq(CloneRecord) /\ Len(clone') = Len(clone)
  /\ \A c \in Made :
       /\ clone'[c].task = clone[c].task /\ clone'[c].target = clone[c].target
       /\ clone'[c].at = clone[c].at
       /\ clone[c].commits \subseteq clone'[c].commits /\ UpTo(clone'[c].commits, Len(clone))
       /\ clone'[c].working => clone[c].working
       /\ clone[c].state # "present" => clone'[c].state # "present"

SameWork ==
  \A c \in Made :
    /\ clone'[c].commits = clone[c].commits /\ clone'[c].tree = clone[c].tree
    /\ clone'[c].working = clone[c].working

LEMMA WearsUnchanged == ASSUME IInv, UNCHANGED clone PROVE Wears /\ SameWork
BY DEF IInv, Types, NothingAhead, Wears, SameWork

\* The work is as it was when nothing goes that is not in the mother.
LEMMA WornWorkKept ==
  ASSUME IInv, Wears, SameWork, UNCHANGED <<hist, slipped>>,
         \A c \in Made : clone[c].state = "present" /\ clone'[c].state # "present" =>
           /\ ~clone[c].working
           /\ Produced(c) \subseteq UNION {hist[b] : b \in Branch}
  PROVE  Trees' /\ CommitsOnTarget' /\ NothingLost' /\ OnTarget'
<1>1. Made' = Made
  BY DEF Made, Wears
<1>2. Trees'
  BY <1>1 DEF IInv, Trees, Wears, SameWork
<1>3. CommitsOnTarget'
  BY <1>1 DEF IInv, CommitsOnTarget, Wears, SameWork
<1>4. OnTarget'
  BY <1>1 DEF IInv, OnTarget, Wears
<1>5. NothingLost'
  BY <1>1 DEF IInv, NothingLost, Produced, Wears, SameWork
<1> QED BY <1>2, <1>3, <1>4, <1>5

\* The branches of the mother grow, by work of clones that are made.
MotherGrows ==
  /\ \A b \in Branch : hist[b] \subseteq hist'[b] /\ UpTo(hist'[b], Len(clone))
  /\ UpTo(head'.at, Len(clone)) /\ UpTo(fetched', Len(clone))
  /\ slipped \subseteq slipped'

LEMMA MotherKept ==
  ASSUME IInv, UNCHANGED <<hist, head, slipped>>, UpTo(fetched', Len(clone))
  PROVE  MotherGrows
BY DEF IInv, NothingAhead, MotherGrows

\* A resident that goes on, to a state that is sound by itself, disturbs no
\* other one.
LEMMA ResidentGoes ==
  ASSUME IInv, Wears, MotherGrows, NEW r \in Root, NEW state \in RootState,
         root' = [root EXCEPT ![r] = state],
         state.pc = "pinned" => UpTo(state.at, Len(clone)),
         state.pc = "merge" =>
           /\ state.queue # <<>>
           /\ Told(Head(state.queue).clone) \in clone'[Head(state.queue).clone].commits,
         state.pc \in {"commit", "merge"} =>
           /\ state.clean \subseteq Made
           /\ \A i \in 1..Len(state.queue) : state.queue[i].clone \in Made
           /\ \A c \in state.clean \ slipped' :
                clone[c].target # None => Told(c) \in hist'[clone[c].target],
         state.pc \in {"judge", "remove"} =>
           \A t \in Task, c \in Clone : <<t, c>> \in state.left => TornDown(t, c),
         state.pc = "remove" =>
           TornDown(state.task, state.clone) /\ clone'[state.clone].state # "present"
  PROVE  NothingAhead' /\ Ending' /\ Merging' /\ ClaimsHold'
<1>1. /\ Made' = Made /\ Len(clone') = Len(clone) /\ root'[r] = state
      /\ \A q \in Root \ {r} : root'[q] = root[q]
      /\ \A t, c : TornDown(t, c) => TornDown(t, c)'
  BY DEF IInv, Types, Made, TornDown, Wears
<1>2. NothingAhead'
  <2>1. /\ \A b \in Branch : UpTo(hist[b], Len(clone))'
        /\ UpTo(head.at, Len(clone))' /\ UpTo(fetched, Len(clone))'
    BY <1>1 DEF MotherGrows, UpTo
  <2>2. \A c \in Made' : UpTo(clone[c].commits, Len(clone))' /\ UpTo(clone[c].at, c - 1)'
    BY <1>1 DEF IInv, NothingAhead, UpTo, Wears
  <2>3. ASSUME NEW q \in Root, At(q, "pinned")' PROVE UpTo(root[q].at, Len(clone))'
    <3>1. CASE q = r
      BY <2>3, <3>1, <1>1 DEF At, UpTo
    <3>2. CASE q # r
      BY <2>3, <3>2, <1>1 DEF IInv, NothingAhead, At, UpTo
    <3> QED BY <3>1, <3>2
  <2> QED BY <2>1, <2>2, <2>3 DEF NothingAhead
<1>3. Ending'
  <2> SUFFICES ASSUME NEW q \in Root
               PROVE  (/\ root[q].pc \in {"judge", "remove"} =>
                            \A t \in Task, c \in Clone : <<t, c>> \in root[q].left => TornDown(t, c)
                       /\ root[q].pc = "remove" =>
                            TornDown(root[q].task, root[q].clone) /\ clone[root[q].clone].state # "present")'
    BY DEF Ending
  <2>1. CASE q = r
    BY <2>1, <1>1 DEF TornDown
  <2>2. CASE q # r
    BY <2>2, <1>1 DEF IInv, Ending, Wears, TornDown
  <2> QED BY <2>1, <2>2
<1>4. Merging'
  <2> SUFFICES ASSUME NEW q \in Root
               PROVE  (/\ root[q].pc \in {"commit", "merge"} =>
                            /\ root[q].clean \subseteq Made
                            /\ \A i \in 1..Len(root[q].queue) : root[q].queue[i].clone \in Made
                       /\ root[q].pc = "merge" =>
                            root[q].queue # <<>> /\ Told(Turn(q)) \in clone[Turn(q)].commits)'
    BY DEF Merging
  <2>1. CASE q = r
    BY <2>1, <1>1 DEF Turn
  <2>2. CASE q # r
    <3>1. root'[q] = root[q] /\ Turn(q)' = Turn(q)
      BY <2>2, <1>1 DEF Turn
    <3>2. root[q].pc = "merge" => Turn(q) \in Made
      BY TurnFacts DEF IInv, Merging
    <3> QED BY <3>1, <3>2, <1>1 DEF IInv, Merging, Wears
  <2> QED BY <2>1, <2>2
<1>5. ClaimsHold'
  <2> SUFFICES ASSUME NEW q \in Root, root'[q].pc \in {"commit", "merge"},
                      NEW c \in root'[q].clean \ slipped', clone'[c].target # None
               PROVE  Told(c) \in hist'[clone'[c].target]
    BY DEF ClaimsHold
  <2>1. CASE q = r
    BY <2>1, <1>1 DEF Wears
  <2>2. CASE q # r
    <3>1. c \in Made /\ clone[c].target # None /\ clone'[c].target = clone[c].target
      BY <2>2, <1>1 DEF IInv, Merging, Wears
    <3>2. c \notin slipped /\ clone[c].target \in Branch
      BY <3>1, MadeFacts DEF IInv, CloneRecord, MotherGrows
    <3>3. Told(c) \in hist[clone[c].target]
      BY <2>2, <3>1, <3>2, <1>1 DEF IInv, ClaimsHold
    <3> QED BY <3>1, <3>2, <3>3 DEF MotherGrows
  <2> QED BY <2>1, <2>2
<1> QED BY <1>2, <1>3, <1>4, <1>5

\* The same for a step that leaves the clones and FETCH_HEAD alone.
LEMMA ResidentMoves ==
  ASSUME IInv, NEW r \in Root, NEW state \in RootState,
         root' = [root EXCEPT ![r] = state],
         UNCHANGED <<hist, head, fetched, clone, slipped>>,
         state.pc \in {"off", "on", "pinned", "commit", "judge"},
         state.pc = "pinned" => UpTo(state.at, Len(clone)),
         state.pc = "commit" =>
           /\ state.clean \subseteq Made
           /\ \A i \in 1..Len(state.queue) : state.queue[i].clone \in Made
           /\ \A c \in state.clean \ slipped :
                clone[c].target # None => Told(c) \in hist[clone[c].target],
         state.pc = "judge" =>
           \A t \in Task, c \in Clone : <<t, c>> \in state.left => TornDown(t, c)
  PROVE  NothingAhead' /\ Ending' /\ Merging' /\ ClaimsHold'
<1>1. Wears
  BY WearsUnchanged
<1>2. UpTo(fetched', Len(clone))
  BY DEF IInv, NothingAhead
<1>3. MotherGrows
  BY <1>2, MotherKept
<1> QED BY <1>1, <1>3, ResidentGoes

-----------------------------------------------------------------------------
(* The inductive invariant.                                                *)

\* Nothing is made, and no resident has started.
LEMMA InitHolds == Init => IInv
<1> SUFFICES ASSUME Init PROVE IInv
  OBVIOUS
<1>1. /\ Made = {} /\ Len(clone) = 0 /\ clone = <<>> /\ Pinning = {} /\ Cardinality({}) = 0
      /\ \A r \in Root : root[r] = [pc |-> "off"]
  BY FS_EmptySet DEF Init, Made, Pinning, At, Off
<1>2. Types
  <2>1. \A b \in Branch : {<<0, b>>} \in Tip
    BY DEF Tip, Contribution
  <2>2. {} \in Tip /\ [pc |-> "off"] \in RootState /\ <<>> \in Seq(CloneRecord)
    BY DEF Tip, RootState
  <2> QED BY <1>1, <2>1, <2>2, CheckoutsAssumption DEF Init, Types, Off
<1>3. Room
  BY <1>1, CheckoutsAssumption DEF Room
<1>4. NothingAhead
  <2>1. \A b \in Branch : UpTo({<<0, b>>}, 0)
    BY DEF UpTo, Own, Told, Untold
  <2> QED BY <1>1, <2>1 DEF Init, NothingAhead, UpTo, At
<1>5. /\ Trees /\ Entries /\ Adopted /\ Ending /\ Merging /\ CommitsOnTarget
      /\ NothingLost /\ OnTarget /\ ClaimsHold
  BY <1>1 DEF Init, Trees, Entries, Adopted, Ending, Merging, CommitsOnTarget, NothingLost,
              OnTarget, ClaimsHold
<1>6. Stored
  BY <1>1 DEF Stored, Newest
<1> QED BY <1>2, <1>3, <1>4, <1>5, <1>6 DEF IInv

\* A resident takes over entries of their tasks, and owns none.
LEMMA StartRootHolds == ASSUME IInv, NEW r \in Root, StartRoot(r) PROVE IInv'
<1>1. /\ root[r].pc = "off" /\ root' = [root EXCEPT ![r] = On]
      /\ mem' = [mem EXCEPT ![r] = Loaded] /\ owned' = [owned EXCEPT ![r] = {}]
      /\ starts < MaxStarts /\ starts' = starts + 1
      /\ UNCHANGED <<hist, head, fetched, moves, clone, recap, disk, misfiled, slipped>>
  BY DEF StartRoot, At, Goes, mother, worker
<1>2. Made' = Made /\ Len(clone') = Len(clone)
  BY <1>1 DEF Made
<1>3. /\ Loaded \in [Task -> Made \cup {0}]
      /\ \A t \in Task : Loaded[t] # 0 => clone[Loaded[t]].task = t
  BY DEF Loaded, IInv, Types, Entries
<1>4. Types'
  BY <1>1, <1>2, <1>3, StateTypes, CheckoutsAssumption DEF IInv, Types
<1>5. Room'
  BY <1>1, <1>2, StateTypes, RoomKept
<1>6. Entries'
  BY <1>1, <1>3 DEF IInv, Types, Entries
<1>7. Adopted'
  BY <1>1, <1>3 DEF IInv, Types, Adopted
<1>8. NothingAhead' /\ Ending' /\ Merging' /\ ClaimsHold'
  BY <1>1, StateTypes, ResidentMoves
<1>9. Trees' /\ CommitsOnTarget' /\ Stored' /\ NothingLost' /\ OnTarget'
  BY <1>1, WorkKept
<1> QED BY <1>4, <1>5, <1>6, <1>7, <1>8, <1>9 DEF IInv

\* The guard of the capture keeps room for all the captured launches.
LEMMA CaptureHolds == ASSUME IInv, NEW r \in Root, NEW t \in Task, Capture(r, t) PROVE IInv'
<1>1. /\ root[r].pc = "on" /\ root' = [root EXCEPT ![r] = Pinned(t)]
      /\ Len(clone) + Cardinality(Pinning) < MaxClones
      /\ UNCHANGED <<hist, head, fetched, moves, clone, recap, disk, mem, owned, misfiled,
                     starts, slipped>>
  BY DEF Capture, At, Goes, Pinning, mother, worker, registry
<1>2. Made' = Made /\ Len(clone') = Len(clone)
  BY <1>1 DEF Made
<1>3. /\ Pinned(t) \in RootState /\ Pinned(t).pc = "pinned" /\ Pinned(t).at = head.at
  BY DEF Pinned, RootState, IInv, Types
<1>4. Types'
  BY <1>1, <1>2, <1>3 DEF IInv, Types
<1>5. Room'
  <2>1. Pinning' = Pinning \cup {r} /\ r \notin Pinning
    BY <1>1, <1>3 DEF IInv, Types, Pinning, At
  <2>2. IsFiniteSet(Pinning)
    BY CheckoutsAssumption, FS_Subset DEF Pinning
  <2>3. Cardinality(Pinning) \in Nat /\ Cardinality(Pinning') = Cardinality(Pinning) + 1
    BY <2>1, <2>2, FS_AddElement, FS_CardinalityType
  <2> QED BY <1>1, <1>2, <2>3, MadeFacts, CheckoutsAssumption DEF IInv, Room
<1>6. Entries' /\ Adopted'
  BY <1>1 DEF IInv, Entries, Adopted
<1>7. UpTo(Pinned(t).at, Len(clone))
  BY <1>3 DEF IInv, NothingAhead
<1>8. NothingAhead' /\ Ending' /\ Merging' /\ ClaimsHold'
  BY <1>1, <1>3, <1>7, ResidentMoves
<1>9. Trees' /\ CommitsOnTarget' /\ Stored' /\ NothingLost' /\ OnTarget'
  BY <1>1, WorkKept
<1> QED BY <1>4, <1>5, <1>6, <1>8, <1>9 DEF IInv

\* A launch that is over gives its room back.
LEMMA Unpinned ==
  ASSUME IInv, NEW r \in Root, NEW state, root' = [root EXCEPT ![r] = state],
         root[r].pc = "pinned", state.pc # "pinned"
  PROVE  /\ Cardinality(Pinning) \in Nat /\ Cardinality(Pinning) > 0
         /\ Cardinality(Pinning') = Cardinality(Pinning) - 1
<1>1. Pinning' = Pinning \ {r} /\ r \in Pinning
  BY DEF IInv, Types, Pinning, At
<1>2. IsFiniteSet(Pinning)
  BY CheckoutsAssumption, FS_Subset DEF Pinning
<1>3. Cardinality(Pinning) \in Nat /\ Cardinality(Pinning) # 0
  BY <1>1, <1>2, FS_EmptySet, FS_CardinalityType
<1> QED BY <1>1, <1>2, <1>3, FS_RemoveElement

LEMMA LaunchFailsHolds == ASSUME IInv, NEW r \in Root, LaunchFails(r) PROVE IInv'
<1>1. /\ root[r].pc = "pinned" /\ root' = [root EXCEPT ![r] = On]
      /\ UNCHANGED <<hist, head, fetched, moves, clone, recap, disk, mem, owned, misfiled,
                     starts, slipped>>
  BY DEF LaunchFails, At, Goes, mother, worker, registry
<1>2. Made' = Made /\ Len(clone') = Len(clone)
  BY <1>1 DEF Made
<1>3. Types'
  BY <1>1, <1>2, StateTypes DEF IInv, Types
<1>4. Room'
  <2>1. /\ Cardinality(Pinning) \in Nat /\ Cardinality(Pinning) > 0
        /\ Cardinality(Pinning') = Cardinality(Pinning) - 1
    BY <1>1, StateTypes, Unpinned
  <2>2. Len(clone) \in Nat /\ Len(clone) + Cardinality(Pinning) <= MaxClones
    BY MadeFacts DEF IInv, Room
  <2> QED BY <1>2, <2>1, <2>2, CheckoutsAssumption DEF Room
<1>5. Entries' /\ Adopted'
  BY <1>1 DEF IInv, Entries, Adopted
<1>6. NothingAhead' /\ Ending' /\ Merging' /\ ClaimsHold'
  BY <1>1, StateTypes, ResidentMoves
<1>7. Trees' /\ CommitsOnTarget' /\ Stored' /\ NothingLost' /\ OnTarget'
  BY <1>1, WorkKept
<1> QED BY <1>3, <1>4, <1>5, <1>6, <1>7 DEF IInv

LEMMA AnswerHolds == ASSUME IInv, NEW r \in Root, Answer(r) PROVE IInv'
<1>1. /\ root[r].pc = "commit" /\ root' = [root EXCEPT ![r] = On]
      /\ UNCHANGED <<hist, head, fetched, moves, clone, recap, disk, mem, owned, misfiled,
                     starts, slipped>>
  BY DEF Answer, At, Goes, mother, worker, registry
<1>2. Made' = Made /\ Len(clone') = Len(clone)
  BY <1>1 DEF Made
<1>3. Types'
  BY <1>1, <1>2, StateTypes DEF IInv, Types
<1>4. Room'
  BY <1>1, <1>2, StateTypes, RoomKept
<1>5. Entries' /\ Adopted'
  BY <1>1 DEF IInv, Entries, Adopted
<1>6. NothingAhead' /\ Ending' /\ Merging' /\ ClaimsHold'
  BY <1>1, StateTypes, ResidentMoves
<1>7. Trees' /\ CommitsOnTarget' /\ Stored' /\ NothingLost' /\ OnTarget'
  BY <1>1, WorkKept
<1> QED BY <1>3, <1>4, <1>5, <1>6, <1>7 DEF IInv

\* What is adopted is done, because it was awaited.
LEMMA HarvestHolds == ASSUME IInv, NEW r \in Root, NEW found \in Waves, Harvest(r, found) PROVE IInv'
<1> DEFINE picks == [i \in DOMAIN found |->
                       [clone |-> mem[r][found[i]], reported |-> recap[found[i]] = mem[r][found[i]]]]
<1>1. /\ root[r].pc = "on"
      /\ \A i \in DOMAIN found : mem[r][found[i]] # 0 /\ ~clone[mem[r][found[i]]].working
      /\ owned' = [owned EXCEPT ![r] = @ \cup {found[i] : i \in DOMAIN found}]
      /\ UNCHANGED <<hist, head, fetched, moves, clone, recap, disk, mem, misfiled, starts, slipped>>
  BY DEF Harvest, At, mother, worker
<1>2. PICK state \in {Wave("commit", picks, {}), On} : root' = [root EXCEPT ![r] = state]
  BY DEF Harvest, Goes
<1>3. PICK n \in Nat : found \in [1..n -> Task]
  BY DEF Waves
<1>4. \A i \in 1..n : found[i] \in Task /\ mem[r][found[i]] \in Made
  BY <1>1, <1>3 DEF IInv, Types
<1>5. /\ picks \in Seq(Pick) /\ Len(picks) = n /\ {} \in SUBSET Clone
      /\ \A i \in 1..Len(picks) : picks[i].clone \in Made
  <2>1. \A i \in 1..n : [clone |-> mem[r][found[i]],
                         reported |-> recap[found[i]] = mem[r][found[i]]] \in Pick
    BY <1>4, MadeFacts DEF IInv, Pick
  <2>2. picks \in [1..n -> Pick]
    BY <1>3, <2>1
  <2> QED BY <1>3, <1>4, <2>2
<1>6. /\ state \in RootState /\ state.pc \in {"on", "commit"}
      /\ state.pc = "commit" => state.queue = picks /\ state.clean = {}
  <2> HIDE DEF picks
  <2>1. /\ Wave("commit", picks, {}) \in RootState /\ Wave("commit", picks, {}).pc = "commit"
        /\ Wave("commit", picks, {}).queue = picks /\ Wave("commit", picks, {}).clean = {}
    BY <1>5, StateTypes
  <2> QED BY <1>2, <2>1, StateTypes
<1>7. Made' = Made /\ Len(clone') = Len(clone)
  BY <1>1 DEF Made
<1>8. {found[i] : i \in DOMAIN found} \subseteq Task
  BY <1>3, <1>4
<1>9. Types'
  BY <1>1, <1>2, <1>6, <1>7, <1>8 DEF IInv, Types
<1>10. Room'
  BY <1>1, <1>2, <1>6, <1>7, RoomKept
<1>11. Entries'
  BY <1>1 DEF IInv, Entries
<1>12. Adopted'
  BY <1>1 DEF IInv, Types, Adopted
<1>13. NothingAhead' /\ Ending' /\ Merging' /\ ClaimsHold'
  <2>1. state.pc = "commit" =>
          /\ state.clean \subseteq Made
          /\ \A i \in 1..Len(state.queue) : state.queue[i].clone \in Made
          /\ \A c \in state.clean \ slipped :
               clone[c].target # None => Told(c) \in hist[clone[c].target]
    BY <1>5, <1>6
  <2> QED BY <1>1, <1>2, <1>6, <2>1, ResidentMoves
<1>14. Trees' /\ CommitsOnTarget' /\ Stored' /\ NothingLost' /\ OnTarget'
  BY <1>1, WorkKept
<1> QED BY <1>9, <1>10, <1>11, <1>12, <1>13, <1>14 DEF IInv

\* The workers that the resident launched were joined, the others it owns
\* were done when it adopted them.
LEMMA SucceedHolds == ASSUME IInv, NEW r \in Root, Succeed(r) PROVE IInv'
<1> DEFINE left == {<<t, mem[r][t]>> : t \in Owned(r)}
<1>1. /\ root[r].pc = "on" /\ \A c \in Made : clone[c].by = r => ~clone[c].working
      /\ mem' = [mem EXCEPT ![r] = [t \in Task |-> 0]] /\ owned' = [owned EXCEPT ![r] = {}]
      /\ root' = [root EXCEPT ![r] = Teardown(left)]
      /\ UNCHANGED <<hist, head, fetched, moves, clone, recap, disk, misfiled, starts, slipped>>
  BY DEF Succeed, Drain, NoMemory, At, Goes, mother, worker
<1>2. Made' = Made /\ Len(clone') = Len(clone)
  BY <1>1 DEF Made
<1>3. \A t \in Owned(r) : t \in Task /\ mem[r][t] \in Made /\ TornDown(t, mem[r][t])
  <2> SUFFICES ASSUME NEW t \in Owned(r)
               PROVE  t \in Task /\ mem[r][t] \in Made /\ TornDown(t, mem[r][t])
    OBVIOUS
  <2>1. t \in owned[r] /\ t \in Task /\ mem[r][t] \in Made
    BY DEF Owned, IInv, Types
  <2>2. mem[r][t] # 0 /\ clone[mem[r][t]].task = t
    BY <2>1 DEF Owned, IInv, Entries
  <2>3. ~clone[mem[r][t]].working
    BY <1>1, <2>1 DEF IInv, Adopted
  <2> QED BY <2>1, <2>2, <2>3 DEF TornDown
<1>4. /\ left \in SUBSET (Task \X Clone)
      /\ \A t \in Task, c \in Clone : <<t, c>> \in left => TornDown(t, c)
  BY <1>3, MadeFacts DEF IInv
<1> HIDE DEF left
<1>5. /\ Teardown(left) \in RootState /\ Teardown(left).pc \in {"off", "judge"}
      /\ Teardown(left).pc = "judge" => Teardown(left).left = left
  BY <1>4, StateTypes
<1>6. Types'
  BY <1>1, <1>2, <1>5 DEF IInv, Types
<1>7. Room'
  BY <1>1, <1>2, <1>5, RoomKept
<1>8. Entries' /\ Adopted'
  BY <1>1 DEF IInv, Types, Entries, Adopted
<1>9. NothingAhead' /\ Ending' /\ Merging' /\ ClaimsHold'
  <2>1. Teardown(left).pc = "judge" =>
          \A t \in Task, c \in Clone : <<t, c>> \in Teardown(left).left => TornDown(t, c)
    BY <1>4, <1>5
  <2> QED BY <1>1, <1>5, <2>1, ResidentMoves
<1>10. Trees' /\ CommitsOnTarget' /\ Stored' /\ NothingLost' /\ OnTarget'
  BY <1>1, WorkKept
<1> QED BY <1>6, <1>7, <1>8, <1>9, <1>10 DEF IInv

\* Moving the mother makes nothing.
LEMMA OperateHolds == ASSUME IInv, Operate PROVE IInv'
<1>1. /\ moves < MaxMoves /\ moves' = moves + 1
      /\ head' \in {[on |-> b, at |-> {}] : b \in Branch \ {head.on}}
                     \cup {[on |-> None, at |-> HeadCommit]}
      /\ UNCHANGED <<hist, fetched, clone, recap, disk, mem, owned, misfiled, root, starts, slipped>>
  BY DEF Operate, worker, registry
<1>2. Made' = Made /\ Len(clone') = Len(clone) /\ Pinning' = Pinning
  BY <1>1 DEF Made, Pinning, At
<1>3. HeadCommit \in Tip /\ UpTo(HeadCommit, Len(clone))
  BY DEF IInv, Types, NothingAhead, HeadCommit
<1>4. /\ head' \in [on : Branch \cup {None}, at : Tip] /\ UpTo(head'.at, Len(clone))
  <2>1. {} \in Tip /\ UpTo({}, Len(clone))
    BY DEF Tip, UpTo
  <2>2. CASE head' = [on |-> None, at |-> HeadCommit]
    BY <1>3, <2>2
  <2>3. CASE \E b \in Branch : head' = [on |-> b, at |-> {}]
    BY <2>1, <2>3
  <2> QED BY <1>1, <2>2, <2>3
<1>5. Types'
  BY <1>1, <1>2, <1>4, CheckoutsAssumption DEF IInv, Types
<1>6. NothingAhead'
  <2>1. UpTo(head.at, Len(clone))'
    BY <1>2, <1>4 DEF UpTo
  <2>2. /\ \A b \in Branch : UpTo(hist[b], Len(clone))'
        /\ UpTo(fetched, Len(clone))'
        /\ \A c \in Made' : UpTo(clone[c].commits, Len(clone))' /\ UpTo(clone[c].at, c - 1)'
        /\ \A r \in Root : At(r, "pinned")' => UpTo(root[r].at, Len(clone))'
    BY <1>1, <1>2 DEF IInv, NothingAhead, UpTo, At
  <2> QED BY <2>1, <2>2 DEF NothingAhead
<1>7. Room' /\ Entries' /\ Adopted' /\ Ending' /\ Merging' /\ ClaimsHold'
  BY <1>1, <1>2 DEF IInv, Room, Entries, Adopted, Ending, TornDown, Merging, Turn, ClaimsHold
<1>8. Trees' /\ CommitsOnTarget' /\ Stored' /\ NothingLost' /\ OnTarget'
  BY <1>1, WorkKept
<1> QED BY <1>5, <1>6, <1>7, <1>8 DEF IInv

\* The clone is a new one, of which there is no work anywhere, and what it
\* began from is on the branch that it is for.
LEMMA LaunchHolds == ASSUME IInv, NEW r \in Root, Launch(r) PROVE IInv'
<1> DEFINE n == Len(clone) + 1
           task == root[r].task
<1>1. /\ root[r].pc = "pinned" /\ root' = [root EXCEPT ![r] = On]
      /\ clone' = Append(clone,
           [task |-> task, by |-> r, working |-> TRUE, state |-> "present",
            target |-> root[r].target, at |-> root[r].at,
            commits |-> CloneBase(r), tree |-> {}])
      /\ disk' = [disk EXCEPT ![task] = n]
      /\ misfiled' = IF disk[task] <= n THEN misfiled ELSE misfiled \cup {task}
      /\ mem' = [mem EXCEPT ![r][task] = n]
      /\ owned' = [owned EXCEPT ![r] = @ \cup {task}]
      /\ UNCHANGED <<hist, head, fetched, moves, recap, starts, slipped>>
  BY DEF Launch, Record, Hold, At, Goes, mother
<1>2. task \in Task /\ root[r].target \in Branch \cup {None} /\ root[r].at \in Tip
  BY <1>1, RootFields DEF IInv
<1>3. /\ Len(clone) \in Nat /\ n \in Nat \ {0} /\ n \in Clone /\ n <= MaxClones
      /\ Cardinality(Pinning) \in Nat /\ Cardinality(Pinning') = Cardinality(Pinning) - 1
      /\ Len(clone) + Cardinality(Pinning) <= MaxClones
  <2>1. /\ Cardinality(Pinning) \in Nat /\ Cardinality(Pinning) > 0
        /\ Cardinality(Pinning') = Cardinality(Pinning) - 1
    BY <1>1, StateTypes, Unpinned
  <2>2. Len(clone) \in Nat /\ Len(clone) + Cardinality(Pinning) <= MaxClones
    BY MadeFacts DEF IInv, Room
  <2> QED BY <2>1, <2>2, CheckoutsAssumption DEF Clone
<1>4. CloneBase(r) \in Tip /\ UpTo(CloneBase(r), Len(clone))
  BY <1>1, <1>2 DEF CloneBase, IInv, Types, NothingAhead, At
<1>5. /\ clone'[n].task = task /\ clone'[n].by = r /\ clone'[n].working = TRUE
      /\ clone'[n].state = "present" /\ clone'[n].target = root[r].target
      /\ clone'[n].at = root[r].at /\ clone'[n].commits = CloneBase(r) /\ clone'[n].tree = {}
      /\ clone' \in Seq(CloneRecord) /\ Len(clone') = n
      /\ \A c \in Made : clone'[c] = clone[c]
  <2> DEFINE new == [task |-> task, by |-> r, working |-> TRUE, state |-> "present",
                     target |-> root[r].target, at |-> root[r].at,
                     commits |-> CloneBase(r), tree |-> {}]
  <2>1. new \in CloneRecord
    BY <1>2, <1>4 DEF CloneRecord, Tip
  <2>2. clone \in Seq(CloneRecord) /\ clone' = Append(clone, new)
    BY <1>1 DEF IInv, Types
  <2> HIDE DEF new
  <2>3. /\ clone' \in Seq(CloneRecord) /\ Len(clone') = n /\ clone'[n] = new
        /\ \A c \in Made : clone'[c] = clone[c]
    BY <2>1, <2>2 DEF Made
  <2> QED BY <2>3 DEF new
<1>6. Made' = Made \cup {n} /\ n \notin Made /\ Made \subseteq 1..n
  BY <1>3, <1>5 DEF Made
<1>7. disk[task] <= n /\ misfiled' = misfiled
  BY <1>1, <1>2, <1>3 DEF IInv, Types, Made
<1>8. Own(n) \cap fetched = {} /\ (\A b \in Branch : Own(n) \cap hist[b] = {})
      /\ (\A c \in Made : Own(n) \cap clone[c].commits = {}) /\ Own(n) \cap CloneBase(r) = {}
  BY <1>3, <1>4 DEF IInv, NothingAhead, UpTo
<1> HIDE DEF n, task
<1>9. Types'
  BY <1>1, <1>2, <1>3, <1>5, <1>6, <1>7, StateTypes DEF IInv, Types
<1>10. Room'
  BY <1>3, <1>5, CheckoutsAssumption DEF Room, n
<1>11. NothingAhead'
  <2>1. \A x : UpTo(x, Len(clone)) => UpTo(x, n)
    BY <1>3, UpToMore DEF n
  <2>2. /\ \A b \in Branch : UpTo(hist[b], n)
        /\ UpTo(head.at, n) /\ UpTo(fetched, n)
        /\ \A c \in Made : UpTo(clone[c].commits, n) /\ UpTo(clone[c].at, c - 1)
        /\ \A q \in Root : At(q, "pinned") => UpTo(root[q].at, n)
    BY <2>1 DEF IInv, NothingAhead
  <2>3. UpTo(clone'[n].commits, n) /\ UpTo(clone'[n].at, n - 1)
    <3>1. UpTo(root[r].at, Len(clone)) /\ n - 1 = Len(clone)
      BY <1>1, <1>3 DEF IInv, NothingAhead, At, n
    <3> QED BY <2>1, <3>1, <1>4, <1>5
  <2>4. \A q \in Root : root'[q].pc = "pinned" => root'[q] = root[q] /\ UpTo(root[q].at, n)
    BY <1>1, <2>2, StateTypes DEF IInv, Types, At
  <2>5. \A c \in Made' : UpTo(clone'[c].commits, n) /\ UpTo(clone'[c].at, c - 1)
    BY <1>5, <1>6, <2>2, <2>3
  <2> QED BY <1>1, <1>5, <2>2, <2>4, <2>5 DEF NothingAhead, At, UpTo
<1>12. Trees'
  BY <1>5, <1>6, <1>8 DEF IInv, Trees, Own, Told, Untold
<1>13. Entries'
  <2>1. ASSUME NEW t \in Task, disk'[t] # 0 PROVE clone'[disk'[t]].task = t
    <3>1. CASE t = task
      BY <3>1, <1>1, <1>5 DEF IInv, Types
    <3>2. CASE t # task
      <4>1. disk'[t] = disk[t] /\ disk[t] \in Made
        BY <3>2, <2>1, <1>1 DEF IInv, Types
      <4> QED BY <4>1, <2>1, <1>5 DEF IInv, Entries
    <3> QED BY <3>1, <3>2
  <2>2. ASSUME NEW q \in Root, NEW t \in Task, mem'[q][t] # 0 PROVE clone'[mem'[q][t]].task = t
    <3>1. CASE q = r /\ t = task
      BY <3>1, <1>1, <1>5 DEF IInv, Types
    <3>2. CASE ~(q = r /\ t = task)
      <4>1. mem'[q][t] = mem[q][t] /\ mem[q][t] \in Made
        BY <3>2, <2>2, <1>1 DEF IInv, Types
      <4> QED BY <4>1, <2>2, <1>5 DEF IInv, Entries
    <3> QED BY <3>1, <3>2
  <2> QED BY <2>1, <2>2 DEF Entries
<1>14. Adopted'
  <2> SUFFICES ASSUME NEW q \in Root, NEW t \in owned'[q]
               PROVE  mem'[q][t] # 0 /\ (clone'[mem'[q][t]].by = q \/ ~clone'[mem'[q][t]].working)
    BY DEF Adopted
  <2>1. CASE q = r /\ t = task
    BY <2>1, <1>1, <1>2, <1>3, <1>5 DEF IInv, Types
  <2>2. CASE ~(q = r /\ t = task)
    <3>1. t \in owned[q] /\ mem'[q][t] = mem[q][t] /\ t \in Task
      BY <2>2, <1>1, <1>2 DEF IInv, Types
    <3>2. mem[q][t] \in Made
      BY <3>1 DEF IInv, Types, Adopted
    <3> QED BY <3>1, <3>2, <1>5 DEF IInv, Adopted
  <2> QED BY <2>1, <2>2
<1>15. \A q \in Root : root'[q] = root[q] \/ root'[q].pc = "on"
  BY <1>1, StateTypes DEF IInv, Types
<1>16. Ending'
  <2>1. \A t, c : TornDown(t, c) => TornDown(t, c)'
    BY <1>5, <1>6 DEF TornDown
  <2> QED BY <1>5, <1>15, <2>1 DEF IInv, Ending, TornDown
<1>17. Merging'
  <2> SUFFICES ASSUME NEW q \in Root, root'[q].pc # "on"
               PROVE  (/\ root[q].pc \in {"commit", "merge"} =>
                            /\ root[q].clean \subseteq Made
                            /\ \A i \in 1..Len(root[q].queue) : root[q].queue[i].clone \in Made
                       /\ root[q].pc = "merge" =>
                            root[q].queue # <<>> /\ Told(Turn(q)) \in clone[Turn(q)].commits)'
    BY DEF Merging
  <2>1. root'[q] = root[q] /\ Turn(q)' = Turn(q)
    BY <1>15 DEF Turn
  <2>2. root[q].pc = "merge" => Turn(q) \in Made
    BY TurnFacts DEF IInv, Merging
  <2> QED BY <2>1, <2>2, <1>5, <1>6 DEF IInv, Merging
<1>18. CommitsOnTarget'
  <2> SUFFICES ASSUME NEW c \in Made', clone'[c].target # None, NEW d \in Made' \ slipped,
                      Own(d) \cap clone'[c].commits # {}
               PROVE  clone'[d].target = clone'[c].target
    BY <1>1 DEF CommitsOnTarget
  <2>1. d = n => c = n
    BY <1>5, <1>6, <1>8
  <2>2. CASE c = n
    <3>1. clone'[c].commits = hist[root[r].target] /\ root[r].target \in Branch
      BY <2>2, <1>2, <1>5 DEF CloneBase
    <3>2. d \in Made => clone[d].target = root[r].target
      BY <3>1, <1>2 DEF IInv, OnTarget
    <3> QED BY <2>2, <3>2, <1>5, <1>6
  <2>3. CASE c # n
    BY <2>1, <2>3, <1>5, <1>6 DEF IInv, CommitsOnTarget
  <2> QED BY <2>2, <2>3
<1>19. Stored'
  <2> SUFFICES ASSUME NEW t \in Task \ misfiled, NEW c \in Newest(t)', clone'[c].state = "present"
               PROVE  disk'[t] = c
    BY <1>7 DEF Stored
  <2>1. c \in Made' /\ clone'[c].task = t /\ \A d \in Made' : clone'[d].task = t => d <= c
    BY DEF Newest
  <2>2. CASE t = task
    <3>1. n <= c
      BY <2>1, <2>2, <1>5, <1>6
    <3>2. c \in Nat /\ c <= n
      <4>1. c \in Made \/ c = n
        BY <2>1, <1>6
      <4>2. Made \subseteq 1..n /\ n \in Nat
        BY <1>3, <1>6
      <4>3. CASE c \in Made
        <5>1. c \in 1..n
          BY <4>2, <4>3
        <5> QED BY <5>1, <4>2
      <4>4. CASE c = n
        BY <4>2, <4>4
      <4> QED BY <4>1, <4>3, <4>4
    <3>3. c = n
      BY <3>1, <3>2, <1>3
    <3> QED BY <3>3, <2>2, <1>1 DEF IInv, Types
  <2>3. CASE t # task
    <3>1. c \in Made
      BY <2>1, <2>3, <1>5, <1>6
    <3>2. c \in Newest(t) /\ clone[c].state = "present"
      BY <2>1, <3>1, <1>5, <1>6 DEF Newest
    <3> QED BY <3>2, <2>3, <1>1 DEF IInv, Types, Stored
  <2> QED BY <2>2, <2>3
<1>20. NothingLost'
  BY <1>1, <1>5, <1>6 DEF IInv, NothingLost, Produced
<1>21. OnTarget'
  BY <1>1, <1>5, <1>6, <1>8 DEF IInv, OnTarget
<1>22. ClaimsHold'
  BY <1>1, <1>5, <1>6, <1>15 DEF IInv, ClaimsHold, Merging
<1> QED BY <1>9, <1>10, <1>11, <1>12, <1>13, <1>14, <1>16, <1>17, <1>18, <1>19, <1>20, <1>21,
           <1>22 DEF IInv

\* Recording a clone of a task leaves its newest one on disk, or says that it
\* does not.
LEMMA RecordKeeps ==
  ASSUME IInv, Wears, NEW t \in Task, NEW c \in Made, clone[c].task = t, Record(t, c),
         UNCHANGED mem
  PROVE  /\ disk' \in [Task -> Made \cup {0}] /\ misfiled' \subseteq Task
         /\ Stored' /\ Entries'
<1>1. /\ disk' = [disk EXCEPT ![t] = c]
      /\ misfiled' = IF disk[t] <= c THEN misfiled ELSE misfiled \cup {t}
  BY DEF Record
<1>2. Made' = Made
  BY DEF Made, Wears
<1>3. disk' \in [Task -> Made \cup {0}] /\ misfiled' \subseteq Task
  BY <1>1 DEF IInv, Types
<1>4. Stored'
  <2> SUFFICES ASSUME NEW u \in Task \ misfiled', NEW d \in Newest(u)', clone'[d].state = "present"
               PROVE  disk'[u] = d
    BY DEF Stored
  <2>1. d \in Newest(u) /\ d \in Made /\ clone[d].state = "present"
    BY <1>2 DEF Newest, Wears
  <2>2. u \in Task \ misfiled /\ disk[u] = d
    <3>1. u \in Task \ misfiled
      BY <1>1
    <3> QED BY <3>1, <2>1 DEF IInv, Stored
  <2>3. CASE u = t
    <3>1. disk[t] <= c
      BY <2>3, <1>1
    <3>2. d <= c /\ c <= d
      BY <3>1, <2>1, <2>2, <2>3 DEF Newest
    <3>3. c \in Nat /\ d \in Nat
      BY <2>1, MadeFacts DEF IInv
    <3> QED BY <3>2, <3>3, <2>3, <1>1 DEF IInv, Types
  <2>4. CASE u # t
    BY <2>2, <2>4, <1>1 DEF IInv, Types
  <2> QED BY <2>3, <2>4
<1>5. Entries'
  <2>1. ASSUME NEW u \in Task, disk'[u] # 0 PROVE clone'[disk'[u]].task = u
    <3>1. CASE u = t
      BY <3>1, <1>1 DEF IInv, Types, Wears
    <3>2. CASE u # t
      <4>1. disk'[u] = disk[u] /\ disk[u] \in Made
        BY <3>2, <2>1, <1>1 DEF IInv, Types
      <4> QED BY <4>1, <2>1 DEF IInv, Entries, Wears
    <3> QED BY <3>1, <3>2
  <2>2. ASSUME NEW q \in Root, NEW u \in Task, mem'[q][u] # 0 PROVE clone'[mem'[q][u]].task = u
    <3>1. mem'[q][u] = mem[q][u] /\ mem[q][u] \in Made
      BY <2>2 DEF IInv, Types
    <3> QED BY <3>1, <2>2 DEF IInv, Entries, Wears
  <2> QED BY <2>1, <2>2 DEF Entries
<1> QED BY <1>3, <1>4, <1>5

\* An entry that is let go, or stays, is one of its task.
LEMMA EntriesKept ==
  ASSUME IInv, Wears,
         \A t \in Task : disk'[t] = disk[t] \/ disk'[t] = 0,
         \A q \in Root, t \in Task : mem'[q][t] = mem[q][t] \/ mem'[q][t] = 0
  PROVE  Entries'
<1>1. ASSUME NEW t \in Task, disk'[t] # 0 PROVE clone'[disk'[t]].task = t
  <2>1. disk'[t] = disk[t] /\ disk[t] \in Made
    BY <1>1 DEF IInv, Types
  <2> QED BY <1>1, <2>1 DEF IInv, Entries, Wears
<1>2. ASSUME NEW q \in Root, NEW t \in Task, mem'[q][t] # 0 PROVE clone'[mem'[q][t]].task = t
  <2>1. mem'[q][t] = mem[q][t] /\ mem[q][t] \in Made
    BY <1>2 DEF IInv, Types
  <2> QED BY <1>2, <2>1 DEF IInv, Entries, Wears
<1> QED BY <1>1, <1>2 DEF Entries

\* What is owned stays owned by the same resident while nobody lets it go.
LEMMA AdoptedKept ==
  ASSUME IInv, Wears, UNCHANGED <<mem, owned>>,
         \A c \in Made : clone'[c].by = clone[c].by \/ ~clone'[c].working
  PROVE  Adopted'
<1> SUFFICES ASSUME NEW q \in Root, NEW t \in owned[q]
             PROVE  mem[q][t] # 0 /\ (clone'[mem[q][t]].by = q \/ ~clone'[mem[q][t]].working)
  BY DEF Adopted
<1>1. mem[q][t] # 0 /\ mem[q][t] \in Made
  BY DEF IInv, Types, Adopted
<1> QED BY <1>1 DEF IInv, Adopted, Wears

\* Changing the state of a clone, or whose worker it has, changes no work.
LEMMA StateWears ==
  ASSUME IInv, NEW c \in Made, NEW state \in {"broken", "gone"},
         clone' = [clone EXCEPT ![c].state = state]
  PROVE  /\ Wears /\ SameWork /\ clone'[c].state = state
         /\ \A d \in Made : clone'[d].by = clone[d].by
         /\ \A d \in Made \ {c} : clone'[d] = clone[d]
<1>1. /\ clone \in Seq(CloneRecord) /\ clone[c] \in CloneRecord /\ c \in 1..Len(clone)
      /\ \A d \in Made : d \in DOMAIN clone
  BY MadeFacts DEF IInv, Types, Made
<1> DEFINE new == [clone[c] EXCEPT !.state = state]
<1>2. /\ new \in CloneRecord /\ new.task = clone[c].task /\ new.target = clone[c].target
      /\ new.at = clone[c].at /\ new.commits = clone[c].commits /\ new.tree = clone[c].tree
      /\ new.working = clone[c].working /\ new.by = clone[c].by /\ new.state = state
  BY <1>1 DEF CloneRecord
<1>3. clone' = [clone EXCEPT ![c] = new]
  OBVIOUS
<1> HIDE DEF new
<1>4. /\ clone' \in Seq(CloneRecord) /\ Len(clone') = Len(clone) /\ clone'[c] = new
      /\ \A d \in Made \ {c} : clone'[d] = clone[d]
  BY <1>1, <1>2, <1>3
<1>5. \A d \in Made : UpTo(clone[d].commits, Len(clone))
  BY DEF IInv, NothingAhead
<1> QED BY <1>2, <1>4, <1>5 DEF Wears, SameWork

\* The newest clone is the same one.
LEMMA StoredKept ==
  ASSUME IInv, Wears, UNCHANGED <<disk, misfiled>>
  PROVE  Stored'
<1>1. Made' = Made
  BY DEF Made, Wears
<1> QED BY <1>1 DEF IInv, Stored, Newest, Wears

\* What is integrated is on a branch of the mother: work of the worker is not
\* in the commit that a detached HEAD had before the clone was made.
LEMMA IntegratedIsThere ==
  ASSUME IInv, NEW c \in Made, Integrated(c)
  PROVE  Produced(c) \subseteq UNION {hist[b] : b \in Branch}
<1>1. clone[c].target \in Branch \cup {None} /\ clone[c].tree = {}
  BY MadeFacts DEF IInv, CloneRecord, Integrated
<1>2. CASE clone[c].target \in Branch
  BY <1>1, <1>2, CheckoutsAssumption DEF Integrated, Produced
<1>3. CASE clone[c].target = None
  <2>1. clone[c].commits \subseteq clone[c].at
    BY <1>3 DEF Integrated
  <2>2. Own(c) \cap clone[c].at = {}
    <3>1. c \in Nat /\ c - 1 \in Nat /\ c > c - 1
      BY MadeFacts DEF IInv
    <3> QED BY <3>1 DEF IInv, NothingAhead, UpTo
  <2> QED BY <2>1, <2>2, <1>1 DEF Produced
<1> QED BY <1>1, <1>2, <1>3

LEMMA JudgeHolds == ASSUME IInv, NEW r \in Root, Judge(r) PROVE IInv'
<1>1. /\ root[r].pc = "judge"
      /\ UNCHANGED <<hist, head, fetched, moves, recap, mem, owned, starts, slipped>>
  BY DEF Judge, At, mother, registry
<1>2. PICK t \in Task, c \in Made :
        /\ <<t, c>> \in root[r].left
        /\ \/ /\ Integrated(c)
              /\ clone' = [clone EXCEPT ![c].state = "broken"]
              /\ root' = [root EXCEPT ![r] = [pc |-> "remove", left |-> root[r].left \ {<<t, c>>},
                                              task |-> t, clone |-> c]]
              /\ UNCHANGED registry
           \/ /\ ~Integrated(c)
              /\ Record(t, c)
              /\ root' = [root EXCEPT ![r] = Teardown(root[r].left \ {<<t, c>>})]
              /\ UNCHANGED <<clone, mem, owned>>
  BY DEF Judge, Goes
<1> DEFINE left == root[r].left \ {<<t, c>>}
<1>3. /\ TornDown(t, c) /\ left \in SUBSET (Task \X Clone) /\ c \in Clone
      /\ \A u \in Task, d \in Clone : <<u, d>> \in left => TornDown(u, d)
  BY <1>1, <1>2, RootFields, MadeFacts DEF IInv, Ending
<1>4. UpTo(fetched', Len(clone))
  BY <1>1 DEF IInv, NothingAhead
<1> HIDE DEF left
<1>5. CASE /\ Integrated(c)
           /\ clone' = [clone EXCEPT ![c].state = "broken"]
           /\ root' = [root EXCEPT ![r] = [pc |-> "remove", left |-> left, task |-> t, clone |-> c]]
           /\ UNCHANGED registry
  <2> DEFINE state == [pc |-> "remove", left |-> left, task |-> t, clone |-> c]
  <2>1. /\ Wears /\ SameWork /\ clone'[c].state = "broken"
        /\ \A d \in Made : clone'[d].by = clone[d].by
        /\ \A d \in Made \ {c} : clone'[d] = clone[d]
    BY <1>5, StateWears
  <2>2. /\ Made' = Made /\ Len(clone') = Len(clone) /\ clone' \in Seq(CloneRecord)
        /\ UNCHANGED <<disk, misfiled>>
    BY <2>1, <1>5 DEF Made, Wears, registry
  <2>3. /\ state \in RootState /\ state.pc = "remove" /\ state.left = left /\ state.task = t
        /\ state.clone = c
    BY <1>3 DEF RootState
  <2>4. root' = [root EXCEPT ![r] = state]
    BY <1>5
  <2> HIDE DEF state
  <2>5. Types'
    BY <1>1, <2>2, <2>3, <2>4 DEF IInv, Types
  <2>6. Room'
    BY <1>1, <2>2, <2>3, <2>4, RoomKept
  <2>7. NothingAhead' /\ Ending' /\ Merging' /\ ClaimsHold'
    <3>1. MotherGrows
      BY <1>1, <1>4, MotherKept
    <3> QED BY <1>3, <2>1, <2>3, <2>4, <3>1, ResidentGoes
  <2>8. Trees' /\ CommitsOnTarget' /\ NothingLost' /\ OnTarget'
    <3>1. ~clone[c].working /\ Produced(c) \subseteq UNION {hist[b] : b \in Branch}
      BY <1>3, <1>5, IntegratedIsThere DEF TornDown
    <3> QED BY <1>1, <2>1, <3>1, WornWorkKept
  <2>9. Entries'
    BY <1>1, <2>1, <2>2, EntriesKept
  <2>10. Adopted'
    BY <1>1, <2>1, AdoptedKept
  <2>11. Stored'
    BY <2>1, <2>2, StoredKept
  <2> QED BY <2>5, <2>6, <2>7, <2>8, <2>9, <2>10, <2>11 DEF IInv
<1>6. CASE /\ Record(t, c)
           /\ root' = [root EXCEPT ![r] = Teardown(left)]
           /\ UNCHANGED clone
  <2>1. Wears /\ SameWork /\ Made' = Made /\ Len(clone') = Len(clone)
    BY <1>6, WearsUnchanged DEF Made
  <2>2. /\ Teardown(left) \in RootState /\ Teardown(left).pc \in {"off", "judge"}
        /\ Teardown(left).pc = "judge" => Teardown(left).left = left
    BY <1>3, StateTypes
  <2>3. /\ disk' \in [Task -> Made \cup {0}] /\ misfiled' \subseteq Task /\ Stored' /\ Entries'
    BY <1>1, <1>3, <1>6, <2>1, RecordKeeps DEF TornDown
  <2>4. Types'
    BY <1>1, <1>6, <2>1, <2>2, <2>3 DEF IInv, Types
  <2>5. Room'
    BY <1>1, <1>6, <2>1, <2>2, RoomKept
  <2>6. NothingAhead' /\ Ending' /\ Merging' /\ ClaimsHold'
    <3>1. Teardown(left).pc = "judge" =>
            \A u \in Task, d \in Clone : <<u, d>> \in Teardown(left).left => TornDown(u, d)
      BY <1>3, <2>2
    <3> QED BY <1>1, <1>6, <2>2, <3>1, ResidentMoves
  <2>7. Trees' /\ CommitsOnTarget' /\ NothingLost' /\ OnTarget'
    BY <1>1, <1>6, <2>1, WornWorkKept
  <2>8. Adopted'
    BY <1>1, <1>6, <2>1, AdoptedKept
  <2> QED BY <2>3, <2>4, <2>5, <2>6, <2>7, <2>8 DEF IInv
<1> QED BY <1>2, <1>5, <1>6 DEF left

LEMMA RemoveHolds == ASSUME IInv, NEW r \in Root, Remove(r) PROVE IInv'
<1> DEFINE t == root[r].task
           c == root[r].clone
           left == root[r].left
<1>1. /\ root[r].pc = "remove"
      /\ \/ clone' = [clone EXCEPT ![c].state = "gone"] /\ Forget(t, c)
         \/ Record(t, c) /\ UNCHANGED clone
      /\ root' = [root EXCEPT ![r] = Teardown(left)]
      /\ UNCHANGED <<hist, head, fetched, moves, recap, mem, owned, starts, slipped>>
  BY DEF Remove, At, Goes, mother
<1>2. /\ TornDown(t, c) /\ clone[c].state # "present" /\ t \in Task
      /\ left \in SUBSET (Task \X Clone)
      /\ \A u \in Task, d \in Clone : <<u, d>> \in left => TornDown(u, d)
  BY <1>1, RootFields DEF IInv, Ending
<1>3. /\ c \in Made /\ clone[c].task = t
  BY <1>2 DEF TornDown
<1> HIDE DEF t, c, left
<1>4. /\ Wears /\ SameWork /\ \A d \in Made : clone'[d].by = clone[d].by
      /\ clone' = clone \/ clone'[c].state # "present"
      /\ \A d \in Made : clone[d].state = "present" => clone'[d].state = "present"
  <2>1. CASE clone' = [clone EXCEPT ![c].state = "gone"]
    BY <1>2, <1>3, <2>1, StateWears
  <2>2. CASE UNCHANGED clone
    BY <2>2, WearsUnchanged
  <2> QED BY <1>1, <2>1, <2>2
<1>5. Made' = Made /\ Len(clone') = Len(clone) /\ clone' \in Seq(CloneRecord)
  BY <1>4 DEF Made, Wears
<1>6. /\ Teardown(left) \in RootState /\ Teardown(left).pc \in {"off", "judge"}
      /\ Teardown(left).pc = "judge" => Teardown(left).left = left
  BY <1>2, StateTypes
<1>7. /\ disk' \in [Task -> Made \cup {0}] /\ misfiled' \subseteq Task /\ Stored' /\ Entries'
  <2>1. CASE Record(t, c)
    BY <1>1, <1>2, <1>3, <1>4, <2>1, RecordKeeps
  <2>2. CASE Forget(t, c)
    <3>1. /\ disk' = [disk EXCEPT ![t] = 0]
          /\ misfiled' = IF disk[t] > c THEN misfiled \cup {t} ELSE misfiled
      BY <2>2 DEF Forget
    <3>2. disk' \in [Task -> Made \cup {0}] /\ misfiled' \subseteq Task
      BY <1>2, <3>1 DEF IInv, Types
    <3>3. Entries'
      <4>1. \A u \in Task : disk'[u] = disk[u] \/ disk'[u] = 0
        BY <3>1 DEF IInv, Types
      <4> QED BY <1>1, <1>4, <4>1, EntriesKept
    <3>4. Stored'
      <4> SUFFICES ASSUME NEW u \in Task \ misfiled', NEW d \in Newest(u)',
                          clone'[d].state = "present"
                   PROVE  disk'[u] = d
        BY DEF Stored
      <4>1. d \in Newest(u) /\ d \in Made /\ clone[d].state = "present"
        BY <1>4, <1>5 DEF Newest, Wears
      <4>2. u \in Task \ misfiled /\ disk[u] = d
        <5>1. u \in Task \ misfiled
          BY <3>1
        <5> QED BY <4>1, <5>1 DEF IInv, Stored
      <4>3. CASE u = t
        <5>1. ~(disk[t] > c)
          BY <4>3, <3>1
        <5>2. c <= d
          BY <1>3, <4>1, <4>3 DEF Newest
        <5>3. c \in Nat /\ d \in Nat
          BY <1>3, <4>1, MadeFacts DEF IInv
        <5>4. c = d
          BY <4>2, <4>3, <5>1, <5>2, <5>3
        <5> QED BY <5>4, <4>1, <1>2
      <4>4. CASE u # t
        BY <4>2, <4>4, <3>1 DEF IInv, Types
      <4> QED BY <4>3, <4>4
    <3> QED BY <3>2, <3>3, <3>4
  <2> QED BY <1>1, <2>1, <2>2
<1>8. Types'
  BY <1>1, <1>5, <1>6, <1>7 DEF IInv, Types
<1>9. Room'
  BY <1>1, <1>5, <1>6, RoomKept
<1>10. NothingAhead' /\ Ending' /\ Merging' /\ ClaimsHold'
  <2>1. UpTo(fetched', Len(clone))
    BY <1>1 DEF IInv, NothingAhead
  <2>2. Teardown(left).pc = "judge" =>
          \A u \in Task, d \in Clone : <<u, d>> \in Teardown(left).left => TornDown(u, d)
    BY <1>2, <1>6
  <2>3. MotherGrows
    BY <1>1, <2>1, MotherKept
  <2> QED BY <1>1, <1>4, <1>6, <2>2, <2>3, ResidentGoes
<1>11. Trees' /\ CommitsOnTarget' /\ NothingLost' /\ OnTarget'
  BY <1>1, <1>4, WornWorkKept
<1>12. Adopted'
  BY <1>1, <1>4, AdoptedKept
<1> QED BY <1>7, <1>8, <1>9, <1>10, <1>11, <1>12 DEF IInv

\* A death lets the workers go; the clones and the entries stay.
LEMMA DieHolds == ASSUME IInv, NEW r \in Root, Die(r) PROVE IInv'
<1>1. /\ root[r].pc # "off" /\ root' = [root EXCEPT ![r] = Off]
      /\ clone' = [c \in Made |->
                     IF clone[c].by = r THEN [clone[c] EXCEPT !.by = None] ELSE clone[c]]
      /\ mem' = [mem EXCEPT ![r] = [t \in Task |-> 0]]
      /\ owned' = [owned EXCEPT ![r] = {}]
      /\ fetched' = Fetched(r)
      /\ UNCHANGED <<hist, head, moves, recap, disk, misfiled, starts, slipped>>
  BY DEF Die, At, Goes, NoMemory
<1>2. /\ Len(clone) \in Nat /\ \A c \in Made : clone[c] \in CloneRecord
  BY MadeFacts DEF IInv
<1>3. \A c \in Made : /\ clone'[c] \in CloneRecord
                      /\ clone'[c].by = IF clone[c].by = r THEN None ELSE clone[c].by
                      /\ clone'[c].task = clone[c].task /\ clone'[c].target = clone[c].target
                      /\ clone'[c].at = clone[c].at /\ clone'[c].state = clone[c].state
                      /\ clone'[c].commits = clone[c].commits /\ clone'[c].tree = clone[c].tree
                      /\ clone'[c].working = clone[c].working
  BY <1>1, <1>2 DEF CloneRecord
<1>4. /\ clone' \in Seq(CloneRecord) /\ Len(clone') = Len(clone) /\ Made' = Made
  BY <1>1, <1>2, <1>3 DEF Made
<1>5. Wears /\ SameWork
  <2>1. \A c \in Made : UpTo(clone[c].commits, Len(clone))
    BY DEF IInv, NothingAhead
  <2> QED BY <1>3, <1>4, <2>1 DEF Wears, SameWork
<1>6. fetched' \in Tip /\ UpTo(fetched', Len(clone))
  BY <1>1 DEF Fetched, IInv, Types, NothingAhead, UpTo, Tip
<1>7. Types'
  BY <1>1, <1>4, <1>6, StateTypes DEF IInv, Types
<1>8. Room'
  <2>1. CASE root[r].pc # "pinned"
    BY <1>1, <1>4, <2>1, StateTypes, RoomKept
  <2>2. CASE root[r].pc = "pinned"
    <3>1. Cardinality(Pinning) \in Nat /\ Cardinality(Pinning') = Cardinality(Pinning) - 1
      BY <1>1, <2>2, StateTypes, Unpinned
    <3> QED BY <1>2, <1>4, <3>1, CheckoutsAssumption DEF IInv, Room
  <2> QED BY <2>1, <2>2
<1>9. Entries'
  <2>1. \A q \in Root, t \in Task : mem'[q][t] = mem[q][t] \/ mem'[q][t] = 0
    BY <1>1 DEF IInv, Types
  <2> QED BY <1>1, <1>5, <2>1, EntriesKept
<1>10. Adopted'
  <2> SUFFICES ASSUME NEW q \in Root, NEW t \in owned'[q]
               PROVE  mem'[q][t] # 0 /\ (clone'[mem'[q][t]].by = q \/ ~clone'[mem'[q][t]].working)
    BY DEF Adopted
  <2>1. q # r /\ t \in owned[q] /\ mem'[q] = mem[q] /\ t \in Task
    BY <1>1 DEF IInv, Types
  <2>2. mem[q][t] # 0 /\ mem[q][t] \in Made
    BY <2>1 DEF IInv, Types, Adopted
  <2> QED BY <2>1, <2>2, <1>3 DEF IInv, Adopted
<1>11. NothingAhead' /\ Ending' /\ Merging' /\ ClaimsHold'
  <2>1. MotherGrows
    BY <1>1, <1>6, MotherKept
  <2> QED BY <1>1, <1>5, <2>1, StateTypes, ResidentGoes
<1>12. Trees' /\ CommitsOnTarget' /\ NothingLost' /\ OnTarget'
  BY <1>1, <1>3, <1>5, WornWorkKept
<1>13. Stored'
  BY <1>1, <1>5, StoredKept
<1> QED BY <1>7, <1>8, <1>9, <1>10, <1>11, <1>12, <1>13 DEF IInv

\* What a worker leaves, or what is committed of it, is work of its own.
LEMMA OwnWorkKept ==
  ASSUME IInv, Wears, UNCHANGED <<hist, slipped>>,
         NEW c \in Made, NEW own \in SUBSET Own(c),
         \A d \in Made \ {c} : clone'[d] = clone[d],
         clone[c].state = "present", clone'[c].state = "present", ~clone'[c].working,
         clone'[c].commits = clone[c].commits \cup own, clone'[c].tree \subseteq Own(c),
         clone'[c].tree \cap clone'[c].commits = {}
  PROVE  Trees' /\ CommitsOnTarget' /\ NothingLost' /\ OnTarget'
<1>1. Made' = Made
  BY DEF Made, Wears
<1>2. Trees'
  BY <1>1 DEF IInv, Trees
<1>3. CommitsOnTarget'
  <2> SUFFICES ASSUME NEW e \in Made, clone'[e].target # None, NEW d \in Made \ slipped,
                      Own(d) \cap clone'[e].commits # {}
               PROVE  clone'[d].target = clone'[e].target
    BY <1>1 DEF CommitsOnTarget
  <2>1. d # c => Own(d) \cap own = {}
    BY MadeFacts, OwnFacts DEF IInv
  <2>2. d = e \/ Own(d) \cap clone[e].commits # {}
    BY <2>1
  <2> QED BY <2>2 DEF IInv, CommitsOnTarget, Wears
<1>4. OnTarget'
  BY <1>1 DEF IInv, OnTarget, Wears
<1>5. NothingLost'
  BY <1>1 DEF IInv, NothingLost, Produced
<1> QED BY <1>2, <1>3, <1>4, <1>5

\* A clone with a change in one of them.
LEMMA CloneUpdated ==
  ASSUME Types, NEW c \in Made, NEW new \in CloneRecord, clone' = [clone EXCEPT ![c] = new]
  PROVE  /\ clone' \in Seq(CloneRecord) /\ Len(clone') = Len(clone) /\ clone'[c] = new
         /\ \A d \in Made \ {c} : clone'[d] = clone[d]
         /\ Made' = Made
<1>1. clone \in Seq(CloneRecord) /\ c \in 1..Len(clone) /\ \A d \in Made : d \in DOMAIN clone
  BY MadeFacts DEF Types, Made
<1>2. /\ clone' \in Seq(CloneRecord) /\ Len(clone') = Len(clone) /\ clone'[c] = new
      /\ \A d \in Made \ {c} : clone'[d] = clone[d]
  BY <1>1
<1> QED BY <1>2 DEF Made

LEMMA SettleHolds == ASSUME IInv, NEW c \in Made, Settle(c) PROVE IInv'
<1>1. /\ clone[c].working
      /\ UNCHANGED <<hist, head, fetched, moves, disk, mem, owned, misfiled, root, starts, slipped>>
  BY DEF Settle, mother, registry
<1>2. PICK work \in Work(c) :
        /\ clone' = [clone EXCEPT ![c].working = FALSE, ![c].by = None,
                                  ![c].tree = work.tree, ![c].commits = @ \cup work.commits]
        /\ recap' = recap \/ recap' = [recap EXCEPT ![clone[c].task] = c]
  BY DEF Settle
<1>3. /\ work.tree \in SUBSET Own(c) /\ work.commits \in SUBSET Own(c)
      /\ work.tree = {} \/ work.commits = {}
  BY DEF Work, Own
<1>4. clone[c] \in CloneRecord /\ c \in Clone /\ c \in Nat /\ Own(c) \in Tip
  <2>1. clone[c] \in CloneRecord /\ c \in Clone /\ c \in Nat
    BY MadeFacts DEF IInv
  <2> QED BY <2>1, OwnFacts
<1>5. /\ clone[c].tree = {} /\ clone[c].commits \cap Own(c) = {} /\ clone[c].state = "present"
  BY <1>1 DEF IInv, Trees
<1> DEFINE new == [clone[c] EXCEPT !.working = FALSE, !.by = None, !.tree = work.tree,
                                   !.commits = @ \cup work.commits]
<1>6. /\ new \in CloneRecord /\ new.task = clone[c].task /\ new.target = clone[c].target
      /\ new.at = clone[c].at /\ new.commits = clone[c].commits \cup work.commits
      /\ new.tree = work.tree /\ new.working = FALSE /\ new.state = "present" /\ new.by = None
  BY <1>3, <1>4, <1>5 DEF CloneRecord, Tip
<1>7. clone' = [clone EXCEPT ![c] = new]
  BY <1>2
<1> HIDE DEF new
<1>8. /\ clone' \in Seq(CloneRecord) /\ Len(clone') = Len(clone) /\ clone'[c] = new
      /\ \A d \in Made \ {c} : clone'[d] = clone[d]
      /\ Made' = Made
  BY <1>6, <1>7, CloneUpdated DEF IInv
<1>9. Wears
  <2>1. \A d \in Made : UpTo(clone[d].commits, Len(clone))
    BY DEF IInv, NothingAhead
  <2>2. UpTo(clone'[c].commits, Len(clone))
    <3>1. Len(clone) \in Nat /\ c \in 1..Len(clone)
      BY MadeFacts DEF IInv, Made
    <3>2. UpTo(clone[c].commits \cup work.commits, Len(clone))
      BY <2>1, <3>1, <1>3, UpToOwn
    <3> QED BY <3>2, <1>6, <1>8
  <2>3. ASSUME NEW d \in Made
        PROVE  /\ clone'[d].task = clone[d].task /\ clone'[d].target = clone[d].target
               /\ clone'[d].at = clone[d].at
               /\ clone[d].commits \subseteq clone'[d].commits
               /\ UpTo(clone'[d].commits, Len(clone))
               /\ clone'[d].working => clone[d].working
               /\ clone[d].state # "present" => clone'[d].state # "present"
    <3>1. CASE d = c
      BY <3>1, <1>5, <1>6, <1>8, <2>2
    <3>2. CASE d # c
      BY <3>2, <1>8, <2>1
    <3> QED BY <3>1, <3>2
  <2> QED BY <1>8, <2>3 DEF Wears
<1>10. Types'
  <2>1. recap' \in [Task -> Made \cup {0}]
    BY <1>2, <1>4 DEF IInv, Types, CloneRecord
  <2> QED BY <1>1, <1>8, <2>1 DEF IInv, Types
<1>11. Room'
  BY <1>1, <1>8 DEF IInv, Room, Pinning, At
<1>12. NothingAhead'
  <2>1. \A d \in Made' : UpTo(clone'[d].commits, Len(clone)) /\ UpTo(clone'[d].at, d - 1)
    BY <1>8, <1>9 DEF IInv, NothingAhead, Wears
  <2>2. /\ \A b \in Branch : UpTo(hist[b], Len(clone))
        /\ UpTo(head.at, Len(clone)) /\ UpTo(fetched, Len(clone))
        /\ \A r \in Root : At(r, "pinned") => UpTo(root[r].at, Len(clone))
    BY DEF IInv, NothingAhead
  <2> QED BY <1>1, <1>8, <2>1, <2>2 DEF NothingAhead, UpTo, At
<1>13. Trees' /\ CommitsOnTarget' /\ NothingLost' /\ OnTarget'
  BY <1>1, <1>3, <1>5, <1>6, <1>8, <1>9, OwnWorkKept
<1>14. Entries'
  BY <1>1, <1>9, EntriesKept
<1>15. Adopted'
  <2>1. \A d \in Made : clone'[d].by = clone[d].by \/ ~clone'[d].working
    BY <1>6, <1>8
  <2> QED BY <1>1, <1>9, <2>1, AdoptedKept
<1>16. Stored'
  BY <1>1, <1>9, StoredKept
<1>17. Ending'
  BY <1>1, <1>8, <1>9 DEF IInv, Ending, TornDown, Wears
<1>18. Merging'
  <2>1. \A r \in Root : root[r].pc = "merge" => Turn(r) \in Made
    BY TurnFacts DEF IInv, Merging
  <2> QED BY <1>1, <1>8, <1>9, <2>1 DEF IInv, Merging, Turn, Wears
<1>19. ClaimsHold'
  BY <1>1, <1>8, <1>9 DEF IInv, ClaimsHold, Merging, Wears
<1> QED BY <1>10, <1>11, <1>12, <1>13, <1>14, <1>15, <1>16, <1>17, <1>18, <1>19 DEF IInv

\* What is fetched is what the clone has committed, and it has the files
\* that the recap reports.
LEMMA IntegrateOneHolds == ASSUME IInv, NEW r \in Root, IntegrateOne(r) PROVE IInv'
<1> DEFINE c == Turn(r)
           queue == root[r].queue
           clean == root[r].clean
<1>1. /\ root[r].pc = "commit" /\ queue # <<>>
      /\ UNCHANGED <<hist, head, moves, recap, disk, mem, owned, misfiled, starts, slipped>>
  BY DEF IntegrateOne, At, registry
<1>2. /\ c \in Made /\ Tail(queue) \in Seq(Pick) /\ queue \in Seq(Pick) /\ clean \in SUBSET Clone
      /\ clean \subseteq Made
      /\ \A i \in 1..Len(Tail(queue)) : Tail(queue)[i].clone \in Made
      /\ \A i \in 1..Len(queue) : queue[i].clone \in Made
      /\ \A d \in clean \ slipped : clone[d].target # None => Told(d) \in hist[clone[d].target]
  <2>1. c \in Made /\ Tail(queue) \in Seq(Pick)
        /\ \A i \in 1..Len(Tail(queue)) : Tail(queue)[i].clone \in Made
    BY <1>1, TurnFacts DEF IInv
  <2>2. queue \in Seq(Pick) /\ clean \in SUBSET Clone
    BY <1>1, RootFields DEF IInv
  <2>3. clean \subseteq Made /\ \A i \in 1..Len(queue) : queue[i].clone \in Made
    BY <1>1 DEF IInv, Merging
  <2>4. \A d \in clean \ slipped : clone[d].target # None => Told(d) \in hist[clone[d].target]
    BY <1>1 DEF IInv, ClaimsHold
  <2> QED BY <2>1, <2>2, <2>3, <2>4
<1>3. clone[c] \in CloneRecord /\ c \in Nat /\ c \in Clone
  BY <1>2, MadeFacts DEF IInv
\* The clone, after the commit or as it is.
<1>4. \/ clone' = clone /\ fetched' = fetched
      \/ clone' = clone /\ fetched' \in {fetched, clone[c].commits}
      \/ /\ clone[c].state = "present" /\ Told(c) \in clone[c].tree
         /\ clone' = [clone EXCEPT ![c].tree = @ \ {Told(c)},
                                   ![c].commits = clone[c].commits \cup {Told(c)}]
         /\ fetched' \in {fetched, clone[c].commits \cup {Told(c)}}
  BY DEF IntegrateOne, CommitsNow, CommittedEarlier, CheckAndFetch
<1>5. /\ Wears /\ Made' = Made /\ clone' \in Seq(CloneRecord) /\ Len(clone') = Len(clone)
      /\ fetched' \in {fetched, clone'[c].commits}
      /\ \A d \in Made : clone'[d].by = clone[d].by
      /\ Trees' /\ CommitsOnTarget' /\ NothingLost' /\ OnTarget'
  <2>1. CASE clone' = clone /\ fetched' \in {fetched, clone[c].commits}
    <3>1. Wears /\ SameWork
      BY <2>1, WearsUnchanged
    <3>2. fetched' \in {fetched, clone'[c].commits}
      BY <2>1
    <3>3. Made' = Made /\ clone' \in Seq(CloneRecord) /\ Len(clone') = Len(clone)
      BY <2>1 DEF Made, IInv, Types
    <3>4. Trees' /\ CommitsOnTarget' /\ NothingLost' /\ OnTarget'
      BY <1>1, <2>1, <3>1, WornWorkKept
    <3> QED BY <2>1, <3>1, <3>2, <3>3, <3>4
  <2>2. CASE /\ clone[c].state = "present" /\ Told(c) \in clone[c].tree
             /\ clone' = [clone EXCEPT ![c].tree = @ \ {Told(c)},
                                       ![c].commits = clone[c].commits \cup {Told(c)}]
             /\ fetched' \in {fetched, clone[c].commits \cup {Told(c)}}
    <3> DEFINE new == [clone[c] EXCEPT !.tree = @ \ {Told(c)},
                                       !.commits = clone[c].commits \cup {Told(c)}]
    <3>1. Told(c) \in Own(c) /\ Own(c) \in Tip
      BY <1>3, OwnFacts
    <3>2. /\ ~clone[c].working /\ clone[c].tree \subseteq Own(c)
          /\ clone[c].tree \cap clone[c].commits = {}
      BY <1>2, <2>2 DEF IInv, Trees
    <3>3. /\ new \in CloneRecord /\ new.task = clone[c].task /\ new.target = clone[c].target
          /\ new.at = clone[c].at /\ new.commits = clone[c].commits \cup {Told(c)}
          /\ new.tree = clone[c].tree \ {Told(c)} /\ new.working = clone[c].working
          /\ new.state = "present" /\ new.by = clone[c].by
      BY <1>3, <2>2, <3>1 DEF CloneRecord, Tip
    <3>4. clone' = [clone EXCEPT ![c] = new]
      BY <2>2
    <3> HIDE DEF new, c
    <3>5. /\ clone' \in Seq(CloneRecord) /\ Len(clone') = Len(clone) /\ clone'[c] = new
          /\ \A d \in Made \ {c} : clone'[d] = clone[d]
          /\ Made' = Made
      BY <1>2, <3>3, <3>4, CloneUpdated DEF IInv
    <3>6. \A d \in Made : UpTo(clone[d].commits, Len(clone))
      BY DEF IInv, NothingAhead
    <3>7. UpTo(clone'[c].commits, Len(clone))
      <4>1. Len(clone) \in Nat /\ c \in 1..Len(clone)
        BY <1>2, MadeFacts DEF IInv, Made
      <4>2. UpTo(clone[c].commits \cup {Told(c)}, Len(clone))
        BY <1>2, <3>1, <3>6, <4>1, UpToOwn
      <4> QED BY <4>2, <3>3, <3>5
    <3>8. Wears
      <4>1. ASSUME NEW d \in Made
            PROVE  /\ clone'[d].task = clone[d].task /\ clone'[d].target = clone[d].target
                   /\ clone'[d].at = clone[d].at
                   /\ clone[d].commits \subseteq clone'[d].commits
                   /\ UpTo(clone'[d].commits, Len(clone))
                   /\ clone'[d].working => clone[d].working
                   /\ clone[d].state # "present" => clone'[d].state # "present"
        <5>1. CASE d = c
          BY <5>1, <2>2, <3>3, <3>5, <3>7
        <5>2. CASE d # c
          BY <5>2, <3>5, <3>6
        <5> QED BY <5>1, <5>2
      <4> QED BY <3>5, <4>1 DEF Wears
    <3>9. Trees' /\ CommitsOnTarget' /\ NothingLost' /\ OnTarget'
      BY <1>1, <1>2, <2>2, <3>1, <3>2, <3>3, <3>5, <3>8, OwnWorkKept
    <3>10. \A d \in Made : clone'[d].by = clone[d].by
      BY <3>3, <3>5
    <3>11. fetched' \in {fetched, clone'[c].commits}
      BY <2>2, <3>3, <3>5
    <3> QED BY <3>5, <3>8, <3>9, <3>10, <3>11
  <2> QED BY <1>4, <2>1, <2>2
<1>6. fetched' \in Tip /\ UpTo(fetched', Len(clone))
  <2>1. fetched \in Tip /\ UpTo(fetched, Len(clone))
    BY DEF IInv, Types, NothingAhead
  <2>2. clone'[c] \in CloneRecord
    BY <1>2, <1>5 DEF Made
  <2>3. clone'[c].commits \in Tip /\ UpTo(clone'[c].commits, Len(clone))
    BY <1>2, <1>5, <2>2 DEF CloneRecord, Wears
  <2> QED BY <1>5, <2>1, <2>3
\* Where the resident goes.
<1>7. \/ root' = [root EXCEPT ![r] = On]
      \/ root' = [root EXCEPT ![r] = Wave("commit", Tail(queue), clean)]
      \/ root' = [root EXCEPT ![r] = Wave("merge", queue, clean)] /\ Told(c) \in clone'[c].commits
  <2>1. CASE ~Reported(r) /\ After(r, root[r].clean)
    BY <2>1 DEF After, Goes
  <2>2. CASE CommittedEarlier(r)
    BY <2>2 DEF CommittedEarlier, CheckAndFetch, Error, Goes
  <2>3. CASE CommitsNow(r)
    <3>1. Told(c) \in clone'[c].commits
      <4>1. clone' = [clone EXCEPT ![c].tree = @ \ {Told(c)},
                                   ![c].commits = clone[c].commits \cup {Told(c)}]
        BY <2>3 DEF CommitsNow
      <4>2. c \in DOMAIN clone /\ "commits" \in DOMAIN clone[c]
        BY <1>2, <1>3, MadeFacts DEF IInv, CloneRecord
      <4> QED BY <4>1, <4>2
    <3> QED BY <2>3, <3>1 DEF CommitsNow, CheckAndFetch, Error, Goes
  <2>4. CASE Error(r)
    BY <2>4 DEF Error, Goes
  <2> QED BY <2>1, <2>2, <2>3, <2>4 DEF IntegrateOne
<1> HIDE DEF c, queue, clean
<1>8. PICK state \in RootState :
        /\ root' = [root EXCEPT ![r] = state]
        /\ state.pc \in {"on", "commit", "merge"}
        /\ state.pc \in {"commit", "merge"} =>
             /\ state.clean = clean
             /\ \A i \in 1..Len(state.queue) : state.queue[i].clone \in Made
        /\ state.pc = "merge" => state.queue = queue /\ Told(c) \in clone'[c].commits
  <2>1. CASE root' = [root EXCEPT ![r] = On]
    BY <2>1, StateTypes
  <2>2. CASE root' = [root EXCEPT ![r] = Wave("commit", Tail(queue), clean)]
    <3>1. /\ Wave("commit", Tail(queue), clean) \in RootState
          /\ Wave("commit", Tail(queue), clean).pc = "commit"
          /\ Wave("commit", Tail(queue), clean).queue = Tail(queue)
          /\ Wave("commit", Tail(queue), clean).clean = clean
      <4>1. Tail(queue) \in Seq(Pick) /\ clean \in SUBSET Clone
        BY <1>2
      <4>2. \A rest \in Seq(Pick) :
              /\ Wave("commit", rest, clean) \in RootState
              /\ Wave("commit", rest, clean).pc = "commit"
              /\ Wave("commit", rest, clean).queue = rest
              /\ Wave("commit", rest, clean).clean = clean
        BY <4>1, StateTypes
      <4> QED BY <4>1, <4>2
    <3> QED BY <2>2, <3>1, <1>2
  <2>3. CASE root' = [root EXCEPT ![r] = Wave("merge", queue, clean)] /\ Told(c) \in clone'[c].commits
    <3>1. /\ Wave("merge", queue, clean) \in RootState
          /\ Wave("merge", queue, clean).pc = "merge"
          /\ Wave("merge", queue, clean).queue = queue
          /\ Wave("merge", queue, clean).clean = clean
      BY <1>2, StateTypes
    <3> QED BY <2>3, <3>1, <1>2
  <2> QED BY <1>7, <2>1, <2>2, <2>3
<1>9. Types'
  BY <1>1, <1>5, <1>6, <1>8 DEF IInv, Types
<1>10. Room'
  BY <1>1, <1>5, <1>8, RoomKept
<1>11. NothingAhead' /\ Ending' /\ Merging' /\ ClaimsHold'
  <2>1. MotherGrows
    BY <1>1, <1>6, MotherKept
  <2>2. state.pc = "merge" =>
          /\ state.queue # <<>>
          /\ Told(Head(state.queue).clone) \in clone'[Head(state.queue).clone].commits
    BY <1>1, <1>8 DEF c, queue, Turn
  <2>3. state.pc \in {"commit", "merge"} =>
          /\ state.clean \subseteq Made
          /\ \A i \in 1..Len(state.queue) : state.queue[i].clone \in Made
          /\ \A d \in state.clean \ slipped' :
               clone[d].target # None => Told(d) \in hist'[clone[d].target]
    BY <1>1, <1>2, <1>8
  <2> QED BY <1>5, <1>8, <2>1, <2>2, <2>3, ResidentGoes
<1>12. Entries'
  BY <1>1, <1>5, EntriesKept
<1>13. Adopted'
  BY <1>1, <1>5, AdoptedKept
<1>14. Stored'
  BY <1>1, <1>5, StoredKept
<1> QED BY <1>5, <1>9, <1>10, <1>11, <1>12, <1>13, <1>14 DEF IInv

\* A merge that nobody raced puts work on the branch that it was made for; a
\* raced one marks all the work that it moves.
LEMMA MergeHolds == ASSUME IInv, NEW r \in Root, Merge(r) PROVE IInv'
<1> DEFINE c == Turn(r)
           queue == root[r].queue
           clean == root[r].clean
           moved == {d \in Clone : d = c \/ Own(d) \cap fetched # {}}
<1>1. /\ root[r].pc = "merge" /\ fetched' = Fetched(r)
      /\ UNCHANGED <<moves, clone, recap, disk, mem, owned, misfiled, starts>>
  BY DEF Merge, At, worker, registry
<1>2. /\ c \in Made /\ queue # <<>> /\ Told(c) \in clone[c].commits
      /\ Tail(queue) \in Seq(Pick) /\ clean \in SUBSET Clone /\ clean \subseteq Made
      /\ \A i \in 1..Len(Tail(queue)) : Tail(queue)[i].clone \in Made
      /\ \A d \in clean \ slipped : clone[d].target # None => Told(d) \in hist[clone[d].target]
  <2>1. queue # <<>> /\ Told(c) \in clone[c].commits /\ clean \subseteq Made
    BY <1>1 DEF IInv, Merging
  <2>2. c \in Made /\ Tail(queue) \in Seq(Pick)
        /\ \A i \in 1..Len(Tail(queue)) : Tail(queue)[i].clone \in Made
    BY <1>1, <2>1, TurnFacts DEF IInv
  <2>3. clean \in SUBSET Clone
    BY <1>1, RootFields DEF IInv
  <2>4. \A d \in clean \ slipped : clone[d].target # None => Told(d) \in hist[clone[d].target]
    BY <1>1 DEF IInv, ClaimsHold
  <2> QED BY <2>1, <2>2, <2>3, <2>4
<1>3. /\ Wears /\ SameWork /\ Made' = Made /\ Len(clone') = Len(clone)
      /\ Made \subseteq Clone /\ \A d \in Made : clone[d].target \in Branch \cup {None}
  BY <1>1, WearsUnchanged, MadeFacts DEF Made, IInv, CloneRecord
<1>4. /\ fetched' \in Tip /\ UpTo(fetched', Len(clone))
      /\ fetched \in Tip /\ UpTo(fetched, Len(clone))
  BY <1>1 DEF Fetched, IInv, Types, NothingAhead, UpTo, Tip
<1>5. moved \subseteq Made
  <2> SUFFICES ASSUME NEW d \in Clone, Own(d) \cap fetched # {} PROVE d \in Made
    BY <1>2
  <2>1. d \in Nat \ {0}
    BY CheckoutsAssumption DEF Clone
  <2>2. ~(d > Len(clone))
    BY <1>4, <2>1 DEF UpTo
  <2> QED BY <2>1, <2>2, MadeFacts DEF IInv
<1>6. \/ /\ Advance
         /\ slipped' = IF Raced(r) THEN slipped \cup moved ELSE slipped
         /\ root' = [root EXCEPT ![r] = Wave("commit", Tail(queue), clean \cup {c})]
      \/ /\ UNCHANGED <<hist, head, slipped>>
         /\ \/ root' = [root EXCEPT ![r] = Wave("commit", Tail(queue), clean)]
            \/ root' = [root EXCEPT ![r] = On]
  BY DEF Merge, After, Error, Goes
<1>7. \A d \in Made : d \in moved \/ Own(d) \cap fetched = {}
  BY <1>3
<1> HIDE DEF c, queue, clean, moved
\* What the mother has then.
<1>8. ASSUME Advance, slipped' = IF Raced(r) THEN slipped \cup moved ELSE slipped
      PROVE  /\ hist' \in [Branch -> Tip] /\ head' \in [on : Branch \cup {None}, at : Tip]
             /\ MotherGrows /\ slipped' \subseteq Made /\ OnTarget'
             /\ c \notin slipped' /\ clone[c].target # None => Told(c) \in hist'[clone[c].target]
  <2>1. /\ \A b \in Branch : hist'[b] = IF b = head.on THEN hist[b] \cup fetched ELSE hist[b]
        /\ hist' \in [Branch -> Tip]
    BY <1>4, <1>8, CheckoutsAssumption DEF Advance, IInv, Types, Tip
  <2>2. head' \in [on : Branch \cup {None}, at : Tip] /\ head'.at \in {head.at, head.at \cup fetched}
    BY <1>4, <1>8 DEF Advance, IInv, Types, Tip
  <2>3. MotherGrows
    <3>1. /\ \A b \in Branch : UpTo(hist[b], Len(clone))
          /\ UpTo(head.at, Len(clone)) /\ Len(clone) \in Nat
      BY MadeFacts DEF IInv, NothingAhead
    <3>2. /\ \A b \in Branch : UpTo(hist[b] \cup fetched, Len(clone))
          /\ UpTo(head.at \cup fetched, Len(clone))
      BY <1>4, <3>1, UpToUnion
    <3>3. \A b \in Branch : hist[b] \subseteq hist'[b] /\ UpTo(hist'[b], Len(clone))
      BY <2>1, <3>1, <3>2
    <3>4. UpTo(head'.at, Len(clone))
      BY <2>2, <3>1, <3>2
    <3>5. slipped \subseteq slipped'
      BY <1>8
    <3> QED BY <1>4, <3>3, <3>4, <3>5 DEF MotherGrows
  <2>4. slipped' \subseteq Made
    BY <1>5, <1>8 DEF IInv, Types
  <2>5. ~Raced(r) => /\ slipped' = slipped /\ fetched = clone[c].commits
                     /\ clone[c].target # None => head.on = clone[c].target
                     /\ head.on # None => head.on = clone[c].target
    BY <1>8 DEF Raced, OnTargetOf, c
  <2>6. OnTarget'
    <3> SUFFICES ASSUME NEW d \in Made, d \notin slipped', NEW b \in Branch, b # clone[d].target
                 PROVE  Own(d) \cap hist'[b] = {}
      BY <1>1, <1>3 DEF OnTarget
    <3>1. Own(d) \cap hist[b] = {}
      BY <2>3 DEF IInv, OnTarget, MotherGrows
    <3>2. b = head.on => Own(d) \cap fetched = {}
      <4>1. CASE Raced(r)
        BY <4>1, <1>7, <1>8
      <4>2. CASE ~Raced(r)
        <5>1. d \in Made \ slipped
          BY <2>3 DEF MotherGrows
        <5>2. CASE b = head.on
          <6>1. clone[c].target = b /\ clone[c].target # None /\ fetched = clone[c].commits
            BY <2>5, <4>2, <5>2, CheckoutsAssumption
          <6> QED BY <5>1, <6>1, <1>2 DEF IInv, CommitsOnTarget
        <5> QED BY <5>2
      <4> QED BY <4>1, <4>2
    <3> QED BY <2>1, <3>1, <3>2
  <2>7. c \notin slipped' /\ clone[c].target # None => Told(c) \in hist'[clone[c].target]
    <3> SUFFICES ASSUME c \notin slipped', clone[c].target # None
                 PROVE  Told(c) \in hist'[clone[c].target]
      OBVIOUS
    <3>1. c \in moved
      BY <1>2, <1>3 DEF moved
    <3>2. ~Raced(r)
      BY <1>8, <3>1
    <3>3. head.on = clone[c].target /\ clone[c].target \in Branch /\ fetched = clone[c].commits
      BY <2>5, <3>2, <1>2, <1>3
    <3> QED BY <2>1, <3>3, <1>2
  <2> QED BY <2>1, <2>2, <2>3, <2>4, <2>6, <2>7
<1>9. /\ hist' \in [Branch -> Tip] /\ head' \in [on : Branch \cup {None}, at : Tip]
      /\ MotherGrows /\ slipped' \subseteq Made /\ OnTarget'
  <2>1. CASE UNCHANGED <<hist, head, slipped>>
    <3>1. MotherGrows
      BY <1>4, <2>1, MotherKept
    <3>2. OnTarget'
      BY <1>1, <1>3, <2>1 DEF IInv, OnTarget
    <3> QED BY <2>1, <3>1, <3>2 DEF IInv, Types
  <2> QED BY <1>6, <1>8, <2>1
\* Where the resident goes.
<1>10. PICK state \in RootState :
         /\ root' = [root EXCEPT ![r] = state]
         /\ state.pc \in {"on", "commit"}
         /\ state.pc = "commit" =>
              /\ state.clean \subseteq Made
              /\ \A i \in 1..Len(state.queue) : state.queue[i].clone \in Made
              /\ \A d \in state.clean \ slipped' :
                   clone[d].target # None => Told(d) \in hist'[clone[d].target]
  <2>1. \A more \in SUBSET Clone :
          /\ Wave("commit", Tail(queue), more) \in RootState
          /\ Wave("commit", Tail(queue), more).pc = "commit"
          /\ Wave("commit", Tail(queue), more).queue = Tail(queue)
          /\ Wave("commit", Tail(queue), more).clean = more
    <3>1. \A rest \in Seq(Pick), more \in SUBSET Clone :
            /\ Wave("commit", rest, more) \in RootState
            /\ Wave("commit", rest, more).pc = "commit"
            /\ Wave("commit", rest, more).queue = rest
            /\ Wave("commit", rest, more).clean = more
      BY StateTypes
    <3> QED BY <3>1, <1>2
  <2>2. \A d \in clean \ slipped' :
          clone[d].target # None => Told(d) \in hist'[clone[d].target]
    <3> SUFFICES ASSUME NEW d \in clean \ slipped', clone[d].target # None
                 PROVE  Told(d) \in hist'[clone[d].target]
      OBVIOUS
    <3>1. d \in Made /\ d \in clean \ slipped
      BY <1>2, <1>9 DEF MotherGrows
    <3>2. clone[d].target \in Branch
      BY <3>1, <1>3
    <3>3. Told(d) \in hist[clone[d].target]
      BY <3>1, <1>2
    <3> QED BY <3>2, <3>3, <1>9 DEF MotherGrows
  <2>3. CASE /\ Advance
             /\ slipped' = IF Raced(r) THEN slipped \cup moved ELSE slipped
             /\ root' = [root EXCEPT ![r] = Wave("commit", Tail(queue), clean \cup {c})]
    <3>1. clean \cup {c} \in SUBSET Clone /\ clean \cup {c} \subseteq Made
      BY <1>2, <1>3
    <3>2. \A d \in (clean \cup {c}) \ slipped' :
            clone[d].target # None => Told(d) \in hist'[clone[d].target]
      BY <1>8, <2>2, <2>3
    <3> QED BY <1>2, <2>1, <2>3, <3>1, <3>2
  <2>4. CASE root' = [root EXCEPT ![r] = Wave("commit", Tail(queue), clean)]
    BY <1>2, <2>1, <2>2, <2>4
  <2>5. CASE root' = [root EXCEPT ![r] = On]
    BY <2>5, StateTypes
  <2> QED BY <1>6, <2>3, <2>4, <2>5
<1>11. Types'
  BY <1>1, <1>3, <1>4, <1>9, <1>10 DEF IInv, Types
<1>12. Room'
  BY <1>1, <1>3, <1>10, RoomKept
<1>13. NothingAhead' /\ Ending' /\ Merging' /\ ClaimsHold'
  BY <1>3, <1>9, <1>10, ResidentGoes
<1>14. Trees' /\ CommitsOnTarget'
  BY <1>1, <1>3, <1>9 DEF IInv, Trees, CommitsOnTarget, MotherGrows
<1>15. NothingLost'
  <2> SUFFICES ASSUME NEW d \in Made, clone[d].state # "present",
                      NEW x \in Produced(d)
               PROVE  \E b \in Branch : x \in hist'[b]
    BY <1>1, <1>3 DEF NothingLost, Produced
  <2>1. PICK b \in Branch : x \in hist[b]
    BY DEF IInv, NothingLost
  <2> QED BY <2>1, <1>9 DEF MotherGrows
<1>16. Entries'
  BY <1>1, <1>3, EntriesKept
<1>17. Adopted'
  BY <1>1, <1>3, AdoptedKept
<1>18. Stored'
  BY <1>1, <1>3, StoredKept
<1> QED BY <1>9, <1>11, <1>12, <1>13, <1>14, <1>15, <1>16, <1>17, <1>18 DEF IInv

-----------------------------------------------------------------------------

LEMMA StepHolds == ASSUME IInv, [Next]_vars PROVE IInv'
<1>1. CASE UNCHANGED vars
  <2>1. UNCHANGED <<hist, head, fetched, moves, clone, recap, disk, mem, owned, misfiled, root,
                    starts, slipped>>
    BY <1>1 DEF vars, mother, worker, registry
  <2>2. Made' = Made /\ Pinning' = Pinning /\ \A t, c : TornDown(t, c)' <=> TornDown(t, c)
    BY <2>1 DEF Made, Pinning, At, TornDown
  <2>3. Types' /\ Room' /\ Entries' /\ Adopted'
    BY <2>1, <2>2 DEF IInv, Types, Room, Entries, Adopted
  <2>4. NothingAhead' /\ Ending' /\ Merging' /\ ClaimsHold'
    BY <2>1, <2>2 DEF IInv, NothingAhead, UpTo, At, Ending, Merging, Turn, ClaimsHold
  <2>5. Trees' /\ CommitsOnTarget' /\ Stored' /\ NothingLost' /\ OnTarget'
    BY <2>1, WorkKept
  <2> QED BY <2>3, <2>4, <2>5 DEF IInv
<1>2. CASE Next
  BY <1>2, StartRootHolds, CaptureHolds, LaunchHolds, LaunchFailsHolds, SettleHolds,
     HarvestHolds, AnswerHolds, IntegrateOneHolds, MergeHolds, SucceedHolds, JudgeHolds,
     RemoveHolds, DieHolds, OperateHolds DEF Next
<1> QED BY <1>1, <1>2

LEMMA Invariant == Spec => []IInv
BY InitHolds, StepHolds, PTL DEF Spec

-----------------------------------------------------------------------------
(* The results.                                                            *)

\* Every variable has its type, and a resident owns nothing that it does not
\* hold in memory (TypeOK).
THEOREM TypesHold == Spec => []TypeOK
<1>1. ASSUME IInv PROVE TypeOK
  <2>1. \A c \in Made :
          /\ clone[c].task \in Task /\ clone[c].by \in Root \cup {None}
          /\ clone[c].working \in BOOLEAN /\ clone[c].state \in {"present", "broken", "gone"}
          /\ clone[c].target \in Branch \cup {None} /\ clone[c].at \subseteq Contribution
          /\ clone[c].commits \subseteq Contribution
    BY <1>1, MadeFacts DEF IInv, CloneRecord, Tip
  <2>2. \A c \in Made : clone[c].tree \subseteq Own(c) /\ clone[c].commits \cap clone[c].tree = {}
    BY <1>1 DEF IInv, Trees
  <2>3. \A r \in Root : \A t \in owned[r] : mem[r][t] # 0
    BY <1>1 DEF IInv, Adopted
  <2> QED BY <1>1, <2>1, <2>2, <2>3 DEF IInv, Types, TypeOK, Tip
<1> QED BY Invariant, <1>1, PTL

\* A clone is removed only when all that its worker produced is on a branch
\* of the mother, whoever dies or moves the mother in between (NothingLost).
THEOREM NothingIsLost == Spec => []NothingLost
<1>1. IInv => NothingLost
  BY DEF IInv
<1> QED BY Invariant, <1>1, PTL

\* The work of a worker that no race moved is on the branch of its launch
\* only, whatever the operator checks out in the meantime (OnTarget).
THEOREM StaysOnTarget == Spec => []OnTarget
<1>1. IInv => OnTarget
  BY DEF IInv
<1> QED BY Invariant, <1>1, PTL

\* What integrate_subtasks is about to answer as merged cleanly is in the
\* branch of the launch, unless a race moved it (ClaimsHold).
THEOREM ClaimsAreTrue == Spec => []ClaimsHold
<1>1. IInv => ClaimsHold
  BY DEF IInv
<1> QED BY Invariant, <1>1, PTL

\* The newest clone of a task can be found on disk until its work is
\* integrated, unless the entry of an older one was put over it
\* (Recoverable).
THEOREM WorkIsRecoverable == Spec => []Recoverable
<1>1. IInv => Recoverable
  BY DEF IInv, Stored, Recoverable
<1> QED BY Invariant, <1>1, PTL
================================================================================
