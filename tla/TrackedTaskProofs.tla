--------------------------- MODULE TrackedTaskProofs ---------------------------
(***************************************************************************)
(* For every tracker, whatever its states and its map, and however many    *)
(* edits, failures, pulls and commands there are: a push moves an item     *)
(* only out of the state that varda knew, it leaves the status of the task *)
(* alone, and what the file says of the item is so when all is done.       *)
(*                                                                         *)
(* The argument for the last one: as long as nobody edits the item, it is  *)
(* in the state of the push that moved it last.  The record of that push   *)
(* is in the file, or on its way there; and a push that is not the last    *)
(* one finds, when it comes to write, that the file has a later revision   *)
(* than the one it began from (Covered), which leaves it unrecorded, or it *)
(* writes before the last one does.  So the revisions that are written     *)
(* down have to grow (Grows), which is what a race destroys.               *)
(***************************************************************************)
EXTENDS TrackedTask, TLAPS

\* What each variable is; the document in memory is there while it is used.
Types ==
  /\ backend \in Backend
  /\ item \in Item /\ file \in Doc
  /\ run \in {"idle", "begin", "working", "settling", "settled"}
  /\ doc \in Doc \cup {Gone} /\ (run \in {"begin", "working", "settling"} => doc \in Doc)
  /\ push \in [Pusher -> PushState] /\ desk \in DeskState
  /\ lock \in Pusher \cup {None}
  /\ events \in 0..MaxEvents[backend] /\ edits \in 0..MaxEdits
  /\ raced \in BOOLEAN /\ unrecorded \in BOOLEAN

\* The lock has one holder, and the runner does one thing at a time.
Locking ==
  /\ run \in {"idle", "begin", "settling"} => At("runner", "idle")
  /\ lock = "runner" <=> run = "settling" \/ At("runner", "save")
  /\ lock = "sync" <=> At("sync", "save")

\* What was read is not newer than the item, and the same revision is the
\* same state.
Seen(got) == got.rev <= item.rev /\ (got.rev = item.rev => got.state = item.state)

HasExt == {"comment", "refresh", "lock", "save"}

Revisions ==
  /\ file.ext.rev <= item.rev
  /\ doc # Gone => doc.ext.rev <= item.rev
  /\ \A a \in Pusher :
       /\ push[a].pc # "idle" => push[a].before.rev <= item.rev
       /\ push[a].pc \in {"move", "patch"} => Seen(push[a].got)
       /\ push[a].pc = "reread" => push[a].before.rev < item.rev
       /\ push[a].pc \in HasExt =>
            push[a].before.rev <= push[a].ext.rev /\ push[a].ext.rev <= item.rev
       /\ push[a].pc \in {"comment", "refresh"} => push[a].before.rev < push[a].ext.rev
  /\ desk.pc = "answer" => Seen(desk.got)
  /\ desk.pc = "write" => desk.read.ext.rev <= item.rev /\ desk.d.ext.rev <= item.rev

\* A push that is about to move the item was let through on what it read.
Decided ==
  \A a \in Pusher :
    /\ At(a, "patch") => backend = "github"
    /\ push[a].pc \in {"move", "patch"} =>
         /\ ~AlreadyDone(push[a].status, push[a].got.state)
         /\ ~OwnershipRefuses(push[a].before, push[a].status, push[a].got.state)

\* Without a race, what is read under the lock stays so until it is written,
\* and the revisions that the file records only grow.
Grows ==
  ~raced =>
    /\ \A a \in Pusher :
         /\ push[a].pc # "idle" => push[a].before.rev <= file.ext.rev
         /\ push[a].pc = "save" => push[a].fresh = file
    /\ run = "settling" => doc.ext = file.ext
    /\ desk.pc = "write" =>
         desk.read.ext.rev <= file.ext.rev /\ desk.read.ext.rev <= desk.d.ext.rev

\* What an external block says of the item is so.
Right(ext) ==
  /\ ext.known \in {item.state, None}
  /\ ext.synced # None => StatusMap[ext.synced] = item.state

\* A push that has changed the item, and has not recorded that yet.
HasLanded(a) ==
  \/ At(a, "reread")
  \/ push[a].pc \in HasExt /\ push[a].before.rev < push[a].ext.rev

Rev(a) == IF At(a, "reread") THEN item.rev ELSE push[a].ext.rev

Current(a) ==
  /\ HasLanded(a)
  /\ IF At(a, "reread") THEN StatusMap[push[a].status] = item.state ELSE Right(push[a].ext)

\* Revision n is out of date in the file, or will be.
Covered(n) == file.ext.rev > n \/ \E a \in Pusher : Current(a) /\ Rev(a) > n

Undisturbed == edits = 0 /\ ~raced /\ ~unrecorded

FileRight == Right(file.ext) \/ \E a \in Pusher : Current(a)

PushRight(a) ==
  /\ push[a].pc \in {"move", "patch"} =>
       push[a].got.state = item.state \/ Covered(push[a].before.rev)
  /\ HasLanded(a) => Current(a) \/ Covered(push[a].before.rev)
  /\ push[a].pc \in {"lock", "save"} /\ ~HasLanded(a) =>
       /\ push[a].ext.known = push[a].before.known
       /\ \/ push[a].ext.synced = push[a].before.synced
          \/ push[a].ext.synced # None /\ StatusMap[push[a].ext.synced] = item.state
          \/ Covered(push[a].before.rev)

\* A pull that is to be written is newer than what it read.
DeskRight ==
  /\ desk.pc = "answer" => desk.got.state = item.state \/ Covered(desk.got.rev)
  /\ desk.pc = "write" =>
       \/ desk.d.ext = desk.read.ext
       \/ /\ desk.d.ext.rev > desk.read.ext.rev
          /\ desk.d.ext.synced = desk.read.ext.synced
          /\ desk.d.ext.known = item.state \/ Covered(desk.read.ext.rev)

Bookkeeping == Undisturbed => FileRight /\ (\A a \in Pusher : PushRight(a)) /\ DeskRight

IInv ==
  /\ Types /\ Locking /\ Revisions /\ Decided /\ Grows /\ Bookkeeping

-----------------------------------------------------------------------------
(* Lemmas on the values, and on the steps of a push that write nothing.    *)

LEMMA PushFields ==
  ASSUME Types, NEW a \in Pusher
  PROVE  /\ push[a].pc \in {"idle", "get", "move", "patch", "reread", "comment", "refresh", "lock",
                            "save"}
         /\ push[a].pc = "idle" => push[a] = Idle
         /\ push[a].pc # "idle" => push[a].before \in External
         /\ push[a].pc \in {"get", "move", "patch", "reread"} => push[a].status \in Status
         /\ push[a].pc \in {"get", "move", "patch"} => push[a].tries \in 0..1
         /\ push[a].pc \in {"move", "patch"} => push[a].got \in Item
         /\ push[a].pc \in HasExt => push[a].ext \in External
         /\ push[a].pc = "save" => push[a].fresh \in Doc
<1>1. push[a] \in PushState
  BY DEF Types
<1> QED BY <1>1 DEF PushState, Idle, HasExt

LEMMA PushStates ==
  ASSUME NEW before \in External
  PROVE  /\ Idle \in PushState /\ Idle.pc = "idle"
         /\ \A status \in Status, tries \in 0..1 :
              [pc |-> "get", status |-> status, before |-> before, tries |-> tries] \in PushState
         /\ \A pc \in {"move", "patch"}, status \in Status, tries \in 0..1, got \in Item :
              [pc |-> pc, status |-> status, before |-> before, tries |-> tries, got |-> got]
                \in PushState
         /\ \A status \in Status : [pc |-> "reread", status |-> status, before |-> before] \in PushState
         /\ \A pc \in {"comment", "refresh", "lock"}, ext \in External :
              [pc |-> pc, before |-> before, ext |-> ext] \in PushState
         /\ \A ext \in External, fresh \in Doc :
              [pc |-> "save", before |-> before, ext |-> ext, fresh |-> fresh] \in PushState
BY DEF PushState, Idle

LEMMA DeskFields ==
  ASSUME Types
  PROVE  /\ desk.pc \in {"idle", "answer", "write"}
         /\ desk.pc = "answer" => desk.got \in Item
         /\ desk.pc = "write" => desk.read \in Doc /\ desk.d \in Doc
BY DEF Types, DeskState, Idle

LEMMA Values ==
  /\ \A d \in Doc : d.status \in Status /\ d.ext \in External
  /\ \A ext \in External :
       /\ ext.rev \in Nat /\ ext.known \in RemoteState \cup {None} /\ ext.synced \in Status \cup {None}
       /\ \A err \in {"none", "conflict", "failed"} :
            /\ Erring(ext, err) \in External
            /\ Erring(ext, err).rev = ext.rev /\ Erring(ext, err).known = ext.known
            /\ Erring(ext, err).synced = ext.synced
  /\ \A got \in Item : got.rev \in Nat /\ got.state \in RemoteState
  /\ \A status \in Status : StatusMap[status] \in RemoteState /\ status # None
  /\ None \notin RemoteState /\ None \notin Pusher
BY TrackedAssumption DEF Doc, External, Item, Erring

\* A push that is over writes its record if that changed.
Concluded(a, ext) ==
  IF ext = push[a].before THEN Idle
  ELSE [pc |-> "lock", before |-> push[a].before, ext |-> ext]

\* A push goes on to `state'; the document in memory may take what it knows.
Advances(a, state) ==
  /\ push[a].pc \notin {"idle", "save"} /\ state.pc # "save"
  /\ push' = [push EXCEPT ![a] = state] /\ state \in PushState
  /\ item' \in Item /\ (item' = item \/ item'.rev > item.rev)
  /\ \/ doc' = doc
     \/ a = "runner" /\ run = "settled" /\ doc' = Gone
     \/ \E ext \in External : /\ a = "runner" /\ run # "settled" /\ ext.rev <= item'.rev
                              /\ doc' = [doc EXCEPT !.ext = ext]
  /\ UNCHANGED <<backend, edits, file, lock, run, desk, raced>>
  /\ events' \in 0..MaxEvents[backend] /\ unrecorded' \in BOOLEAN

LEMMA ConcludeAdvances ==
  ASSUME IInv, NEW a \in Pusher, push[a].pc \notin {"idle", "save"},
         NEW ext \in External, Conclude(a, ext), ext.rev <= item'.rev,
         item' \in Item, item' = item \/ item'.rev > item.rev,
         UNCHANGED <<backend, edits, file, lock, run, desk, raced>>,
         events' \in 0..MaxEvents[backend], unrecorded' \in BOOLEAN
  PROVE  Advances(a, Concluded(a, ext))
<1>1. push' = [push EXCEPT ![a] = Concluded(a, ext)]
  BY DEF Conclude, Concluded
<1>2. Concluded(a, ext) \in PushState /\ Concluded(a, ext).pc # "save"
  <2>1. push[a].before \in External
    BY PushFields DEF IInv
  <2> QED BY <2>1, PushStates DEF Concluded
<1>3. \/ doc' = doc
      \/ a = "runner" /\ run = "settled" /\ doc' = Gone
      \/ a = "runner" /\ run # "settled" /\ doc' = [doc EXCEPT !.ext = ext]
  BY DEF Conclude
<1> QED BY <1>1, <1>2, <1>3 DEF Advances

LEMMA ContinueAdvances ==
  ASSUME IInv, NEW a \in Pusher, push[a].pc \notin {"idle", "save"},
         NEW state \in PushState, state.pc # "save", Continue(a, state),
         item' \in Item, item' = item \/ item'.rev > item.rev,
         UNCHANGED <<backend, edits, file, lock, run, desk, raced>>,
         events' \in 0..MaxEvents[backend], unrecorded' \in BOOLEAN
  PROVE  Advances(a, state)
BY DEF Continue, Advances

\* Such a step keeps the types and the lock; what it knows is not newer than
\* the item.
LEMMA AdvanceKeeps ==
  ASSUME IInv, NEW a \in Pusher, NEW state, Advances(a, state),
         state.pc # "idle" => state.before = push[a].before,
         state.pc \in {"move", "patch"} =>
           /\ state.got.rev <= item'.rev
           /\ state.got.rev = item'.rev => state.got.state = item'.state,
         state.pc = "reread" => state.before.rev < item'.rev,
         state.pc \in HasExt =>
           state.before.rev <= state.ext.rev /\ state.ext.rev <= item'.rev,
         state.pc \in {"comment", "refresh"} => state.before.rev < state.ext.rev,
         state.pc = "patch" => backend = "github",
         state.pc \in {"move", "patch"} =>
           /\ ~AlreadyDone(state.status, state.got.state)
           /\ ~OwnershipRefuses(state.before, state.status, state.got.state)
  PROVE  Types' /\ Locking' /\ Revisions' /\ Decided' /\ Grows'
<1>1. /\ push'[a] = state /\ \A b \in Pusher \ {a} : push'[b] = push[b]
      /\ push' \in [Pusher -> PushState]
  BY DEF IInv, Types, Advances
<1>2. item.rev <= item'.rev /\ (item' = item \/ item.rev < item'.rev) /\ item.rev \in Nat
      /\ item'.rev \in Nat
  BY DEF IInv, Types, Advances, Item
<1>3. doc' = doc \/ doc' = Gone \/ (doc \in Doc /\ doc' \in Doc /\ doc'.ext.rev <= item'.rev)
  <2>1. a = "runner" => run \in {"working", "settled"}
    BY DEF IInv, Types, Locking, Advances, At
  <2>2. doc' = doc \/ doc' = Gone \/ \E ext \in External :
          doc \in Doc /\ ext.rev <= item'.rev /\ doc' = [doc EXCEPT !.ext = ext]
    BY <2>1 DEF IInv, Types, Advances
  <2> QED BY <2>2 DEF Doc
<1>4. run \in {"begin", "working", "settling"} => doc' \in Doc
  <2>1. run \in {"begin", "working", "settling"} => doc \in Doc
    BY DEF IInv, Types
  <2>2. run \in {"begin", "working", "settling"} =>
          doc' = doc \/ \E ext \in External : doc' = [doc EXCEPT !.ext = ext]
    BY DEF Advances
  <2> QED BY <2>1, <2>2 DEF Doc
<1>5. Types'
  <2>1. doc' \in Doc \cup {Gone} /\ (run \in {"begin", "working", "settling"} => doc' \in Doc)
    BY <1>3, <1>4 DEF IInv, Types
  <2> QED BY <1>1, <2>1 DEF IInv, Types, Advances
<1>6. Locking'
  <2>1. a = "runner" => run \notin {"idle", "begin", "settling"}
    BY DEF IInv, Locking, Advances, At
  <2> QED BY <1>1, <2>1 DEF IInv, Locking, Advances, At, Pusher
<1>7. Revisions'
  <2>1. file'.ext.rev <= item'.rev /\ (doc' # Gone => doc'.ext.rev <= item'.rev)
    <3>1. file.ext.rev \in Nat /\ (doc # Gone => doc.ext.rev \in Nat)
      BY DEF IInv, Types, Doc, External
    <3> QED BY <1>2, <1>3, <3>1 DEF IInv, Revisions, Advances
  <2>2. ASSUME NEW b \in Pusher
        PROVE  (/\ push[b].pc # "idle" => push[b].before.rev <= item.rev
                /\ push[b].pc \in {"move", "patch"} => Seen(push[b].got)
                /\ push[b].pc = "reread" => push[b].before.rev < item.rev
                /\ push[b].pc \in HasExt =>
                     push[b].before.rev <= push[b].ext.rev /\ push[b].ext.rev <= item.rev
                /\ push[b].pc \in {"comment", "refresh"} => push[b].before.rev < push[b].ext.rev)'
    <3>1. push[b].pc # "idle" => push[b].before.rev \in Nat /\ push[b].before.rev <= item.rev
      BY PushFields, Values DEF IInv, Revisions
    <3>2. CASE b = a
      BY <3>1, <3>2, <1>1, <1>2 DEF Advances, Seen
    <3>3. CASE b # a
      <4>1. push[b].pc \in HasExt => push[b].ext.rev \in Nat /\ push[b].ext.rev <= item.rev
        BY PushFields, Values DEF IInv, Revisions
      <4>2. push[b].pc \in {"move", "patch"} =>
              push[b].got.rev \in Nat /\ Seen(push[b].got)
        BY PushFields, Values DEF IInv, Revisions
      <4>3. push[b].pc \in {"move", "patch"} => Seen(push[b].got)'
        BY <1>1, <1>2, <3>3, <4>2 DEF Seen
      <4>4. push'[b] = push[b]
        BY <1>1, <3>3
      <4> QED BY <1>2, <3>1, <4>1, <4>3, <4>4 DEF IInv, Revisions
    <3> QED BY <3>2, <3>3
  <2>3. /\ desk'.pc = "answer" => Seen(desk.got)'
        /\ desk'.pc = "write" => desk'.read.ext.rev <= item'.rev /\ desk'.d.ext.rev <= item'.rev
    <3>1. desk' = desk
      BY DEF Advances
    <3>2. /\ desk.pc = "answer" => desk.got.rev \in Nat /\ Seen(desk.got)
          /\ desk.pc = "write" => /\ desk.read.ext.rev \in Nat /\ desk.d.ext.rev \in Nat
                                  /\ desk.read.ext.rev <= item.rev /\ desk.d.ext.rev <= item.rev
      BY DeskFields, Values DEF IInv, Revisions
    <3> QED BY <1>2, <3>1, <3>2 DEF Seen
  <2> QED BY <2>1, <2>2, <2>3 DEF Revisions
<1>8. Decided'
  <2> SUFFICES ASSUME NEW b \in Pusher
               PROVE  (/\ At(b, "patch") => backend = "github"
                       /\ push[b].pc \in {"move", "patch"} =>
                            /\ ~AlreadyDone(push[b].status, push[b].got.state)
                            /\ ~OwnershipRefuses(push[b].before, push[b].status, push[b].got.state))'
    BY DEF Decided
  <2>1. CASE b = a
    BY <2>1, <1>1 DEF Advances, At
  <2>2. CASE b # a
    BY <2>2, <1>1 DEF IInv, Decided, Advances, At
  <2> QED BY <2>1, <2>2
<1>9. Grows'
  <2> SUFFICES ASSUME ~raced, NEW b \in Pusher
               PROVE  /\ push'[b].pc # "idle" => push'[b].before.rev <= file.ext.rev
                      /\ push'[b].pc = "save" => push'[b].fresh = file
                      /\ run = "settling" => doc'.ext = file.ext
                      /\ desk.pc = "write" =>
                           desk.read.ext.rev <= file.ext.rev /\ desk.read.ext.rev <= desk.d.ext.rev
    BY DEF Grows, Advances, Pusher
  <2>1. run = "settling" => doc' = doc
    BY DEF IInv, Locking, Advances, At
  <2>2. CASE b = a
    BY <2>1, <2>2, <1>1 DEF IInv, Grows, Advances
  <2>3. CASE b # a
    BY <2>1, <2>3, <1>1 DEF IInv, Grows
  <2> QED BY <2>2, <2>3
<1> QED BY <1>5, <1>6, <1>7, <1>8, <1>9

\* Who moves the item is current, and then everything older is covered; so a
\* push that writes nothing keeps the bookkeeping of the others.
LEMMA BookkeepingAdvances ==
  ASSUME IInv, NEW a \in Pusher, NEW state, push' = [push EXCEPT ![a] = state],
         item' \in Item, item' = item \/ item'.rev > item.rev,
         Undisturbed' => Undisturbed /\ file'.ext = file.ext, desk' = desk,
         Undisturbed' /\ item'.state # item.state => Current(a)' /\ Rev(a)' = item'.rev,
         Undisturbed' /\ Current(a) => Current(a)' /\ Rev(a)' \in Nat /\ Rev(a)' >= Rev(a),
         Undisturbed' /\ (\A n \in Nat : Covered(n) => Covered(n)') => PushRight(a)'
  PROVE  Bookkeeping'
<1> SUFFICES ASSUME Undisturbed'
             PROVE  (FileRight /\ (\A b \in Pusher : PushRight(b)) /\ DeskRight)'
  BY DEF Bookkeeping
<1>1. /\ push'[a] = state /\ \A b \in Pusher \ {a} : push'[b] = push[b]
      /\ desk' = desk /\ file'.ext = file.ext
  BY DEF IInv, Types
<1>2. FileRight /\ (\A b \in Pusher : PushRight(b)) /\ DeskRight
  BY DEF IInv, Bookkeeping
<1>3. item.rev \in Nat /\ item'.rev \in Nat /\ (item' = item \/ item.rev < item'.rev)
      /\ file.ext.rev \in Nat
  BY Values DEF IInv, Types
<1>4. item'.state = item.state =>
        \A b \in Pusher \ {a} : /\ HasLanded(b)' <=> HasLanded(b)
                                /\ Current(b)' <=> Current(b)
                                /\ Rev(b) = Rev(b)' \/ (Rev(b) = item.rev /\ Rev(b)' = item'.rev)
  BY <1>1 DEF HasLanded, Current, Right, Rev, At
<1>5. \A b \in Pusher : HasLanded(b) => Rev(b) \in Nat /\ Rev(b) <= item.rev
  <2> SUFFICES ASSUME NEW b \in Pusher, HasLanded(b) PROVE Rev(b) \in Nat /\ Rev(b) <= item.rev
    OBVIOUS
  <2>1. CASE At(b, "reread")
    BY <2>1, <1>3 DEF Rev
  <2>2. CASE ~At(b, "reread")
    <3>1. push[b].pc \in HasExt
      BY <2>2 DEF HasLanded
    <3>2. push[b].ext \in External /\ push[b].ext.rev <= item.rev
      BY <3>1, PushFields DEF IInv, Revisions
    <3> QED BY <2>2, <3>2, Values DEF Rev
  <2> QED BY <2>1, <2>2
<1>6. \A n \in Nat : n < item'.rev /\ item'.state # item.state => Covered(n)'
  BY DEF Covered
<1>7. ASSUME NEW n \in Nat, Covered(n) PROVE Covered(n)'
  <2>1. CASE file.ext.rev > n
    BY <2>1, <1>1 DEF Covered
  <2>2. CASE \E b \in Pusher : Current(b) /\ Rev(b) > n
    <3>1. PICK b \in Pusher : Current(b) /\ Rev(b) > n
      BY <2>2
    <3>2. Rev(b) \in Nat /\ Rev(b) <= item.rev
      BY <3>1, <1>5 DEF Current
    <3>3. CASE item'.state # item.state
      <4>1. n < item'.rev
        BY <3>1, <3>2, <1>3
      <4> QED BY <4>1, <3>3, <1>6
    <3>4. CASE item'.state = item.state /\ b # a
      <4>1. Current(b)' /\ (Rev(b) = Rev(b)' \/ (Rev(b) = item.rev /\ Rev(b)' = item'.rev))
        BY <3>1, <3>4, <1>4
      <4>2. Rev(b)' > n
        BY <4>1, <3>1, <3>2, <1>3
      <4> QED BY <4>1, <4>2 DEF Covered
    <3>5. CASE b = a
      <4>1. Current(b)' /\ Rev(b)' \in Nat /\ Rev(b)' >= Rev(b)
        BY <3>1, <3>5
      <4>2. Rev(b)' > n
        BY <4>1, <3>1, <3>2
      <4> QED BY <4>1, <4>2 DEF Covered
    <3> QED BY <3>3, <3>4, <3>5
  <2> QED BY <2>1, <2>2, <1>7 DEF Covered
<1>8. FileRight'
  <2>1. CASE item'.state # item.state
    BY <2>1 DEF FileRight
  <2>2. CASE item'.state = item.state /\ Right(file.ext)
    BY <2>2, <1>1 DEF FileRight, Right
  <2>3. CASE item'.state = item.state /\ \E b \in Pusher : Current(b)
    BY <2>3, <1>4 DEF FileRight
  <2> QED BY <2>1, <2>2, <2>3, <1>2 DEF FileRight
<1>9. ASSUME NEW b \in Pusher \ {a} PROVE PushRight(b)'
  <2>1. push'[b] = push[b] /\ (HasLanded(b)' <=> HasLanded(b))
    BY <1>1 DEF HasLanded, At
  <2>2. push[b].pc # "idle" => push[b].before.rev \in Nat /\ push[b].before.rev <= item.rev
    BY PushFields, Values DEF IInv, Revisions
  <2>3. HasLanded(b) => push[b].pc # "idle"
    BY DEF HasLanded, At, HasExt
  <2>4. CASE item'.state = item.state
    <3>1. Current(b)' <=> Current(b)
      BY <2>4, <1>4
    <3>2. push[b].pc # "idle" /\ Covered(push[b].before.rev) => Covered(push[b].before.rev)'
      BY <2>1, <2>2, <1>7 DEF Covered
    <3> QED BY <2>1, <2>3, <2>4, <3>1, <3>2, <1>2 DEF PushRight
  <2>5. CASE item'.state # item.state
    <3>1. push[b].pc # "idle" => push[b].before.rev < item'.rev
      BY <2>2, <2>5, <1>3
    <3>2. push[b].pc # "idle" => Covered(push[b].before.rev)'
      BY <2>1, <2>2, <2>5, <3>1, <1>6 DEF Covered
    <3> QED BY <2>1, <2>3, <3>2, <1>2 DEF PushRight
  <2> QED BY <2>4, <2>5
<1>10. PushRight(a)'
  BY <1>7
<1>11. DeskRight'
  <2>1. /\ desk.pc = "answer" => desk.got.rev \in Nat /\ desk.got.rev <= item.rev
        /\ desk.pc = "write" => desk.read.ext.rev \in Nat /\ desk.read.ext.rev <= item.rev
    BY DeskFields, Values DEF IInv, Revisions, Seen
  <2>2. CASE item'.state = item.state
    <3>1. /\ desk.pc = "answer" /\ Covered(desk.got.rev) => Covered(desk.got.rev)'
          /\ desk.pc = "write" /\ Covered(desk.read.ext.rev) => Covered(desk.read.ext.rev)'
      BY <2>1, <1>1, <1>7 DEF Covered
    <3> QED BY <2>2, <3>1, <1>1, <1>2 DEF DeskRight
  <2>3. CASE item'.state # item.state
    <3>1. /\ desk.pc = "answer" => desk.got.rev < item'.rev
          /\ desk.pc = "write" => desk.read.ext.rev < item'.rev
      BY <2>1, <2>3, <1>3
    <3>2. /\ desk.pc = "answer" => Covered(desk.got.rev)'
          /\ desk.pc = "write" => Covered(desk.read.ext.rev)'
      BY <2>1, <2>3, <3>1, <1>1, <1>6 DEF Covered
    <3> QED BY <3>2, <1>1, <1>2 DEF DeskRight
  <2> QED BY <2>2, <2>3
<1> QED BY <1>8, <1>9, <1>10, <1>11

-----------------------------------------------------------------------------
(* The inductive invariant: the steps of a push.                           *)

\* A push that ends without a change to the item, or unrecorded.
LEMMA NotLandedConcludes ==
  ASSUME IInv, NEW a \in Pusher, push[a].pc \notin {"idle", "save"},
         NEW ext \in External, Conclude(a, ext),
         ext.rev = push[a].before.rev, ext.known = push[a].before.known,
         \/ ext.synced = push[a].before.synced
         \/ ext.synced # None /\ StatusMap[ext.synced] = item.state,
         item' \in Item, item' = item \/ item'.rev > item.rev,
         UNCHANGED <<backend, edits, file, lock, run, desk, raced>>,
         events' \in 0..MaxEvents[backend],
         \/ unrecorded' = TRUE
         \/ /\ unrecorded' = unrecorded /\ item' = item
            /\ push[a].pc \in {"get", "move", "patch"}
  PROVE  IInv'
<1> DEFINE state == Concluded(a, ext)
<1>1. push[a].before \in External /\ push[a].before.rev \in Nat /\ item.rev \in Nat
      /\ item'.rev \in Nat /\ push[a].before.rev <= item.rev
  BY PushFields, Values DEF IInv, Types, Revisions
<1>2. ext.rev <= item'.rev
  BY <1>1
<1>3. Advances(a, state)
  BY <1>2, ConcludeAdvances DEF IInv, Types
<1>4. /\ state.pc \in {"idle", "lock"}
      /\ state.pc = "lock" => state.before = push[a].before /\ state.ext = ext
  BY DEF Concluded, Idle
<1> HIDE DEF state
<1>5. Types' /\ Locking' /\ Revisions' /\ Decided' /\ Grows'
  BY <1>1, <1>2, <1>3, <1>4, AdvanceKeeps DEF HasExt
<1>6. push'[a] = state /\ push' = [push EXCEPT ![a] = state]
  BY <1>3 DEF Advances, IInv, Types
<1>7. ~HasLanded(a)'
  BY <1>1, <1>4, <1>6 DEF HasLanded, At, HasExt
<1>8. Undisturbed' => Undisturbed /\ item' = item /\ push[a].pc \in {"get", "move", "patch"}
  BY DEF Undisturbed, IInv, Types
<1>9. Undisturbed' => ~Current(a)
  BY <1>8 DEF Current, HasLanded, At, HasExt
<1>10. Undisturbed' => PushRight(a)'
  BY <1>4, <1>6, <1>7, <1>8 DEF PushRight
<1>11. Bookkeeping'
  BY <1>6, <1>8, <1>9, <1>10, BookkeepingAdvances
<1> QED BY <1>5, <1>11 DEF IInv

\* A push that has changed the item keeps what it knows of that.
LEMMA LandedGoesOn ==
  ASSUME IInv, NEW a \in Pusher, NEW state, NEW ext \in External, Advances(a, state),
         state.pc \in {"comment", "refresh", "lock"}, state.before = push[a].before,
         state.ext = ext, ext.rev > push[a].before.rev, ext.rev <= item'.rev,
         unrecorded' = unrecorded,
         item'.state # item.state => ext.rev = item'.rev /\ Right(ext)',
         Current(a) => ext.rev >= Rev(a) /\ Right(ext)',
         Undisturbed /\ item'.state = item.state /\ ~Current(a) =>
           Right(ext)' \/ Covered(push[a].before.rev)
  PROVE  IInv'
<1>1. /\ push[a].before.rev \in Nat /\ ext.rev \in Nat /\ item.rev \in Nat /\ item'.rev \in Nat
      /\ push[a].pc # "idle"
  BY PushFields, Values DEF IInv, Types, Advances
<1>2. Types' /\ Locking' /\ Revisions' /\ Decided' /\ Grows'
  BY <1>1, AdvanceKeeps DEF HasExt
<1>3. push'[a] = state /\ push' = [push EXCEPT ![a] = state]
  BY DEF Advances, IInv, Types
<1>4. HasLanded(a)' /\ Rev(a)' = ext.rev /\ (Current(a)' <=> Right(ext)')
  BY <1>1, <1>3 DEF HasLanded, Rev, Current, Right, At, HasExt
<1>5. Undisturbed' => Undisturbed
  BY DEF Undisturbed, Advances
<1>6. ASSUME Undisturbed', \A n \in Nat : Covered(n) => Covered(n)' PROVE PushRight(a)'
  <2>1. Current(a)' \/ Covered(push[a].before.rev)'
    <3>1. CASE item'.state # item.state \/ Current(a)
      BY <3>1, <1>4
    <3>2. CASE item'.state = item.state /\ ~Current(a)
      <4>1. PICK n \in Nat : n = push[a].before.rev /\ n = push'[a].before.rev
        BY <1>1, <1>3
      <4>2. Right(ext)' \/ Covered(n)
        BY <3>2, <4>1, <1>5, <1>6 DEF Covered
      <4>3. Right(ext)' \/ Covered(n)'
        BY <4>2, <1>6
      <4> QED BY <4>1, <4>3, <1>4 DEF Covered
    <3> QED BY <3>1, <3>2
  <2> QED BY <1>3, <1>4, <2>1 DEF PushRight
<1>7. /\ item'.state # item.state => Current(a)' /\ Rev(a)' = item'.rev
      /\ Current(a) => Current(a)' /\ Rev(a)' \in Nat /\ Rev(a)' >= Rev(a)
  BY <1>1, <1>4
<1>8. /\ item' \in Item /\ (item' = item \/ item'.rev > item.rev) /\ desk' = desk
      /\ file' = file
  BY DEF Advances
<1>9. Bookkeeping'
  BY <1>3, <1>5, <1>6, <1>7, <1>8, BookkeepingAdvances
<1> QED BY <1>2, <1>9 DEF IInv

\* The record of a push that has changed the item is never what it began
\* from.
LEMMA LandedConcludes ==
  ASSUME IInv, NEW a \in Pusher, push[a].pc \notin {"idle", "save"},
         NEW ext \in External, Conclude(a, ext),
         ext.rev > push[a].before.rev, ext.rev <= item'.rev,
         item' \in Item, item' = item \/ item'.rev > item.rev,
         UNCHANGED <<backend, edits, file, lock, run, desk, raced>>,
         events' \in 0..MaxEvents[backend], unrecorded' = unrecorded,
         item'.state # item.state => ext.rev = item'.rev /\ Right(ext)',
         Current(a) => ext.rev >= Rev(a) /\ Right(ext)',
         Undisturbed /\ item'.state = item.state /\ ~Current(a) =>
           Right(ext)' \/ Covered(push[a].before.rev)
  PROVE  IInv'
<1> DEFINE state == Concluded(a, ext)
<1>1. push[a].before.rev \in Nat /\ ext.rev \in Nat
  BY PushFields, Values DEF IInv
<1>2. Advances(a, state)
  BY ConcludeAdvances DEF IInv, Types
<1>3. state.pc = "lock" /\ state.before = push[a].before /\ state.ext = ext
  <2>1. ext # push[a].before
    BY <1>1
  <2> QED BY <2>1 DEF Concluded
<1> HIDE DEF state
<1> QED BY <1>2, <1>3, LandedGoesOn

LEMMA GetProceedsHolds == ASSUME IInv, NEW a \in Pusher, GetProceeds(a) PROVE IInv'
<1> DEFINE state == [pc |-> "move", status |-> push[a].status, before |-> push[a].before,
                     tries |-> push[a].tries, got |-> item]
<1>1. /\ push[a].pc = "get"
      /\ ~AlreadyDone(push[a].status, item.state)
      /\ ~OwnershipRefuses(push[a].before, push[a].status, item.state)
      /\ Continue(a, state)
      /\ UNCHANGED <<backend, edits, file, lock, run, desk, raced, unrecorded, item, events>>
  BY DEF GetProceeds, At, OnlyPushes, Unwritten
<1>2. state \in PushState
  BY <1>1, PushFields, PushStates DEF IInv, Types
<1>3. Advances(a, state)
  BY <1>1, <1>2, ContinueAdvances DEF IInv, Types
<1>4. /\ state.pc = "move" /\ state.before = push[a].before /\ state.got = item
      /\ state.status = push[a].status
  OBVIOUS
<1> HIDE DEF state
<1>5. /\ state.got.rev <= item'.rev
      /\ state.got.rev = item'.rev => state.got.state = item'.state
  BY <1>1, <1>4, Values DEF IInv, Types
<1>6. Types' /\ Locking' /\ Revisions' /\ Decided' /\ Grows'
  BY <1>1, <1>3, <1>4, <1>5, AdvanceKeeps DEF HasExt
<1>7. push'[a] = state /\ push' = [push EXCEPT ![a] = state]
  BY <1>3 DEF Advances, IInv, Types
<1>8. ~Current(a) /\ (Undisturbed' => Undisturbed)
  BY <1>1 DEF Current, HasLanded, At, HasExt, Undisturbed
<1>9. PushRight(a)'
  BY <1>1, <1>4, <1>7 DEF PushRight, HasLanded, At, HasExt
<1>10. Bookkeeping'
  BY <1>1, <1>7, <1>8, <1>9, BookkeepingAdvances DEF IInv, Types
<1> QED BY <1>6, <1>10 DEF IInv

LEMMA GetConcludesHolds == ASSUME IInv, NEW a \in Pusher, GetConcludes(a) PROVE IInv'
<1>1. /\ push[a].pc = "get"
      /\ UNCHANGED <<backend, edits, file, lock, run, desk, raced, unrecorded, item, events>>
  BY DEF GetConcludes, At, OnlyPushes, Unwritten
<1>2. push[a].before \in External /\ push[a].status \in Status
  BY <1>1, PushFields DEF IInv
<1>3. PICK ext \in External :
        /\ Conclude(a, ext) /\ ext.rev = push[a].before.rev /\ ext.known = push[a].before.known
        /\ \/ ext.synced = push[a].before.synced
           \/ ext.synced # None /\ StatusMap[ext.synced] = item.state
  <2>1. CASE AlreadyDone(push[a].status, item.state)
    <3> DEFINE ext == [push[a].before EXCEPT !.synced = push[a].status, !.err = "none"]
    <3>1. Conclude(a, ext)
      BY <2>1 DEF GetConcludes
    <3>2. /\ ext \in External /\ ext.rev = push[a].before.rev /\ ext.known = push[a].before.known
          /\ ext.synced = push[a].status
      BY <1>2 DEF External
    <3>3. push[a].status # None /\ StatusMap[push[a].status] = item.state
      BY <1>2, <2>1, Values DEF AlreadyDone, IsDone
    <3> HIDE DEF ext
    <3> QED BY <3>1, <3>2, <3>3
  <2>2. CASE ~AlreadyDone(push[a].status, item.state)
    <3>1. Conclude(a, Erring(push[a].before, "conflict"))
      BY <2>2 DEF GetConcludes
    <3> QED BY <3>1, <1>2, Values
  <2> QED BY <2>1, <2>2
<1> QED BY <1>1, <1>3, NotLandedConcludes DEF IInv, Types

LEMMA MoveConflictsHolds == ASSUME IInv, NEW a \in Pusher, MoveConflicts(a) PROVE IInv'
<1> DEFINE state == [pc |-> "get", status |-> push[a].status, before |-> push[a].before, tries |-> 1]
<1>1. /\ push[a].pc = "move"
      /\ Continue(a, state) \/ Conclude(a, Erring(push[a].before, "conflict"))
      /\ UNCHANGED <<backend, edits, file, lock, run, desk, raced, unrecorded, item, events>>
  BY DEF MoveConflicts, At, OnlyPushes, Unwritten
<1>2. push[a].before \in External /\ push[a].status \in Status
  BY <1>1, PushFields DEF IInv
<1>3. CASE Conclude(a, Erring(push[a].before, "conflict"))
  <2>1. LET ext == Erring(push[a].before, "conflict")
        IN /\ ext \in External /\ ext.rev = push[a].before.rev
           /\ ext.known = push[a].before.known /\ ext.synced = push[a].before.synced
    BY <1>2, Values
  <2> QED BY <1>1, <1>3, <2>1, NotLandedConcludes DEF IInv, Types
<1>4. CASE Continue(a, state)
  <2>1. state \in PushState /\ state.pc = "get" /\ state.before = push[a].before
    <3>1. 1 \in 0..1
      OBVIOUS
    <3>2. \A tries \in 0..1 : [pc |-> "get", status |-> push[a].status, before |-> push[a].before,
                              tries |-> tries] \in PushState
      BY <1>2, PushStates
    <3> QED BY <3>1, <3>2
  <2> HIDE DEF state
  <2>2. Advances(a, state)
    BY <1>1, <1>4, <2>1, ContinueAdvances DEF IInv, Types
  <2>3. Types' /\ Locking' /\ Revisions' /\ Decided' /\ Grows'
    BY <2>1, <2>2, AdvanceKeeps DEF HasExt
  <2>4. push'[a] = state /\ push' = [push EXCEPT ![a] = state]
    BY <2>2 DEF Advances, IInv, Types
  <2>5. ~Current(a) /\ (Undisturbed' => Undisturbed)
    BY <1>1 DEF Current, HasLanded, At, HasExt, Undisturbed
  <2>6. PushRight(a)'
    BY <2>1, <2>4 DEF PushRight, HasLanded, At, HasExt
  <2>7. Bookkeeping'
    BY <1>1, <2>4, <2>5, <2>6, BookkeepingAdvances DEF IInv, Types
  <2> QED BY <2>3, <2>7 DEF IInv
<1> QED BY <1>1, <1>3, <1>4

\* What the answer of a transition says is right, or it has been overtaken.
LEMMA AnswerLands ==
  ASSUME IInv, NEW a \in Pusher, push[a].pc \in {"move", "reread"}, Landed(a, item'),
         item' \in Item, item' = item \/ item'.rev > item.rev,
         UNCHANGED <<backend, edits, file, lock, run, desk, raced, unrecorded, events>>,
         push[a].before.rev < item'.rev,
         push[a].pc = "move" => StatusMap[push[a].status] = item'.state,
         push[a].pc = "reread" => item' = item
  PROVE  IInv'
<1> DEFINE ext == [rev |-> item'.rev, known |-> item'.state, synced |-> push[a].status,
                   err |-> "none"]
           state == [pc |-> "comment", before |-> push[a].before, ext |-> ext]
<1>1. /\ push[a].before \in External /\ push[a].status \in Status
      /\ item'.rev \in Nat /\ item'.state \in RemoteState /\ item.rev \in Nat
  BY PushFields, Values DEF IInv, Types
<1>2. /\ ext \in External /\ ext.rev = item'.rev /\ ext.known = item'.state
      /\ ext.synced = push[a].status /\ push[a].status # None
  BY <1>1, Values DEF External
<1>3. Continue(a, state) \/ Conclude(a, ext)
  BY DEF Landed
<1>4. push[a].pc = "move" => ~Current(a)
  BY DEF Current, HasLanded, At, HasExt
<1> HIDE DEF ext
<1>5. PICK know \in External : know = ext
  BY <1>2
<1>6. StatusMap[push[a].status] = item'.state => Right(know)'
  BY <1>2, <1>5 DEF Right
<1>7. Current(a) => know.rev >= Rev(a) /\ Right(know)'
  BY <1>1, <1>2, <1>4, <1>5, <1>6 DEF Current, Rev, At
<1>8. item'.state # item.state => know.rev = item'.rev /\ Right(know)'
  BY <1>2, <1>5, <1>6
<1>9. Undisturbed /\ item'.state = item.state /\ ~Current(a) =>
        Right(know)' \/ Covered(push[a].before.rev)
  <2>1. CASE push[a].pc = "move"
    BY <2>1, <1>6
  <2>2. CASE push[a].pc = "reread"
    BY <2>2 DEF IInv, Bookkeeping, PushRight, HasLanded, At
  <2> QED BY <2>1, <2>2
<1>10. know.rev > push[a].before.rev /\ know.rev <= item'.rev
  <2>1. push[a].before.rev \in Nat
    BY <1>1, Values
  <2> QED BY <1>1, <1>2, <1>5, <2>1
<1>11. events \in 0..MaxEvents[backend] /\ unrecorded \in BOOLEAN
  BY DEF IInv, Types
<1>12. CASE Conclude(a, ext)
  <2>1. Conclude(a, know)
    BY <1>5, <1>12
  <2> QED BY <2>1, <1>7, <1>8, <1>9, <1>10, <1>11, LandedConcludes
<1>13. CASE Continue(a, state)
  <2>1. state \in PushState /\ state.pc = "comment" /\ state.before = push[a].before /\ state.ext = know
    BY <1>1, <1>5, PushStates
  <2> HIDE DEF state
  <2>2. Advances(a, state)
    BY <1>11, <1>13, <2>1, ContinueAdvances
  <2> QED BY <2>1, <2>2, <1>7, <1>8, <1>9, <1>10, LandedGoesOn
<1> QED BY <1>3, <1>12, <1>13

LEMMA MoveAtomicallyHolds == ASSUME IInv, NEW a \in Pusher, MoveAtomically(a) PROVE IInv'
<1>1. /\ push[a].pc = "move" /\ item' = Moved(a) /\ Landed(a, item')
      /\ UNCHANGED <<backend, edits, file, lock, run, desk, raced, unrecorded, events>>
  BY DEF MoveAtomically, At, OnlyPushes, Unwritten
<1>2. /\ push[a].before.rev \in Nat /\ push[a].before.rev <= item.rev /\ item.rev \in Nat
      /\ push[a].status \in Status /\ StatusMap[push[a].status] \in RemoteState
  BY <1>1, PushFields, Values DEF IInv, Types, Revisions
<1>3. /\ item' \in Item /\ item'.rev = item.rev + 1
      /\ item'.state = StatusMap[push[a].status]
  BY <1>1, <1>2 DEF Moved, Item
<1>4. item'.rev > item.rev /\ push[a].before.rev < item'.rev
  BY <1>2, <1>3
<1> QED BY <1>1, <1>3, <1>4, AnswerLands

LEMMA RereadHolds == ASSUME IInv, NEW a \in Pusher, Reread(a) PROVE IInv'
<1>1. /\ push[a].pc = "reread" /\ item' = item /\ Landed(a, item)
      /\ UNCHANGED <<backend, edits, file, lock, run, desk, raced, unrecorded, events>>
  BY DEF Reread, At, OnlyPushes, Unwritten
<1>2. push[a].before.rev < item.rev
  BY <1>1 DEF IInv, Revisions
<1>3. Landed(a, item')
  BY <1>1
<1> QED BY <1>1, <1>2, <1>3, AnswerLands DEF IInv, Types

LEMMA MoveComparesHolds == ASSUME IInv, NEW a \in Pusher, MoveCompares(a) PROVE IInv'
<1> DEFINE state == [push[a] EXCEPT !.pc = "patch"]
<1>1. /\ push[a].pc = "move" /\ backend = "github" /\ item.rev = push[a].got.rev
      /\ Continue(a, state)
      /\ UNCHANGED <<backend, edits, file, lock, run, desk, raced, unrecorded, item, events>>
  BY DEF MoveCompares, At, OnlyPushes, Unwritten
<1>2. /\ state \in PushState /\ state.pc = "patch" /\ state.before = push[a].before
      /\ state.got = push[a].got /\ state.status = push[a].status
  <2>1. push[a] \in PushState
    BY DEF IInv, Types
  <2> QED BY <1>1, <2>1 DEF PushState, Idle
<1> HIDE DEF state
<1>3. Advances(a, state)
  BY <1>1, <1>2, ContinueAdvances DEF IInv, Types
<1>4. /\ push[a].got.rev <= item'.rev
      /\ push[a].got.rev = item'.rev => push[a].got.state = item'.state
      /\ ~AlreadyDone(push[a].status, push[a].got.state)
      /\ ~OwnershipRefuses(push[a].before, push[a].status, push[a].got.state)
  BY <1>1 DEF IInv, Revisions, Seen, Decided
<1>5. Types' /\ Locking' /\ Revisions' /\ Decided' /\ Grows'
  BY <1>1, <1>2, <1>3, <1>4, AdvanceKeeps DEF HasExt
<1>6. push'[a] = state /\ push' = [push EXCEPT ![a] = state]
  BY <1>3 DEF Advances, IInv, Types
<1>7. ~Current(a) /\ (Undisturbed' => Undisturbed)
  BY <1>1 DEF Current, HasLanded, At, HasExt, Undisturbed
<1>8. PushRight(a)'
  BY <1>1, <1>2, <1>4, <1>6 DEF PushRight, HasLanded, At, HasExt
<1>9. Bookkeeping'
  BY <1>1, <1>6, <1>7, <1>8, BookkeepingAdvances DEF IInv, Types
<1> QED BY <1>5, <1>9 DEF IInv

\* When the state is not patched because it was the right one, it still is,
\* or the push has been overtaken.
LEMMA PatchHolds == ASSUME IInv, NEW a \in Pusher, Patch(a) PROVE IInv'
<1> DEFINE state == [pc |-> "reread", status |-> push[a].status, before |-> push[a].before]
<1>1. /\ push[a].pc = "patch"
      /\ item' = IF push[a].got.state = StatusMap[push[a].status]
                 THEN [item EXCEPT !.rev = @ + 1] ELSE Moved(a)
      /\ Continue(a, state)
      /\ UNCHANGED <<backend, edits, file, lock, run, desk, raced, unrecorded, events>>
  BY DEF Patch, At, OnlyPushes, Unwritten
<1>2. /\ push[a].before \in External /\ push[a].before.rev \in Nat
      /\ push[a].before.rev <= item.rev /\ item.rev \in Nat /\ item \in Item
      /\ push[a].status \in Status /\ StatusMap[push[a].status] \in RemoteState
  BY <1>1, PushFields, Values DEF IInv, Types, Revisions
<1>3. /\ item' \in Item /\ item'.rev = item.rev + 1
      /\ \/ item'.state = StatusMap[push[a].status]
         \/ item'.state = item.state /\ push[a].got.state = StatusMap[push[a].status]
  <2>1. CASE push[a].got.state = StatusMap[push[a].status]
    BY <1>1, <1>2, <2>1 DEF Item
  <2>2. CASE push[a].got.state # StatusMap[push[a].status]
    BY <1>1, <1>2, <2>2 DEF Item, Moved
  <2> QED BY <2>1, <2>2
<1>4. item'.rev > item.rev /\ push[a].before.rev < item'.rev
  BY <1>2, <1>3
<1>5. /\ state \in PushState /\ state.pc = "reread" /\ state.before = push[a].before
      /\ state.status = push[a].status
  BY <1>2, PushStates
<1> HIDE DEF state
<1>6. Advances(a, state)
  BY <1>1, <1>3, <1>4, <1>5, ContinueAdvances DEF IInv, Types
<1>7. Types' /\ Locking' /\ Revisions' /\ Decided' /\ Grows'
  BY <1>4, <1>5, <1>6, AdvanceKeeps DEF HasExt
<1>8. push'[a] = state /\ push' = [push EXCEPT ![a] = state]
  BY <1>6 DEF Advances, IInv, Types
<1>9. /\ HasLanded(a)' /\ Rev(a)' = item'.rev
      /\ Current(a)' <=> StatusMap[push[a].status] = item'.state
  BY <1>5, <1>8 DEF HasLanded, Rev, Current, At
<1>10. ~Current(a) /\ (Undisturbed' => Undisturbed)
  BY <1>1 DEF Current, HasLanded, At, HasExt, Undisturbed
<1>11. item'.state # item.state => Current(a)' /\ Rev(a)' = item'.rev
  BY <1>3, <1>9
<1>12. ASSUME Undisturbed', \A n \in Nat : Covered(n) => Covered(n)' PROVE PushRight(a)'
  <2>1. PICK n \in Nat : n = push[a].before.rev /\ n = push'[a].before.rev
    BY <1>2, <1>5, <1>8
  <2>2. push[a].got.state = item.state \/ Covered(n)
    BY <1>1, <1>10, <1>12, <2>1 DEF IInv, Bookkeeping, PushRight, Covered
  <2>3. Current(a)' \/ Covered(n)'
    BY <1>3, <1>9, <1>12, <2>2
  <2> QED BY <2>1, <2>3, <1>5, <1>8, <1>9 DEF PushRight, Covered
<1>13. Bookkeeping'
  BY <1>1, <1>3, <1>4, <1>8, <1>10, <1>11, <1>12, BookkeepingAdvances
<1> QED BY <1>7, <1>13 DEF IInv

LEMMA CommentHolds == ASSUME IInv, NEW a \in Pusher, Comment(a) PROVE IInv'
<1> DEFINE state == [push[a] EXCEPT !.pc = "refresh"]
<1>1. /\ push[a].pc = "comment" /\ item' = [item EXCEPT !.rev = @ + 1] /\ Continue(a, state)
      /\ UNCHANGED <<backend, edits, file, lock, run, desk, raced, unrecorded, events>>
  BY DEF Comment, At, OnlyPushes, Unwritten
<1>2. /\ item' \in Item /\ item'.rev = item.rev + 1 /\ item'.state = item.state /\ item.rev \in Nat
  BY <1>1, Values DEF IInv, Types, Item
<1>3. PICK ext \in External : /\ ext = push[a].ext /\ ext.rev \in Nat
                              /\ ext.rev > push[a].before.rev /\ ext.rev <= item.rev
  BY <1>1, PushFields, Values DEF IInv, Revisions, HasExt
<1>4. state \in PushState /\ state.pc = "refresh" /\ state.before = push[a].before /\ state.ext = ext
  <2>1. push[a] \in PushState
    BY DEF IInv, Types
  <2> QED BY <1>1, <1>3, <2>1 DEF PushState, Idle
<1> HIDE DEF state
<1>5. item'.rev > item.rev /\ ext.rev <= item'.rev
  BY <1>2, <1>3
<1>6. Advances(a, state)
  BY <1>1, <1>2, <1>4, <1>5, ContinueAdvances DEF IInv, Types
<1>7. HasLanded(a) /\ Rev(a) = ext.rev /\ (Current(a) <=> Right(ext)')
  BY <1>1, <1>2, <1>3 DEF HasLanded, Rev, Current, Right, At, HasExt
<1>8. Undisturbed /\ ~Current(a) => Covered(push[a].before.rev)
  BY <1>7 DEF IInv, Bookkeeping, PushRight
<1>9. Current(a) => ext.rev >= Rev(a) /\ Right(ext)'
  BY <1>3, <1>7
<1> QED BY <1>1, <1>2, <1>3, <1>4, <1>5, <1>6, <1>8, <1>9, LandedGoesOn

\* What a push at its comment or later records of the item is what it knows.
LEMMA RecordConcludes ==
  ASSUME IInv, NEW a \in Pusher, push[a].pc \in {"comment", "refresh"},
         NEW ext \in External, Conclude(a, ext),
         ext.known = push[a].ext.known, ext.synced = push[a].ext.synced,
         ext.rev \in {push[a].ext.rev, item.rev},
         UNCHANGED <<backend, edits, file, lock, run, desk, raced, item>>,
         events' \in 0..MaxEvents[backend], unrecorded' = unrecorded
  PROVE  IInv'
<1>1. /\ push[a].before.rev \in Nat /\ push[a].ext.rev \in Nat /\ item.rev \in Nat
      /\ push[a].before.rev < push[a].ext.rev /\ push[a].ext.rev <= item.rev
      /\ ext.rev \in Nat
  BY PushFields, Values DEF IInv, Types, Revisions, HasExt
<1>2. ext.rev > push[a].before.rev /\ ext.rev <= item'.rev /\ ext.rev >= push[a].ext.rev
  BY <1>1
<1>3. HasLanded(a) /\ Rev(a) = push[a].ext.rev /\ (Current(a) <=> Right(ext)')
  BY <1>1 DEF HasLanded, Rev, Current, Right, At, HasExt
<1>4. Undisturbed /\ ~Current(a) => Covered(push[a].before.rev)
  BY <1>3 DEF IInv, Bookkeeping, PushRight
<1>5. Current(a) => ext.rev >= Rev(a) /\ Right(ext)'
  BY <1>2, <1>3
<1>6. item' \in Item
  BY DEF IInv, Types
<1> QED BY <1>2, <1>4, <1>5, <1>6, LandedConcludes

LEMMA RefreshHolds == ASSUME IInv, NEW a \in Pusher, Refresh(a) PROVE IInv'
<1>1. /\ push[a].pc = "refresh" /\ Conclude(a, [push[a].ext EXCEPT !.rev = item.rev])
      /\ UNCHANGED <<backend, edits, file, lock, run, desk, raced, unrecorded, item, events>>
  BY DEF Refresh, At, OnlyPushes, Unwritten
<1>2. push[a].ext \in External /\ item.rev \in Nat
  BY <1>1, PushFields, Values DEF IInv, Types, HasExt
<1>3. PICK ext \in External : /\ Conclude(a, ext) /\ ext.rev = item.rev
                              /\ ext.known = push[a].ext.known /\ ext.synced = push[a].ext.synced
  BY <1>1, <1>2 DEF External
<1>4. events' \in 0..MaxEvents[backend]
  BY <1>1 DEF IInv, Types
<1> QED BY <1>1, <1>3, <1>4, RecordConcludes

LEMMA HappensCounts == ASSUME Types, Happens PROVE events' \in 0..MaxEvents[backend]
BY TrackedAssumption DEF Types, Happens

LEMMA RefreshFailsHolds == ASSUME IInv, NEW a \in Pusher, RefreshFails(a) PROVE IInv'
<1>1. /\ push[a].pc = "refresh" /\ Happens
      /\ \E err \in {"none", "failed"} : Conclude(a, Erring(push[a].ext, err))
      /\ UNCHANGED <<backend, edits, file, lock, run, desk, raced, unrecorded, item>>
  BY DEF RefreshFails, At, OnlyPushes, Unwritten
<1>2. PICK ext \in External : /\ Conclude(a, ext) /\ ext.rev = push[a].ext.rev
                              /\ ext.known = push[a].ext.known /\ ext.synced = push[a].ext.synced
  <2>1. push[a].ext \in External
    BY <1>1, PushFields DEF IInv, HasExt
  <2> QED BY <1>1, <2>1, Values
<1>3. events' \in 0..MaxEvents[backend]
  BY <1>1, HappensCounts DEF IInv
<1> QED BY <1>1, <1>2, <1>3, RecordConcludes

LEMMA RequestFailsHolds == ASSUME IInv, NEW a \in Pusher, RequestFails(a) PROVE IInv'
<1>1. /\ push[a].pc \in {"get", "move", "patch", "reread", "comment"} /\ Happens
      /\ Conclude(a, Erring(IF At(a, "comment") THEN push[a].ext ELSE push[a].before, "failed"))
      /\ unrecorded' = (unrecorded \/ At(a, "reread"))
      /\ UNCHANGED <<backend, edits, file, lock, run, desk, raced, item>>
  BY DEF RequestFails, Unwritten
<1>2. events' \in 0..MaxEvents[backend] /\ item' \in Item
  BY <1>1, HappensCounts DEF IInv, Types
<1>3. CASE At(a, "comment")
  <2>1. unrecorded' = unrecorded
    BY <1>1, <1>3 DEF At, IInv, Types
  <2>2. push[a].ext \in External
    BY <1>3, PushFields DEF IInv, HasExt, At
  <2>3. PICK ext \in External : /\ Conclude(a, ext) /\ ext.rev = push[a].ext.rev
                                /\ ext.known = push[a].ext.known /\ ext.synced = push[a].ext.synced
    BY <1>1, <1>3, <2>2, Values
  <2> QED BY <1>1, <1>2, <1>3, <2>1, <2>3, RecordConcludes DEF At
<1>4. CASE ~At(a, "comment")
  <2>1. push[a].before \in External
    BY <1>1, PushFields DEF IInv
  <2>2. PICK ext \in External : /\ Conclude(a, ext) /\ ext.rev = push[a].before.rev
                                /\ ext.known = push[a].before.known
                                /\ ext.synced = push[a].before.synced
    BY <1>1, <1>4, <2>1, Values
  <2>3. \/ unrecorded' = TRUE
        \/ unrecorded' = unrecorded /\ push[a].pc \in {"get", "move", "patch"}
    BY <1>1, <1>4 DEF At, IInv, Types
  <2> QED BY <1>1, <1>2, <2>2, <2>3, NotLandedConcludes
<1> QED BY <1>3, <1>4

LEMMA AnswerLostHolds == ASSUME IInv, NEW a \in Pusher, AnswerLost(a) PROVE IInv'
<1>1. /\ push[a].pc = "move" /\ Happens /\ item' = Moved(a) /\ unrecorded' = TRUE
      /\ Conclude(a, Erring(push[a].before, "failed"))
      /\ UNCHANGED <<backend, edits, file, lock, run, desk, raced>>
  BY DEF AnswerLost, At, Unwritten
<1>2. /\ push[a].before \in External /\ item.rev \in Nat
      /\ push[a].status \in Status /\ StatusMap[push[a].status] \in RemoteState
  BY <1>1, PushFields, Values DEF IInv, Types
<1>3. item' \in Item /\ item'.rev > item.rev
  BY <1>1, <1>2 DEF Moved, Item
<1>4. PICK ext \in External : /\ Conclude(a, ext) /\ ext.rev = push[a].before.rev
                              /\ ext.known = push[a].before.known
                              /\ ext.synced = push[a].before.synced
  BY <1>1, <1>2, Values
<1>5. events' \in 0..MaxEvents[backend]
  BY <1>1, HappensCounts DEF IInv
<1> QED BY <1>1, <1>3, <1>4, <1>5, NotLandedConcludes

-----------------------------------------------------------------------------
(* The writes of the file.                                                 *)

\* What is older than something out of date is out of date.
LEMMA CoveredOlder ==
  ASSUME IInv, NEW n \in Nat, NEW m \in Nat, m <= n, Covered(n) PROVE Covered(m)
<1>1. item.rev \in Nat /\ file.ext.rev \in Nat
  BY Values DEF IInv, Types
<1>2. ASSUME NEW b \in Pusher, Current(b) PROVE Rev(b) \in Nat
  <2>1. ~At(b, "reread") => push[b].ext.rev \in Nat
    BY <1>2, PushFields, Values DEF IInv, Current, HasLanded, At
  <2> QED BY <1>1, <2>1 DEF Rev
<1> QED BY <1>1, <1>2 DEF Covered

\* What is out of date stays so: the file takes later revisions only, and a
\* push that is over has written its own.
LEMMA CoveredStays ==
  ASSUME IInv, item' = item, file'.ext.rev \in Nat, file'.ext.rev >= file.ext.rev,
         NEW a \in Pusher, \A b \in Pusher \ {a} : push'[b] = push[b],
         Current(a) => push'[a] = push[a] \/ file'.ext.rev >= Rev(a)
  PROVE  /\ \A b \in Pusher \ {a} : Current(b)' <=> Current(b)
         /\ \A n \in Nat : Covered(n) => Covered(n)'
<1>1. \A b \in Pusher : push'[b] = push[b] => (Current(b)' <=> Current(b)) /\ Rev(b)' = Rev(b)
  BY DEF Current, HasLanded, Right, Rev, At
<1>2. file.ext.rev \in Nat /\ \A b \in Pusher : Current(b) => Rev(b) \in Nat
  <2>1. item.rev \in Nat /\ file.ext.rev \in Nat
    BY Values DEF IInv, Types
  <2>2. ASSUME NEW b \in Pusher, Current(b), ~At(b, "reread") PROVE push[b].ext.rev \in Nat
    BY <2>2, PushFields, Values DEF IInv, Current, HasLanded, At
  <2> QED BY <2>1, <2>2 DEF Rev
<1>3. ASSUME NEW n \in Nat, Covered(n) PROVE Covered(n)'
  <2>1. CASE file.ext.rev > n
    BY <2>1, <1>2 DEF Covered
  <2>2. CASE \E b \in Pusher : Current(b) /\ Rev(b) > n
    <3>1. PICK b \in Pusher : Current(b) /\ Rev(b) > n
      BY <2>2
    <3>2. CASE push'[b] = push[b]
      BY <3>1, <3>2, <1>1 DEF Covered
    <3>3. CASE push'[b] # push[b]
      <4>1. file'.ext.rev >= Rev(b) /\ Rev(b) \in Nat
        BY <3>1, <3>3, <1>2
      <4>2. file'.ext.rev > n
        BY <3>1, <4>1
      <4> QED BY <4>2 DEF Covered
    <3> QED BY <3>2, <3>3
  <2> QED BY <2>1, <2>2, <1>3 DEF Covered
<1> QED BY <1>1, <1>3

\* A step of nobody who pushes.
LEMMA BookkeepingStays ==
  ASSUME IInv, item' = item, push' = push,
         Undisturbed' => Undisturbed /\ file'.ext.rev \in Nat /\ file'.ext.rev >= file.ext.rev,
         /\ Undisturbed'
         /\ \A b \in Pusher : Current(b)' <=> Current(b)
         /\ \A n \in Nat : Covered(n) => Covered(n)'
         => (FileRight /\ DeskRight)'
  PROVE  Bookkeeping'
<1> SUFFICES ASSUME Undisturbed' PROVE (FileRight /\ (\A b \in Pusher : PushRight(b)) /\ DeskRight)'
  BY DEF Bookkeeping
<1>1. \A n \in Nat : Covered(n) => Covered(n)'
  BY CoveredStays DEF Pusher
<1>2. \A b \in Pusher : (Current(b)' <=> Current(b)) /\ (HasLanded(b)' <=> HasLanded(b))
  BY DEF Current, HasLanded, Right, At
<1>3. ASSUME NEW b \in Pusher PROVE PushRight(b)'
  <2>1. PushRight(b)
    BY DEF IInv, Bookkeeping
  <2>2. HasLanded(b) => push[b].pc # "idle"
    BY DEF HasLanded, At, HasExt
  <2>3. push[b].pc # "idle" /\ Covered(push[b].before.rev) => Covered(push[b].before.rev)'
    <3> SUFFICES ASSUME push[b].pc # "idle" PROVE Covered(push[b].before.rev) => Covered(push[b].before.rev)'
      OBVIOUS
    <3>1. PICK n \in Nat : n = push[b].before.rev /\ n = push'[b].before.rev
      BY PushFields, Values DEF IInv
    <3> QED BY <3>1, <1>1 DEF Covered
  <2> QED BY <1>2, <2>1, <2>2, <2>3 DEF PushRight
<1> QED BY <1>1, <1>2, <1>3

LEMMA MergeReadsHolds == ASSUME IInv, NEW a \in Pusher, MergeReads(a) PROVE IInv'
<1> DEFINE state == [pc |-> "save", before |-> push[a].before, ext |-> push[a].ext, fresh |-> file]
<1>1. /\ push[a].pc = "lock" /\ lock = None /\ lock' = a /\ push' = [push EXCEPT ![a] = state]
      /\ UNCHANGED <<backend, item, edits, file, run, doc, desk, events, raced, unrecorded>>
  BY DEF MergeReads, At, remote
<1>2. /\ state \in PushState /\ state.pc = "save" /\ state.before = push[a].before
      /\ state.ext = push[a].ext /\ state.fresh = file
  BY <1>1, PushFields, PushStates DEF IInv, Types, HasExt
<1> HIDE DEF state
<1>3. push'[a] = state /\ \A b \in Pusher \ {a} : push'[b] = push[b]
  BY <1>1 DEF IInv, Types
<1>4. Types'
  BY <1>1, <1>2 DEF IInv, Types
<1>5. Locking'
  <2>1. run # "settling" /\ (a = "runner" => run \notin {"idle", "begin"})
        /\ \A b \in Pusher : push[b].pc # "save"
    BY <1>1, Values DEF IInv, Locking, At, Pusher
  <2> QED BY <1>1, <1>2, <1>3, <2>1 DEF IInv, Locking, At, Pusher
<1>6. Revisions' /\ Decided'
  <2>1. ASSUME NEW b \in Pusher
        PROVE  (/\ push[b].pc # "idle" => push[b].before.rev <= item.rev
                /\ push[b].pc \in {"move", "patch"} => Seen(push[b].got)
                /\ push[b].pc = "reread" => push[b].before.rev < item.rev
                /\ push[b].pc \in HasExt =>
                     push[b].before.rev <= push[b].ext.rev /\ push[b].ext.rev <= item.rev
                /\ push[b].pc \in {"comment", "refresh"} => push[b].before.rev < push[b].ext.rev)'
    <3>1. CASE b = a
      BY <1>1, <1>2, <1>3, <3>1 DEF IInv, Revisions, HasExt
    <3>2. CASE b # a
      <4>1. push'[b] = push[b] /\ item' = item
        BY <1>1, <1>3, <3>2
      <4> QED BY <4>1 DEF IInv, Revisions, Seen
    <3> QED BY <3>1, <3>2
  <2>2. Revisions'
    BY <1>1, <2>1 DEF IInv, Revisions, Seen
  <2>3. ASSUME NEW b \in Pusher
        PROVE  (/\ At(b, "patch") => backend = "github"
                /\ push[b].pc \in {"move", "patch"} =>
                     /\ ~AlreadyDone(push[b].status, push[b].got.state)
                     /\ ~OwnershipRefuses(push[b].before, push[b].status, push[b].got.state))'
    <3>1. CASE b = a
      BY <1>2, <1>3, <3>1 DEF At
    <3>2. CASE b # a
      BY <1>1, <1>3, <3>2 DEF IInv, Decided, At
    <3> QED BY <3>1, <3>2
  <2> QED BY <2>2, <2>3 DEF Decided
<1>7. Grows'
  BY <1>1, <1>2, <1>3 DEF IInv, Grows
<1>8. (HasLanded(a)' <=> HasLanded(a)) /\ (Current(a)' <=> Current(a)) /\ Rev(a)' = Rev(a)
  BY <1>1, <1>2, <1>3 DEF HasLanded, Current, Right, Rev, At, HasExt
<1>9. Current(a) => Rev(a) \in Nat /\ Rev(a)' >= Rev(a)
  BY <1>1, <1>8, PushFields, Values DEF IInv, Rev, At, HasExt
<1>10. Undisturbed' => Undisturbed
  BY <1>1 DEF Undisturbed
<1>11. ASSUME Undisturbed', \A n \in Nat : Covered(n) => Covered(n)' PROVE PushRight(a)'
  <2>1. PICK n \in Nat : n = push[a].before.rev /\ n = push'[a].before.rev
    BY <1>1, <1>2, <1>3, PushFields, Values DEF IInv
  <2>2. Covered(push[a].before.rev) => Covered(push[a].before.rev)'
    BY <1>11, <2>1 DEF Covered
  <2> QED BY <1>1, <1>2, <1>3, <1>8, <1>10, <1>11, <2>2 DEF IInv, Bookkeeping, PushRight
<1>12. item' \in Item
  BY <1>1 DEF IInv, Types
<1>13. Bookkeeping'
  BY <1>1, <1>8, <1>9, <1>10, <1>11, <1>12, BookkeepingAdvances
<1> QED BY <1>4, <1>5, <1>6, <1>7, <1>13 DEF IInv

\* The record of a push replaces the one that it began from, and no other.
LEMMA MergeWritesHolds == ASSUME IInv, NEW a \in Pusher, MergeWrites(a) PROVE IInv'
<1>1. /\ push[a].pc = "save" /\ lock' = None /\ push' = [push EXCEPT ![a] = Idle]
      /\ \/ /\ push[a].fresh.ext = push[a].before /\ file' = Merged(push[a].fresh, push[a].ext)
            /\ unrecorded' = unrecorded
         \/ unrecorded' = TRUE /\ file' = file
      /\ UNCHANGED <<backend, item, edits, run, doc, desk, events, raced>>
  BY DEF MergeWrites, At, remote
<1>2. /\ push[a].before \in External /\ push[a].ext \in External /\ push[a].fresh \in Doc
      /\ push[a].before.rev \in Nat /\ push[a].ext.rev \in Nat
      /\ push[a].before.rev <= push[a].ext.rev /\ push[a].ext.rev <= item.rev
  BY <1>1, PushFields, Values DEF IInv, Revisions, HasExt
<1>3. push'[a] = Idle /\ push'[a].pc = "idle" /\ \A b \in Pusher \ {a} : push'[b] = push[b]
  BY <1>1 DEF IInv, Types, Idle
<1>4. \/ file' = file /\ unrecorded' = TRUE
      \/ /\ file' \in Doc /\ file'.ext = push[a].ext /\ push[a].fresh.ext = push[a].before
         /\ unrecorded' = unrecorded
  BY <1>1, <1>2 DEF Merged, Doc
<1>5. Types'
  <2>1. file' \in Doc
    BY <1>4 DEF IInv, Types
  <2>2. Idle \in PushState
    BY DEF PushState
  <2>3. unrecorded' \in BOOLEAN
    BY <1>4 DEF IInv, Types
  <2> QED BY <1>1, <2>1, <2>2, <2>3 DEF IInv, Types
<1>6. /\ run # "settling" /\ \A b \in Pusher \ {a} : push[b].pc # "save"
  BY <1>1 DEF IInv, Locking, At, Pusher
<1>7. Locking'
  BY <1>1, <1>3, <1>6, Values DEF IInv, Locking, At, Pusher
<1>8. Revisions' /\ Decided'
  <2>1. file'.ext.rev <= item'.rev
    BY <1>1, <1>2, <1>4 DEF IInv, Revisions
  <2>2. ASSUME NEW b \in Pusher
        PROVE  (/\ push[b].pc # "idle" => push[b].before.rev <= item.rev
                /\ push[b].pc \in {"move", "patch"} => Seen(push[b].got)
                /\ push[b].pc = "reread" => push[b].before.rev < item.rev
                /\ push[b].pc \in HasExt =>
                     push[b].before.rev <= push[b].ext.rev /\ push[b].ext.rev <= item.rev
                /\ push[b].pc \in {"comment", "refresh"} => push[b].before.rev < push[b].ext.rev)'
    <3>1. CASE b = a
      BY <1>3, <3>1 DEF HasExt
    <3>2. CASE b # a
      <4>1. push'[b] = push[b] /\ item' = item
        BY <1>1, <1>3, <3>2
      <4> QED BY <4>1 DEF IInv, Revisions, Seen
    <3> QED BY <3>1, <3>2
  <2>3. Revisions'
    BY <1>1, <2>1, <2>2 DEF IInv, Revisions, Seen
  <2>4. Decided'
    BY <1>1, <1>3 DEF IInv, Decided, At
  <2> QED BY <2>3, <2>4
<1>9. file.ext.rev \in Nat /\ file'.ext.rev \in Nat
      /\ \A b \in Pusher : push[b].pc # "idle" => push[b].before.rev \in Nat
  BY <1>5, PushFields, Values DEF IInv, Types
<1>10. ~raced => push[a].fresh = file
  BY <1>1 DEF IInv, Grows
<1>11. ~raced => file'.ext.rev >= file.ext.rev
  BY <1>2, <1>4, <1>9, <1>10
<1>12. Grows'
  <2> SUFFICES ASSUME ~raced, NEW b \in Pusher
               PROVE  (/\ push[b].pc # "idle" => push[b].before.rev <= file.ext.rev
                       /\ push[b].pc = "save" => push[b].fresh = file
                       /\ desk.pc = "write" =>
                            desk.read.ext.rev <= file.ext.rev /\ desk.read.ext.rev <= desk.d.ext.rev)'
    BY <1>1, <1>6 DEF Grows
  <2>1. (push[b].pc # "idle" => push[b].before.rev <= file.ext.rev)'
    BY <1>3, <1>9, <1>11 DEF IInv, Grows
  <2>2. (push[b].pc = "save" => push[b].fresh = file)'
    BY <1>3, <1>6
  <2>3. desk.pc = "write" => desk.read.ext.rev <= file'.ext.rev
                             /\ desk.read.ext.rev <= desk.d.ext.rev
    BY <1>9, <1>11, DeskFields, Values DEF IInv, Grows
  <2> QED BY <1>1, <2>1, <2>2, <2>3
<1>13. Bookkeeping'
  <2> SUFFICES ASSUME Undisturbed'
               PROVE  (FileRight /\ (\A b \in Pusher : PushRight(b)) /\ DeskRight)'
    BY DEF Bookkeeping
  <2>1. /\ file'.ext = push[a].ext /\ push[a].fresh = file /\ push[a].before = file.ext
        /\ Undisturbed
    BY <1>1, <1>4, <1>10 DEF Undisturbed
  <2>2. FileRight /\ (\A b \in Pusher : PushRight(b)) /\ DeskRight
    BY <2>1 DEF IInv, Bookkeeping
  <2>3. Rev(a) = file'.ext.rev
    BY <1>1, <2>1 DEF Rev, At
  <2>4. file'.ext.rev >= file.ext.rev /\ Undisturbed'
    BY <1>1, <1>11 DEF Undisturbed
  <2>5. /\ \A b \in Pusher \ {a} : Current(b)' <=> Current(b)
        /\ \A n \in Nat : Covered(n) => Covered(n)'
    BY <1>1, <1>3, <1>9, <2>3, <2>4, CoveredStays
  <2>6. FileRight'
    <3>1. CASE \E b \in Pusher \ {a} : Current(b)
      BY <3>1, <2>5 DEF FileRight
    <3>2. CASE ~\E b \in Pusher \ {a} : Current(b)
      <4>1. Current(a) => Right(file'.ext)
        BY <1>1, <2>1 DEF Current, At
      <4>2. Covered(push[a].before.rev) => Current(a)
        BY <1>9, <2>1, <3>2 DEF Covered
      <4>3. HasLanded(a) => Right(file'.ext)
        BY <2>2, <4>1, <4>2 DEF PushRight
      <4>4. ~HasLanded(a) => Right(file'.ext)
        <5>1. ~HasLanded(a) => ~Current(a)
          BY DEF Current
        <5>2. ~HasLanded(a) => Right(file.ext)
          BY <2>2, <3>2, <5>1 DEF FileRight
        <5>3. ~HasLanded(a) =>
                /\ push[a].ext.known = file.ext.known
                /\ \/ push[a].ext.synced = file.ext.synced
                   \/ push[a].ext.synced # None /\ StatusMap[push[a].ext.synced] = item.state
          BY <1>1, <2>1, <2>2, <4>2, <5>1 DEF PushRight
        <5> QED BY <2>1, <5>2, <5>3 DEF Right
      <4>5. Right(file'.ext) => Right(file.ext)'
        BY <1>1 DEF Right
      <4> QED BY <4>3, <4>4, <4>5 DEF FileRight
    <3> QED BY <3>1, <3>2
  <2>7. ASSUME NEW b \in Pusher PROVE PushRight(b)'
    <3>1. CASE b = a
      BY <1>3, <3>1 DEF PushRight, HasLanded, At, HasExt
    <3>2. CASE b # a
      <4>1. push'[b] = push[b] /\ (HasLanded(b)' <=> HasLanded(b)) /\ (Current(b)' <=> Current(b))
        BY <1>3, <2>5, <3>2 DEF HasLanded, At
      <4>2. HasLanded(b) => push[b].pc # "idle"
        BY DEF HasLanded, At, HasExt
      <4>3. push[b].pc # "idle" /\ Covered(push[b].before.rev) => Covered(push[b].before.rev)'
        BY <1>9, <2>5, <4>1 DEF Covered
      <4> QED BY <1>1, <2>2, <4>1, <4>2, <4>3 DEF PushRight
    <3> QED BY <3>1, <3>2
  <2>8. DeskRight'
    <3>1. /\ desk.pc = "answer" /\ Covered(desk.got.rev) => Covered(desk.got.rev)'
          /\ desk.pc = "write" /\ Covered(desk.read.ext.rev) => Covered(desk.read.ext.rev)'
      <4>1. /\ desk.pc = "answer" => desk.got.rev \in Nat
            /\ desk.pc = "write" => desk.read.ext.rev \in Nat
        BY DeskFields, Values DEF IInv
      <4> QED BY <1>1, <2>5, <4>1 DEF Covered
    <3> QED BY <1>1, <2>2, <3>1 DEF DeskRight
  <2> QED BY <2>6, <2>7, <2>8
<1> QED BY <1>5, <1>7, <1>8, <1>12, <1>13 DEF IInv

-----------------------------------------------------------------------------
(* The steps of the others.                                                *)

\* A push begins from what is in the file, or in the document that was
\* written to it.
LEMMA PushBegins ==
  ASSUME IInv, NEW a \in Pusher, push[a].pc = "idle",
         NEW d \in Doc, push' = [push EXCEPT ![a] = Begin(d)], d.ext.rev <= item.rev,
         UNCHANGED <<backend, item, desk>>,
         Undisturbed' => Undisturbed /\ file'.ext = file.ext
  PROVE  /\ push' \in [Pusher -> PushState]
         /\ push'[a].pc = "get" /\ push'[a].before = d.ext
         /\ \A b \in Pusher \ {a} : push'[b] = push[b]
         /\ file'.ext.rev <= item'.rev /\ (doc' # Gone => doc'.ext.rev <= item'.rev) => Revisions'
         /\ Decided' /\ Bookkeeping'
<1>1. /\ Begin(d) \in PushState /\ Begin(d).pc = "get" /\ Begin(d).before = d.ext
  <2>1. d.status \in Status /\ d.ext \in External /\ 0 \in 0..1
    BY Values
  <2> QED BY <2>1, PushStates DEF Begin
<1>2. push'[a] = Begin(d) /\ \A b \in Pusher \ {a} : push'[b] = push[b]
  BY DEF IInv, Types
<1>3. push' \in [Pusher -> PushState]
  BY <1>1 DEF IInv, Types
<1>4. ASSUME file'.ext.rev <= item'.rev, doc' # Gone => doc'.ext.rev <= item'.rev
      PROVE  Revisions'
  <2>1. ASSUME NEW b \in Pusher
        PROVE  (/\ push[b].pc # "idle" => push[b].before.rev <= item.rev
                /\ push[b].pc \in {"move", "patch"} => Seen(push[b].got)
                /\ push[b].pc = "reread" => push[b].before.rev < item.rev
                /\ push[b].pc \in HasExt =>
                     push[b].before.rev <= push[b].ext.rev /\ push[b].ext.rev <= item.rev
                /\ push[b].pc \in {"comment", "refresh"} => push[b].before.rev < push[b].ext.rev)'
    <3>1. CASE b = a
      BY <1>1, <1>2, <3>1 DEF HasExt
    <3>2. CASE b # a
      <4>1. push'[b] = push[b] /\ item' = item
        BY <1>2, <3>2
      <4> QED BY <4>1 DEF IInv, Revisions, Seen
    <3> QED BY <3>1, <3>2
  <2> QED BY <1>4, <2>1 DEF IInv, Revisions, Seen
<1>5. Decided'
  BY <1>1, <1>2 DEF IInv, Decided, At
<1>6. ~Current(a)
  BY DEF Current, HasLanded, At, HasExt
<1>7. PushRight(a)'
  BY <1>1, <1>2 DEF PushRight, HasLanded, At, HasExt
<1>8. Bookkeeping'
  BY <1>6, <1>7, BookkeepingAdvances DEF IInv, Types
<1> QED BY <1>1, <1>2, <1>3, <1>4, <1>5, <1>8

LEMMA SyncHolds == ASSUME IInv, Sync PROVE IInv'
<1> DEFINE a == "sync"
<1>1. /\ a \in Pusher /\ push[a].pc = "idle" /\ push' = [push EXCEPT ![a] = Begin(file)]
      /\ UNCHANGED <<backend, item, edits, file, lock, run, doc, desk, events, raced, unrecorded>>
  BY DEF Sync, At, remote, Pusher
<1> HIDE DEF a
<1>2. /\ push' \in [Pusher -> PushState] /\ Decided' /\ Bookkeeping' /\ Revisions'
      /\ push'[a].pc = "get" /\ push'[a].before = file.ext
      /\ \A b \in Pusher \ {a} : push'[b] = push[b]
  BY <1>1, PushBegins DEF IInv, Types, Revisions, Undisturbed
<1>3. Types'
  BY <1>1, <1>2 DEF IInv, Types
<1>4. Locking'
  BY <1>1, <1>2 DEF IInv, Locking, At, Pusher, a
<1>5. Grows'
  <2>1. file.ext.rev \in Nat
    BY Values DEF IInv, Types
  <2> QED BY <1>1, <1>2, <2>1 DEF IInv, Grows
<1> QED BY <1>2, <1>3, <1>4, <1>5 DEF IInv

LEMMA WriteRunningHolds == ASSUME IInv, WriteRunning PROVE IInv'
<1> DEFINE a == "runner"
<1>1. /\ a \in Pusher /\ run = "begin" /\ run' = "working"
      /\ doc' = [doc EXCEPT !.status = "running"] /\ push' = [push EXCEPT ![a] = Begin(doc')]
      /\ file' = doc' /\ raced' = (raced \/ file # doc \/ lock # None)
      /\ UNCHANGED <<backend, item, edits, lock, desk, events, unrecorded>>
  BY DEF WriteRunning, Overwrite, PushDoc, remote, Pusher
<1>2. push[a].pc = "idle" /\ lock # a
  BY <1>1 DEF IInv, Locking, At, Idle
<1>3. /\ doc \in Doc /\ doc # Gone /\ doc' \in Doc /\ doc'.ext = doc.ext /\ doc.ext.rev <= item.rev
      /\ doc.ext.rev \in Nat
  <2>1. doc \in Doc
    BY <1>1 DEF IInv, Types
  <2>2. doc' \in Doc /\ doc'.ext = doc.ext
    BY <1>1, <2>1 DEF Doc, Status
  <2>3. doc # Gone
    BY <2>1, Values DEF Gone
  <2> QED BY <2>1, <2>2, <2>3, Values DEF IInv, Revisions
<1>4. raced' \in BOOLEAN /\ (~raced' => ~raced /\ file = doc /\ lock = None)
  BY <1>1 DEF IInv, Types
<1> HIDE DEF a
<1>5. Undisturbed' => Undisturbed /\ file'.ext = file.ext
  BY <1>1, <1>3, <1>4 DEF Undisturbed
<1>6. /\ push' \in [Pusher -> PushState] /\ Decided' /\ Bookkeeping' /\ Revisions'
      /\ push'[a].pc = "get" /\ push'[a].before = doc'.ext
      /\ \A b \in Pusher \ {a} : push'[b] = push[b]
  BY <1>1, <1>2, <1>3, <1>5, PushBegins
<1>7. Types'
  BY <1>1, <1>3, <1>4, <1>6 DEF IInv, Types
<1>8. Locking'
  BY <1>1, <1>2, <1>6 DEF IInv, Locking, At, Pusher, a
<1>9. Grows'
  <2> SUFFICES ASSUME ~raced', NEW b \in Pusher
               PROVE  /\ push'[b].pc # "idle" => push'[b].before.rev <= file'.ext.rev
                      /\ push'[b].pc # "save"
                      /\ desk.pc = "write" =>
                           desk.read.ext.rev <= file'.ext.rev /\ desk.read.ext.rev <= desk.d.ext.rev
    BY <1>1 DEF Grows
  <2>1. file'.ext = file.ext
    BY <1>1, <1>3, <1>4
  <2>2. \A c \in Pusher : push[c].pc # "save"
    BY <1>4, Values DEF IInv, Locking, At, Pusher
  <2>3. CASE b = a
    BY <1>1, <1>3, <1>4, <1>6, <2>1, <2>3 DEF IInv, Grows
  <2>4. CASE b # a
    BY <1>4, <1>6, <2>1, <2>2, <2>4 DEF IInv, Grows
  <2> QED BY <2>3, <2>4
<1> QED BY <1>6, <1>7, <1>8, <1>9 DEF IInv

LEMMA SettleWritesHolds == ASSUME IInv, SettleWrites PROVE IInv'
<1> DEFINE a == "runner"
<1>1. /\ a \in Pusher /\ run = "settling" /\ run' = "settled" /\ lock' = None
      /\ doc' = doc /\ push' = [push EXCEPT ![a] = Begin(doc)] /\ file' = doc
      /\ UNCHANGED <<backend, item, edits, desk, events, raced, unrecorded>>
  BY DEF SettleWrites, PushDoc, remote, Pusher
<1>2. push[a].pc = "idle" /\ lock = a /\ \A b \in Pusher : push[b].pc # "save"
  BY <1>1 DEF IInv, Locking, At, Idle, Pusher
<1>3. doc \in Doc /\ doc # Gone /\ doc.ext.rev <= item.rev /\ doc.ext.rev \in Nat
  <2>1. doc \in Doc
    BY <1>1 DEF IInv, Types
  <2>2. doc # Gone
    BY <2>1, Values DEF Gone
  <2> QED BY <2>1, <2>2, Values DEF IInv, Revisions
<1>4. ~raced => doc.ext = file.ext
  BY <1>1 DEF IInv, Grows
<1> HIDE DEF a
<1>5. Undisturbed' => Undisturbed /\ file'.ext = file.ext
  BY <1>1, <1>4 DEF Undisturbed
<1>6. /\ push' \in [Pusher -> PushState] /\ Decided' /\ Bookkeeping' /\ Revisions'
      /\ push'[a].pc = "get" /\ push'[a].before = doc.ext
      /\ \A b \in Pusher \ {a} : push'[b] = push[b]
  BY <1>1, <1>2, <1>3, <1>5, PushBegins
<1>7. Types'
  BY <1>1, <1>3, <1>6 DEF IInv, Types
<1>8. Locking'
  BY <1>1, <1>2, <1>6, Values DEF IInv, Locking, At, Pusher, a
<1>9. Grows'
  BY <1>1, <1>2, <1>3, <1>4, <1>6 DEF IInv, Grows
<1> QED BY <1>6, <1>7, <1>8, <1>9 DEF IInv

\* A step of nobody who pushes leaves what the pushes know as old as it is.
LEMMA PushesStay ==
  ASSUME IInv, UNCHANGED <<push, backend>>, item' \in Item, item' = item \/ item'.rev > item.rev,
         file'.ext.rev <= item'.rev, doc' # Gone => doc'.ext.rev <= item'.rev,
         desk' = desk
         \/ /\ item' = item
            /\ desk'.pc = "answer" => desk'.got = item
            /\ desk'.pc = "write" => desk'.read.ext.rev <= item.rev /\ desk'.d.ext.rev <= item.rev
  PROVE  Revisions' /\ Decided'
<1>1. item.rev \in Nat /\ item'.rev \in Nat /\ item.rev <= item'.rev
      /\ (item' = item \/ item.rev < item'.rev)
  BY Values DEF IInv, Types
<1>2. \A got \in Item : Seen(got) => got.rev <= item'.rev
                                    /\ (got.rev = item'.rev => got.state = item'.state)
  BY <1>1, Values DEF Seen
<1>3. ASSUME NEW b \in Pusher
      PROVE  (/\ push[b].pc # "idle" => push[b].before.rev <= item.rev
              /\ push[b].pc \in {"move", "patch"} => Seen(push[b].got)
              /\ push[b].pc = "reread" => push[b].before.rev < item.rev
              /\ push[b].pc \in HasExt =>
                   push[b].before.rev <= push[b].ext.rev /\ push[b].ext.rev <= item.rev
              /\ push[b].pc \in {"comment", "refresh"} => push[b].before.rev < push[b].ext.rev)'
  <2>1. /\ push[b].pc # "idle" => push[b].before.rev \in Nat /\ push[b].before.rev <= item.rev
        /\ push[b].pc = "reread" => push[b].before.rev < item.rev
        /\ push[b].pc \in HasExt =>
             /\ push[b].ext.rev \in Nat
             /\ push[b].before.rev <= push[b].ext.rev /\ push[b].ext.rev <= item.rev
        /\ push[b].pc \in {"comment", "refresh"} => push[b].before.rev < push[b].ext.rev
    BY PushFields, Values DEF IInv, Revisions
  <2>2. push[b].pc \in {"move", "patch"} =>
          /\ push[b].got.rev <= item'.rev
          /\ push[b].got.rev = item'.rev => push[b].got.state = item'.state
    BY <1>2, PushFields DEF IInv, Revisions
  <2>3. push[b].pc = "reread" => push[b].before.rev < item'.rev
    BY <1>1, <2>1 DEF HasExt
  <2>4. push[b].pc # "idle" => push[b].before.rev <= item'.rev
    BY <1>1, <2>1
  <2>5. push[b].pc \in HasExt => push[b].ext.rev <= item'.rev
    BY <1>1, <2>1
  <2> QED BY <2>1, <2>2, <2>3, <2>4, <2>5 DEF Seen
<1>4. /\ desk'.pc = "answer" => Seen(desk.got)'
      /\ desk'.pc = "write" => desk'.read.ext.rev <= item'.rev /\ desk'.d.ext.rev <= item'.rev
  <2>1. CASE desk' = desk
    <3>1. /\ desk.pc = "answer" => desk.got.rev <= item'.rev
                                   /\ (desk.got.rev = item'.rev => desk.got.state = item'.state)
      BY <1>2, DeskFields DEF IInv, Revisions
    <3>2. desk.pc = "write" => /\ desk.read.ext.rev \in Nat /\ desk.d.ext.rev \in Nat
                               /\ desk.read.ext.rev <= item.rev /\ desk.d.ext.rev <= item.rev
      BY DeskFields, Values DEF IInv, Revisions
    <3>3. desk.pc = "write" => desk.read.ext.rev <= item'.rev /\ desk.d.ext.rev <= item'.rev
      BY <1>1, <3>2
    <3> QED BY <2>1, <3>1, <3>3 DEF Seen
  <2>2. CASE desk' # desk
    BY <1>1, <2>2 DEF Seen
  <2> QED BY <2>1, <2>2
<1>5. Revisions'
  BY <1>3, <1>4 DEF Revisions
<1> QED BY <1>5 DEF IInv, Decided, At

LEMMA EditHolds == ASSUME IInv, Edit PROVE IInv'
<1>1. /\ edits < MaxEdits /\ edits' = edits + 1
      /\ \E state \in RemoteState : item' = [state |-> state, rev |-> item.rev + 1]
      /\ UNCHANGED <<backend, file, lock, run, doc, push, desk, events, raced, unrecorded>>
  BY DEF Edit
<1>2. item.rev \in Nat /\ file.ext.rev \in Nat /\ (doc # Gone => doc.ext.rev \in Nat)
      /\ edits \in Nat /\ MaxEdits \in Nat
  BY TrackedAssumption, Values DEF IInv, Types, Gone
<1>3. item' \in Item /\ item'.rev > item.rev
  BY <1>1, <1>2 DEF Item
<1>4. file.ext.rev <= item'.rev /\ (doc # Gone => doc.ext.rev <= item'.rev)
  BY <1>2, <1>3, Values DEF IInv, Revisions
<1>5. Revisions' /\ Decided'
  BY <1>1, <1>3, <1>4, PushesStay
<1>6. Types'
  BY <1>1, <1>2, <1>3 DEF IInv, Types
<1>7. Locking' /\ Grows'
  BY <1>1 DEF IInv, Locking, Grows, At
<1>8. ~Undisturbed'
  BY <1>1, <1>2 DEF Undisturbed
<1> QED BY <1>5, <1>6, <1>7, <1>8 DEF IInv, Bookkeeping

\* A step that changes nothing that the file says of the item.
LEMMA BookkeepingSame ==
  ASSUME IInv, UNCHANGED <<item, push>>, Undisturbed' => Undisturbed /\ file'.ext = file.ext,
         \/ desk' = desk \/ desk' = Idle
         \/ desk'.pc = "answer" /\ desk'.got = item
         \/ desk'.pc = "write" /\ desk'.d.ext = desk'.read.ext
  PROVE  Bookkeeping'
<1>1. file.ext.rev \in Nat
  BY Values DEF IInv, Types
<1>2. ASSUME Undisturbed', \A b \in Pusher : Current(b)' <=> Current(b),
             \A n \in Nat : Covered(n) => Covered(n)'
      PROVE  FileRight' /\ DeskRight'
  <2>1. FileRight /\ DeskRight /\ file'.ext = file.ext
    BY <1>2 DEF IInv, Bookkeeping
  <2>2. FileRight'
    BY <1>2, <2>1 DEF FileRight, Right
  <2>3. CASE desk' = desk
    <3>1. /\ desk.pc = "answer" => desk.got.rev \in Nat
          /\ desk.pc = "write" => desk.read.ext.rev \in Nat
      BY DeskFields, Values DEF IInv
    <3>2. /\ desk.pc = "answer" /\ Covered(desk.got.rev) => Covered(desk.got.rev)'
          /\ desk.pc = "write" /\ Covered(desk.read.ext.rev) => Covered(desk.read.ext.rev)'
      BY <1>2, <2>3, <3>1 DEF Covered
    <3> QED BY <2>1, <2>2, <2>3, <3>2 DEF DeskRight
  <2>4. CASE desk' # desk
    BY <2>2, <2>4 DEF DeskRight, Idle
  <2> QED BY <2>3, <2>4
<1> QED BY <1>1, <1>2, BookkeepingStays

LEMMA LoadToRunHolds == ASSUME IInv, LoadToRun PROVE IInv'
<1>1. /\ run = "idle" /\ run' = "begin" /\ doc' = file
      /\ UNCHANGED <<backend, item, edits, file, lock, push, desk, events, raced, unrecorded>>
  BY DEF LoadToRun, remote
<1>2. Types'
  BY <1>1 DEF IInv, Types
<1>3. Revisions' /\ Decided'
  BY <1>1, PushesStay DEF IInv, Types, Revisions
<1>4. Locking' /\ Grows'
  BY <1>1 DEF IInv, Locking, Grows, At
<1>5. Bookkeeping'
  BY <1>1, BookkeepingSame DEF Undisturbed
<1> QED BY <1>2, <1>3, <1>4, <1>5 DEF IInv

LEMMA SettleReadsHolds == ASSUME IInv, SettleReads PROVE IInv'
<1>1. /\ run = "working" /\ push["runner"].pc = "idle" /\ lock = None
      /\ lock' = "runner" /\ run' = "settling"
      /\ \E verdict \in Verdict : doc' = [status |-> verdict, ext |-> file.ext]
      /\ UNCHANGED <<backend, item, edits, file, push, desk, events, raced, unrecorded>>
  BY DEF SettleReads, Free, At, Settled, remote
<1>2. doc' \in Doc /\ doc'.ext = file.ext
  <2>1. Verdict \subseteq Status /\ file.ext \in External
    BY TrackedAssumption, Values DEF IInv, Types, Status
  <2> QED BY <1>1, <2>1 DEF Doc
<1>3. Types'
  BY <1>1, <1>2 DEF IInv, Types, Pusher
<1>4. Revisions' /\ Decided'
  BY <1>1, <1>2, PushesStay DEF IInv, Types, Revisions
<1>5. Locking' /\ Grows'
  BY <1>1, <1>2, Values DEF IInv, Locking, Grows, At, Pusher
<1>6. Bookkeeping'
  BY <1>1, BookkeepingSame DEF Undisturbed
<1> QED BY <1>3, <1>4, <1>5, <1>6 DEF IInv

LEMMA HopHolds == ASSUME IInv, Hop PROVE IInv'
<1>1. /\ run = "working" /\ Happens
      /\ file' = doc /\ raced' = (raced \/ file # doc \/ lock # None)
      /\ UNCHANGED <<backend, item, edits, lock, run, doc, push, desk, unrecorded>>
  BY DEF Hop, Overwrite, remote
<1>2. doc \in Doc /\ doc # Gone
  <2>1. doc \in Doc
    BY <1>1 DEF IInv, Types
  <2> QED BY <2>1, Values DEF Gone
<1>3. events' \in 0..MaxEvents[backend]
  BY <1>1, HappensCounts DEF IInv
<1>4. raced' \in BOOLEAN /\ (~raced' => ~raced /\ file' = file)
  BY <1>1 DEF IInv, Types
<1>5. Types'
  BY <1>1, <1>2, <1>3, <1>4 DEF IInv, Types
<1>6. Revisions' /\ Decided'
  BY <1>1, <1>2, PushesStay DEF IInv, Types, Revisions
<1>7. Locking' /\ Grows'
  BY <1>1, <1>4 DEF IInv, Locking, Grows, At
<1>8. Bookkeeping'
  BY <1>1, <1>4, BookkeepingSame DEF Undisturbed
<1> QED BY <1>5, <1>6, <1>7, <1>8 DEF IInv

LEMMA QueryHolds == ASSUME IInv, Query PROVE IInv'
<1>1. /\ Happens /\ desk' = [pc |-> "answer", got |-> item]
      /\ UNCHANGED <<backend, item, edits, file, lock, run, doc, push, raced, unrecorded>>
  BY DEF Query, OnlyDesk, remote
<1>2. desk'.pc = "answer" /\ desk'.got = item /\ desk' \in DeskState
  BY <1>1 DEF IInv, Types, DeskState
<1>3. Types'
  BY <1>1, <1>2, HappensCounts DEF IInv, Types
<1>4. Revisions' /\ Decided'
  BY <1>1, <1>2, PushesStay DEF IInv, Types, Revisions
<1>5. Locking' /\ Grows'
  BY <1>1, <1>2 DEF IInv, Locking, Grows, At
<1>6. Bookkeeping'
  BY <1>1, <1>2, BookkeepingSame DEF Undisturbed
<1> QED BY <1>3, <1>4, <1>5, <1>6 DEF IInv

\* The answer is not older than what the file knows, unless it races.
LEMMA PullLoadsHolds == ASSUME IInv, PullLoads PROVE IInv'
<1>1. /\ desk.pc = "answer"
      /\ desk' = IF file.status = "running" \/ file.ext.rev = desk.got.rev THEN Idle
                 ELSE [pc |-> "write", read |-> file, d |-> Pulled(file, desk.got)]
      /\ raced' = (raced \/ (desk' # Idle /\ desk.got.rev < file.ext.rev))
      /\ UNCHANGED <<backend, item, edits, file, lock, run, doc, push, events, unrecorded>>
  BY DEF PullLoads, OnlyDesk, remote
<1>2. /\ desk.got \in Item /\ desk.got.rev \in Nat /\ desk.got.state \in RemoteState
      /\ desk.got.rev <= item.rev /\ file \in Doc /\ file.ext.rev \in Nat
      /\ file.ext.rev <= item.rev
  BY <1>1, DeskFields, Values DEF IInv, Types, Revisions, Seen
<1>3. LET d == Pulled(file, desk.got)
      IN /\ d \in Doc /\ d.ext.rev = desk.got.rev /\ d.ext.known = desk.got.state
         /\ d.ext.synced = file.ext.synced
  BY <1>2 DEF Pulled, Doc, External, Status
<1>4. raced' \in BOOLEAN
  BY <1>1 DEF IInv, Types
<1>5. CASE desk' = Idle
  <2>1. raced' = raced
    BY <1>1, <1>5 DEF IInv, Types
  <2>2. Types'
    BY <1>1, <1>5, <2>1 DEF IInv, Types, DeskState
  <2>3. Revisions' /\ Decided'
    BY <1>1, <1>5, PushesStay DEF IInv, Types, Revisions, Idle
  <2>4. Locking' /\ Grows'
    BY <1>1, <1>5, <2>1 DEF IInv, Locking, Grows, At, Idle
  <2>5. Bookkeeping'
    BY <1>1, <1>5, <2>1, BookkeepingSame DEF Undisturbed
  <2> QED BY <2>2, <2>3, <2>4, <2>5 DEF IInv
<1>6. CASE desk' # Idle
  <2>1. /\ desk'.pc = "write" /\ desk'.read = file /\ desk'.d = Pulled(file, desk.got)
        /\ file.ext.rev # desk.got.rev
    BY <1>1, <1>6
  <2>2. /\ desk'.d \in Doc /\ desk'.d.ext.rev = desk.got.rev /\ desk'.d.ext.known = desk.got.state
        /\ desk'.d.ext.synced = desk'.read.ext.synced
    BY <1>3, <2>1
  <2>3. desk' \in DeskState
    BY <1>1, <1>2, <1>3, <1>6 DEF DeskState
  <2>4. ~raced' => ~raced /\ desk.got.rev > file.ext.rev
    <3>1. ~raced' => ~raced /\ ~(desk.got.rev < file.ext.rev)
      BY <1>1, <1>6
    <3> QED BY <1>2, <2>1, <3>1
  <2>5. Types'
    BY <1>1, <1>4, <2>3 DEF IInv, Types
  <2>6. Revisions' /\ Decided'
    BY <1>1, <1>2, <2>1, <2>2, PushesStay DEF IInv, Types, Revisions
  <2>7. Locking'
    BY <1>1 DEF IInv, Locking, At
  <2>8. Grows'
    BY <1>1, <1>2, <2>1, <2>2, <2>4 DEF IInv, Grows
  <2>9. Bookkeeping'
    <3>1. Undisturbed' => Undisturbed
      BY <1>1, <2>4 DEF Undisturbed
    <3>2. ASSUME Undisturbed', \A b \in Pusher : Current(b)' <=> Current(b),
                 \A n \in Nat : Covered(n) => Covered(n)'
          PROVE  FileRight' /\ DeskRight'
      <4>1. FileRight /\ DeskRight
        BY <3>1, <3>2 DEF IInv, Bookkeeping
      <4>2. FileRight'
        BY <1>1, <3>2, <4>1 DEF FileRight, Right
      <4>3. desk.got.state = item.state \/ Covered(desk.got.rev)
        BY <1>1, <4>1 DEF DeskRight
      <4>4. desk.got.rev > file.ext.rev
        BY <2>4, <3>2 DEF Undisturbed
      <4>5. Covered(desk.got.rev) => Covered(file.ext.rev)
        BY <1>2, <4>4, CoveredOlder
      <4>6. Covered(file.ext.rev) => Covered(desk.read.ext.rev)'
        BY <1>1, <1>2, <2>1, <3>2 DEF Covered
      <4>7. DeskRight'
        BY <1>1, <2>1, <2>2, <4>3, <4>4, <4>5, <4>6 DEF DeskRight
      <4> QED BY <4>2, <4>7
    <3> QED BY <1>1, <1>2, <3>1, <3>2, BookkeepingStays
  <2> QED BY <2>5, <2>6, <2>7, <2>8, <2>9 DEF IInv
<1> QED BY <1>5, <1>6

LEMMA CommandLoadsHolds == ASSUME IInv, CommandLoads PROVE IInv'
<1>1. /\ Happens
      /\ \E status \in Settable :
           desk' = [pc |-> "write", read |-> file, d |-> [file EXCEPT !.status = status]]
      /\ UNCHANGED <<backend, item, edits, file, lock, run, doc, push, raced, unrecorded>>
  BY DEF CommandLoads, OnlyDesk, remote
<1>2. Settable \subseteq Status
  BY TrackedAssumption DEF Settable, Status
<1>3. file \in Doc /\ file.ext.rev \in Nat /\ file.ext.rev <= item.rev
  BY Values DEF IInv, Types, Revisions
<1>4. /\ desk'.pc = "write" /\ desk'.read = file /\ desk'.d \in Doc /\ desk'.d.ext = file.ext
      /\ desk' \in DeskState
  BY <1>1, <1>2, <1>3 DEF DeskState, Doc
<1>5. Types'
  BY <1>1, <1>4, HappensCounts DEF IInv, Types
<1>6. Revisions' /\ Decided'
  BY <1>1, <1>3, <1>4, PushesStay DEF IInv, Types, Revisions
<1>7. Locking' /\ Grows'
  BY <1>1, <1>3, <1>4 DEF IInv, Locking, Grows, At
<1>8. Bookkeeping'
  BY <1>1, <1>4, BookkeepingSame DEF Undisturbed
<1> QED BY <1>5, <1>6, <1>7, <1>8 DEF IInv

\* A pull is written over what it read, if nothing raced it: then what it
\* says is right, or a push that will say so is on its way.
LEMMA DeskWritesHolds == ASSUME IInv, DeskWrites PROVE IInv'
<1>1. /\ desk.pc = "write" /\ desk' = Idle /\ desk'.pc = "idle" /\ file' = desk.d
      /\ raced' = (raced \/ file # desk.read \/ lock # None)
      /\ UNCHANGED <<backend, item, edits, lock, run, doc, push, events, unrecorded>>
  BY DEF DeskWrites, OnlyDesk, Overwrite, remote, Idle
<1>2. /\ desk.d \in Doc /\ desk.read \in Doc /\ desk.d.ext.rev \in Nat /\ desk.read.ext.rev \in Nat
      /\ file.ext.rev \in Nat /\ desk.d.ext.rev <= item.rev
  BY <1>1, DeskFields, Values DEF IInv, Types, Revisions
<1>3. raced' \in BOOLEAN /\ (~raced' => ~raced /\ desk.read = file /\ lock = None)
  BY <1>1 DEF IInv, Types
<1>4. Types'
  BY <1>1, <1>2, <1>3 DEF IInv, Types, DeskState
<1>5. Revisions' /\ Decided'
  BY <1>1, <1>2, PushesStay DEF IInv, Types, Revisions
<1>6. Locking'
  BY <1>1 DEF IInv, Locking, At
<1>7. ~raced' => file'.ext.rev >= file.ext.rev
  BY <1>1, <1>2, <1>3 DEF IInv, Grows
<1>8. Grows'
  <2> SUFFICES ASSUME ~raced', NEW b \in Pusher
               PROVE  /\ push[b].pc # "idle" => push[b].before.rev <= file'.ext.rev
                      /\ push[b].pc # "save" /\ run # "settling"
    BY <1>1 DEF Grows, Pusher
  <2>1. push[b].pc # "save" /\ run # "settling"
    BY <1>3, Values DEF IInv, Locking, At, Pusher
  <2>2. push[b].pc # "idle" => push[b].before.rev \in Nat /\ push[b].before.rev <= file.ext.rev
    BY <1>3, PushFields, Values DEF IInv, Grows
  <2>3. push[b].pc # "idle" => push[b].before.rev <= file'.ext.rev
    BY <1>1, <1>2, <1>7, <2>2
  <2> QED BY <2>1, <2>3
<1>9. Bookkeeping'
  <2>1. Undisturbed' => Undisturbed /\ file'.ext.rev \in Nat /\ file'.ext.rev >= file.ext.rev
    BY <1>1, <1>2, <1>3, <1>7 DEF Undisturbed
  <2>2. ASSUME Undisturbed', \A b \in Pusher : Current(b)' <=> Current(b)
        PROVE  FileRight' /\ DeskRight'
    <3>1. FileRight /\ DeskRight /\ desk.read = file
      BY <1>3, <2>1, <2>2 DEF IInv, Bookkeeping, Undisturbed
    <3>2. CASE \E b \in Pusher : Current(b)
      BY <1>1, <2>2, <3>2 DEF FileRight, DeskRight
    <3>3. CASE ~\E b \in Pusher : Current(b)
      <4>1. Right(file.ext) /\ ~Covered(file.ext.rev)
        BY <1>2, <3>1, <3>3 DEF FileRight, Covered
      <4>2. Right(desk.d.ext)
        BY <1>1, <3>1, <4>1 DEF DeskRight, Right
      <4> QED BY <1>1, <4>2 DEF FileRight, DeskRight, Right
    <3> QED BY <3>2, <3>3
  <2> QED BY <1>1, <2>1, <2>2, BookkeepingStays
<1> QED BY <1>4, <1>5, <1>6, <1>8, <1>9 DEF IInv

-----------------------------------------------------------------------------
(* The inductive invariant.                                                *)

LEMMA InitHolds == Init => IInv
<1> SUFFICES ASSUME Init PROVE IInv
  OBVIOUS
<1>1. /\ backend \in Backend /\ item = [state |-> StatusMap["ready"], rev |-> 1]
      /\ lock = None /\ run = "idle" /\ doc = Gone
      /\ push = [a \in Pusher |-> Idle] /\ desk = Idle
      /\ events = 0 /\ edits = 0 /\ raced = FALSE /\ unrecorded = FALSE
  BY DEF Init
<1>2. /\ item \in Item /\ item.state = StatusMap["ready"] /\ item.rev = 1
      /\ "ready" \in Status /\ "ready" # None
  BY <1>1, Values DEF Item, Status
<1>3. PICK known \in {None, item.state} :
        file = [status |-> "ready",
                ext |-> [rev |-> 1, known |-> known, synced |-> "ready", err |-> "none"]]
  BY DEF Init
<1>4. /\ file \in Doc /\ file.ext.rev = 1 /\ file.ext.known = known /\ file.ext.synced = "ready"
  <2>1. known \in RemoteState \cup {None}
    BY <1>2, Values
  <2>2. file.ext \in External
    BY <1>2, <1>3, <2>1 DEF External
  <2> QED BY <1>2, <1>3, <2>2 DEF Doc
<1>5. \A a \in Pusher : push[a] = Idle /\ push[a].pc = "idle"
  BY <1>1 DEF Idle
<1>6. Types
  <2>1. 0 \in 0..MaxEvents[backend] /\ 0 \in 0..MaxEdits
    BY <1>1, TrackedAssumption
  <2> QED BY <1>1, <1>2, <1>4, <2>1 DEF Types, PushState, DeskState
<1>7. Locking /\ Decided /\ Grows
  BY <1>1, <1>5, Values DEF Locking, Decided, Grows, At, Idle, Pusher
<1>8. Revisions
  BY <1>1, <1>2, <1>4, <1>5 DEF Revisions, HasExt, Idle
<1>9. Bookkeeping
  BY <1>1, <1>2, <1>3, <1>4, <1>5
     DEF Bookkeeping, FileRight, PushRight, DeskRight, Right, HasLanded, HasExt, At, Idle
<1> QED BY <1>6, <1>7, <1>8, <1>9 DEF IInv

LEMMA StutterHolds == ASSUME IInv, UNCHANGED vars PROVE IInv'
<1>1. UNCHANGED <<backend, item, edits, file, lock, run, doc, push, desk, events, raced, unrecorded>>
  BY DEF vars, remote
<1> QED BY <1>1 DEF IInv, Types, Locking, Revisions, Decided, Grows, Bookkeeping, Undisturbed,
                    FileRight, PushRight, DeskRight, Covered, Current, HasLanded, Rev, Right, Seen, At

LEMMA StepHolds == IInv /\ [Next]_vars => IInv'
<1> SUFFICES ASSUME IInv, [Next]_vars PROVE IInv'
  OBVIOUS
<1>1. CASE Edit BY <1>1, EditHolds
<1>2. ASSUME NEW a \in Pusher, Pushing(a) PROVE IInv'
  BY <1>2, GetProceedsHolds, GetConcludesHolds, MoveConflictsHolds, MoveAtomicallyHolds,
     MoveComparesHolds, PatchHolds, RereadHolds, CommentHolds, RefreshHolds, MergeReadsHolds,
     MergeWritesHolds DEF Pushing
<1>3. ASSUME NEW a \in Pusher, Faulty(a) PROVE IInv'
  BY <1>3, RequestFailsHolds, AnswerLostHolds, RefreshFailsHolds DEF Faulty
<1>4. CASE Sync BY <1>4, SyncHolds
<1>5. CASE RunStep
  BY <1>5, LoadToRunHolds, WriteRunningHolds, SettleReadsHolds, SettleWritesHolds DEF RunStep
<1>6. CASE Hop BY <1>6, HopHolds
<1>7. CASE Query BY <1>7, QueryHolds
<1>8. CASE PullLoads BY <1>8, PullLoadsHolds
<1>9. CASE CommandLoads BY <1>9, CommandLoadsHolds
<1>10. CASE DeskWrites BY <1>10, DeskWritesHolds
<1>11. CASE UNCHANGED vars BY <1>11, StutterHolds
<1> QED BY <1>1, <1>2, <1>3, <1>4, <1>5, <1>6, <1>7, <1>8, <1>9, <1>10, <1>11 DEF Next

THEOREM Invariant == Spec => []IInv
<1> QED BY InitHolds, StepHolds, PTL DEF Spec

-----------------------------------------------------------------------------
(* The theorems.                                                           *)

\* The types, and the lock is held by whoever is between its two steps: one
\* of the runner's settling, the runner's push and the push of a sync.
THEOREM TypesHold == Spec => []TypeOK
<1>1. IInv => TypeOK
  <2> SUFFICES ASSUME IInv PROVE TypeOK
    OBVIOUS
  <2>1. lock = IF run = "settling" \/ At("runner", "save") THEN "runner"
               ELSE IF At("sync", "save") THEN "sync" ELSE None
    BY DEF IInv, Types, Locking, Pusher
  <2> QED BY <2>1 DEF IInv, Types, TypeOK
<1> QED BY <1>1, Invariant, PTL

\* What the file says of the item is so once everything is done, if nobody
\* edited the item, no write undid an unread one and no push went unrecorded.
THEOREM BookkeepingIsTrue == Spec => []BookkeepingTrue
<1>1. IInv => BookkeepingTrue
  <2> SUFFICES ASSUME IInv, Quiet, Undisturbed
               PROVE  /\ file.ext.known \in {item.state, None}
                      /\ ~NeedsSync(file) => item.state = StatusMap[file.status]
    BY DEF BookkeepingTrue, Undisturbed
  <2>1. \A a \in Pusher : ~Current(a)
    BY DEF Quiet, Current, HasLanded, HasExt, At, Idle
  <2>2. Right(file.ext)
    BY <2>1 DEF IInv, Bookkeeping, FileRight
  <2>3. file.status \in Status /\ file.status # None
    BY Values DEF IInv, Types
  <2> QED BY <2>2, <2>3 DEF Right, NeedsSync
<1> QED BY <1>1, Invariant, PTL

\* Only a push moves the item, and it does so out of the state that varda
\* knew: what was read is the item still when the revision is, and then the
\* check of who owns it holds of the item too.
LEMMA MoveIsOwned ==
  ASSUME IInv, NEW a \in Pusher, push[a].pc = "move", item.rev = push[a].got.rev, item' = Moved(a)
  PROVE  /\ Closed(item.state) => Closed(item'.state)
         /\ Baseline(push[a].before) \in {None, item.state}
<1>1. push[a].got.state = item.state
  BY DEF IInv, Revisions, Seen
<1>2. ~OwnershipRefuses(push[a].before, push[a].status, item.state)
  BY <1>1 DEF IInv, Decided
<1>3. push[a].status = "done" => Closed(item'.state)
  BY TrackedAssumption DEF Moved, Closed
<1> QED BY <1>2, <1>3 DEF OwnershipRefuses

\* Whatever people do between two requests, on a backend that compares and
\* sets a push neither undoes it nor opens a closed item.
THEOREM PeopleStand == Spec => HumanStands
<1>1. IInv /\ [Next]_vars =>
        [backend = "azdo" /\ item'.state # item.state /\ ~Edit =>
           /\ Closed(item.state) => Closed(item'.state)
           /\ \E a \in Pusher : At(a, "move") /\ Baseline(push[a].before) \in {None, item.state}]_vars
  <2> SUFFICES ASSUME IInv, Next, backend = "azdo", item'.state # item.state, ~Edit
               PROVE  /\ Closed(item.state) => Closed(item'.state)
                      /\ \E a \in Pusher :
                           At(a, "move") /\ Baseline(push[a].before) \in {None, item.state}
    BY DEF vars, remote
  <2>1. PICK a \in Pusher : MoveAtomically(a) \/ AnswerLost(a) \/ Patch(a) \/ Comment(a)
    BY DEF Next, Pushing, Faulty, RunStep, GetProceeds, GetConcludes, MoveConflicts, MoveCompares,
           Reread, Refresh, MergeReads, MergeWrites, RequestFails, RefreshFails, Sync, LoadToRun,
           WriteRunning, SettleReads, SettleWrites, Hop, Query, PullLoads, CommandLoads,
           DeskWrites, OnlyDesk, OnlyPushes, Unwritten, remote
  <2>2. ~Patch(a)
    BY DEF IInv, Decided, Patch
  <2>3. ~Comment(a)
    BY DEF IInv, Types, Item, Comment
  <2>4. push[a].pc = "move" /\ item.rev = push[a].got.rev /\ item' = Moved(a)
    BY <2>1, <2>2, <2>3 DEF MoveAtomically, AnswerLost, At
  <2> QED BY <2>4, MoveIsOwned DEF At
<1> QED BY <1>1, Invariant, PTL DEF Spec, HumanStands

\* A push writes its record, never the status it began with: the file that it
\* read again under the lock is the one it writes to.
THEOREM PushesKeepStatus == Spec => PushKeepsStatus
<1>1. IInv /\ [Next]_vars =>
        [file'.status # file.status /\ ~raced => run' # run \/ desk' # desk \/ Hop]_vars
  <2> SUFFICES ASSUME IInv, Next, file'.status # file.status, ~raced, run' = run, desk' = desk
               PROVE  Hop
    BY DEF vars, remote
  <2>1. Hop \/ WriteRunning \/ SettleWrites \/ DeskWrites \/ \E a \in Pusher : MergeWrites(a)
    BY DEF Next, Pushing, Faulty, RunStep, Edit, GetProceeds, GetConcludes, MoveConflicts,
           MoveAtomically, MoveCompares, Patch, Reread, Comment, Refresh, MergeReads,
           RequestFails, AnswerLost, RefreshFails, Sync, LoadToRun, SettleReads, Query,
           PullLoads, CommandLoads, OnlyDesk, OnlyPushes, Unwritten, remote
  <2>2. ~WriteRunning /\ ~SettleWrites /\ ~DeskWrites
    BY DEF WriteRunning, SettleWrites, DeskWrites, Idle
  <2>3. ASSUME NEW a \in Pusher, MergeWrites(a) PROVE FALSE
    <3>1. push[a].fresh = file
      BY <2>3 DEF MergeWrites, At, IInv, Grows
    <3>2. file' = file \/ file' = [file EXCEPT !.ext = push[a].ext]
      BY <2>3, <3>1 DEF MergeWrites, Merged
    <3> QED BY <3>2 DEF IInv, Types, Doc
  <2> QED BY <2>1, <2>2, <2>3
<1> QED BY <1>1, Invariant, PTL DEF Spec, PushKeepsStatus
================================================================================
