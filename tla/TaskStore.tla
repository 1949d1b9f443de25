------------------------------- MODULE TaskStore -------------------------------
(***************************************************************************)
(* The store of tasks (src/src/task.rs): one STATE file per task in the    *)
(* home store, in a folder per project; DEFINITION files in the checkouts  *)
(* that have a .varda directory; and the cached index from ids to files.   *)
(*                                                                         *)
(* Every operation of a command is cut where it goes to the disk again, so *)
(* that the commands of two processes interleave there and a process can   *)
(* be killed there. `birth' tells apart tasks that would otherwise be told *)
(* apart only by the path and the id that this module is about.            *)
(***************************************************************************)
EXTENDS Naturals, FiniteSets, FiniteSetsExt

CONSTANTS
  Project,     \* the checkouts a command is run in
  Mother,      \* the project that is folded into
  Workspace,   \* the worktree that is folded
  HasStore,    \* the projects with a .varda directory
  Checkout,    \* the out-of-tree checkout of an isolated worker
  None, Duplicate,
  Slug,        \* task names
  MaxId,       \* bound on ids
  Birth,       \* 1 .. bound on the tasks ever made
  Process,
  Does,        \* Process -> the commands it issues
  Cwd,         \* Process -> the project it stands in, or None
  Merges       \* whether definitions of other machines are merged in

(* A created task is in <slug>.md, one made from a definition keeps the    *)
(* name <id>-<slug>.md of the definition; num is 0 for the former.         *)
File == [dir : Project, slug : Slug, num : 0 .. MaxId]

ASSUME StoreAssumption ==
  /\ Mother \in Project /\ Workspace \in Project /\ Mother # Workspace
  /\ HasStore \subseteq Project
  /\ Checkout \notin Project /\ None \notin Project \union {Checkout}
  /\ {None, Duplicate} \intersect File = {} /\ None # Duplicate
  /\ MaxId \in Nat /\ Birth \subseteq Nat
  /\ Does \in [Process -> SUBSET {"create", "fold", "isolate", "find", "resolve", "delete"}]
  /\ Cwd \in [Process -> Project \union {None}]
  /\ Merges \in BOOLEAN

VARIABLES
  home,      \* file -> record, the STATE files
  defs,      \* project -> the DEFINITION files of its .varda/tasks
  index,     \* id -> file, .task_index.json
  proc,      \* process -> where its command is, and its locals
  births,    \* how many tasks were made
  crashed    \* whether a fold was ever killed between its two writes

vars == <<home, defs, index, proc, births, crashed>>

Id == 1 .. MaxId

Record == {r \in [id : Id, project : Project \union {Checkout},
                   mother : Project \union {None}, birth : Birth] :
             r.project = Checkout => r.mother # None}
Definition == [id : Id, slug : Slug, birth : Birth]

Idle == [pc |-> "idle"]

At(p, where) == proc[p].pc = where
Go(p, state) == proc' = [proc EXCEPT ![p] = state]
Becomes(p, where) == proc' = [proc EXCEPT ![p].pc = where]
Starts(p, command) == At(p, "idle") /\ command \in Does[p]

(* The board a record belongs to. *)
PolicyProject(r) == IF r.mother # None THEN r.mother ELSE r.project

Board(project) == {f \in DOMAIN home : PolicyProject(home[f]) = project}

FilesOf(id) == {f \in DOMAIN home : home[f].id = id}
Without(g, x) == [y \in DOMAIN g \ {x} |-> g[y]]
With(g, x, v) == [y \in DOMAIN g \union {x} |-> IF y = x THEN v ELSE g[y]]

(* p writes the home store and goes on; a scan of another process has one  *)
(* file less that it cannot miss, if the file of that id is gone.          *)
Writes(p, new, state) ==
  /\ home' = new
  /\ proc' = [q \in Process |->
                IF q = p THEN state
                ELSE IF At(q, "scan")
                  THEN [proc[q] EXCEPT !.had = {f \in @ : f \in DOMAIN new /\ new[f].id = proc[q].id}]
                  ELSE proc[q]]

Init ==
  /\ home = [f \in {} |-> None]
  /\ defs = [d \in Project |-> {}]
  /\ index = [i \in {} |-> None]
  /\ proc = [p \in Process |-> Idle]
  /\ births = 0
  /\ crashed = FALSE

-----------------------------------------------------------------------------
(* varda task add *)

(* Mutated form: the definitions of the checkout are not looked at. *)
MaxTaskIdAtHome(project) == Max({0} \union {home[f].id : f \in DOMAIN home})

MaxTaskId(project) ==
  Max({0} \union {home[f].id : f \in DOMAIN home}
          \union {d.id : d \in defs[project]})

(* The new id is one more than the greatest found in the whole home store  *)
(* and in the definitions of this project.                                 *)
ScanIds(p) ==
  /\ Starts(p, "create")
  /\ \E project \in Project, slug \in Slug :
       /\ MaxTaskId(project) < MaxId
       /\ Go(p, [pc |-> "check", id |-> MaxTaskId(project) + 1,
                 file |-> [dir |-> project, slug |-> slug, num |-> 0]])
  /\ UNCHANGED <<home, defs, index, births, crashed>>

(* A task of that name in that project: the command fails. *)
CheckName(p) ==
  /\ At(p, "check")
  /\ IF proc[p].file \in DOMAIN home THEN Go(p, Idle) ELSE Becomes(p, "write")
  /\ UNCHANGED <<home, defs, index, births, crashed>>

WriteHome(p) ==
  /\ At(p, "write")
  /\ births + 1 \in Birth
  /\ births' = births + 1
  /\ Writes(p, With(home, proc[p].file,
                    [id |-> proc[p].id, project |-> proc[p].file.dir,
                     mother |-> None, birth |-> births + 1]),
               [pc |-> "read index", id |-> proc[p].id, file |-> proc[p].file,
                birth |-> births + 1])
  /\ UNCHANGED <<defs, index, crashed>>

(* insert_task_index_entry: the whole index is read, then written back. *)
ReadIndex(p) ==
  /\ At(p, "read index")
  /\ Go(p, [pc |-> "write index", id |-> proc[p].id, file |-> proc[p].file,
            birth |-> proc[p].birth, index |-> index])
  /\ UNCHANGED <<home, defs, index, births, crashed>>

WriteIndex(p) ==
  /\ At(p, "write index")
  /\ index' = With(proc[p].index, proc[p].id, proc[p].file)
  /\ IF proc[p].file.dir \in HasStore
       THEN Go(p, [pc |-> "define", id |-> proc[p].id, file |-> proc[p].file,
                   birth |-> proc[p].birth])
       ELSE Go(p, Idle)
  /\ UNCHANGED <<home, defs, births, crashed>>

(* The definition goes into the checkout, unless a file of that name is    *)
(* there: then the command reports an error, the task made all the same.   *)
WriteDefinition(p) ==
  /\ At(p, "define")
  /\ LET project == proc[p].file.dir
         taken == \E d \in defs[project] : d.id = proc[p].id /\ d.slug = proc[p].file.slug
         new == [id |-> proc[p].id, slug |-> proc[p].file.slug, birth |-> proc[p].birth]
     IN defs' = IF taken THEN defs ELSE [defs EXCEPT ![project] = @ \union {new}]
  /\ Go(p, Idle)
  /\ UNCHANGED <<home, index, births, crashed>>

(* git brings a definition that another machine made, under an id that     *)
(* this store does not have; nobody creates a task meanwhile.              *)
MergeDefinition ==
  /\ Merges
  /\ births + 1 \in Birth
  /\ \A p \in Process : At(p, "idle")
  /\ \E project \in HasStore, slug \in Slug, id \in Id :
       /\ \A d \in defs[project] : d.id # id
       /\ defs' = [defs EXCEPT ![project] =
                     @ \union {[id |-> id, slug |-> slug, birth |-> births + 1]}]
  /\ births' = births + 1
  /\ UNCHANGED <<home, index, proc, crashed>>

-----------------------------------------------------------------------------
(* Commands that name a task by its id *)

(* What the command does with the file it was after. Only `find' (the poll *)
(* of await_subtask, the control plane) takes nothing for an answer;       *)
(* `bring' is where resolve_task_reference turns to the definitions.       *)
Found(p, op, id, f) ==
  Go(p, CASE op = "find" -> [pc |-> "answer", id |-> id, is |-> f]
            [] op # "find" /\ f = None /\ Cwd[p] \in HasStore ->
                 [pc |-> "bring", op |-> op, id |-> id]
            [] op \in {"isolate", "delete"} /\ f \in File -> [pc |-> op, file |-> f]
            [] OTHER -> Idle)

(* The index is believed if the file it names is there and has the id. *)
(* Mutated form: the entry is not checked against the file. *)
IndexedAlone(id) == id \in DOMAIN index

Indexed(id) == /\ id \in DOMAIN index
               /\ index[id] \in FilesOf(id)

Lookup(p, op, id) ==
  /\ Starts(p, op)
  /\ IF Indexed(id)
       THEN Found(p, op, id, index[id])
       ELSE Go(p, [pc |-> "scan", op |-> op, id |-> id, todo |-> Project,
                   seen |-> {}, had |-> FilesOf(id)])
  /\ UNCHANGED <<home, defs, index, births, crashed>>

(* collect_all_task_ids goes through the folders one after the other. *)
ScanFolder(p) ==
  /\ At(p, "scan")
  /\ \E dir \in proc[p].todo :
       Go(p, [proc[p] EXCEPT
                !.todo = @ \ {dir},
                !.seen = @ \union {<<home[f].id, f>> : f \in {g \in DOMAIN home : g.dir = dir}}])
  /\ UNCHANGED <<home, defs, index, births, crashed>>

(* The index is rebuilt of the ids that one file has; the ids that several *)
(* have are left out of it, and the lookup of one of these fails.          *)
FilesSeen(p, id) == {f \in File : <<id, f>> \in proc[p].seen}
Unique(files) == \E f \in files : files = {f}
Only(files) == CHOOSE f \in files : files = {f}

RebuildIndex(p) ==
  /\ At(p, "scan") /\ proc[p].todo = {}
  /\ index' = [i \in {j \in Id : Unique(FilesSeen(p, j))} |-> Only(FilesSeen(p, i))]
  /\ LET files == FilesSeen(p, proc[p].id)
     IN Found(p, proc[p].op, proc[p].id,
              IF files = {} THEN None
              ELSE IF Unique(files) THEN Only(files)
              ELSE Duplicate)
  /\ UNCHANGED <<home, defs, births, crashed>>

(* The caller has its answer. *)
Answered(p) ==
  /\ At(p, "answer")
  /\ Go(p, Idle)
  /\ UNCHANGED <<home, defs, index, births, crashed>>

(* materialize_from_repo_definition: the definition of the checkout the    *)
(* command is run in becomes a STATE file bound to that checkout.          *)
Materialize(p) ==
  /\ At(p, "bring")
  /\ LET op == proc[p].op
         mine == {d \in defs[Cwd[p]] : d.id = proc[p].id}
     IN IF mine = {}
          THEN Go(p, Idle) /\ UNCHANGED home
          ELSE \E d \in mine :
                 LET f == [dir |-> Cwd[p], slug |-> d.slug, num |-> d.id]
                 IN Writes(p, With(home, f, [id |-> d.id, project |-> Cwd[p],
                                             mother |-> None, birth |-> d.birth]),
                           IF op = "resolve" THEN Idle ELSE [pc |-> op, file |-> f])
  /\ UNCHANGED <<defs, index, births, crashed>>

(* varda task delete; the index keeps its entry. *)
Delete(p) ==
  /\ At(p, "delete")
  /\ Writes(p, Without(home, proc[p].file), Idle)
  /\ UNCHANGED <<defs, index, births, crashed>>

(* The launch of a subtask reads its record, and writes it with a checkout *)
(* of its own for the project and the project it belonged to for mother.   *)
LoadToIsolate(p) ==
  /\ At(p, "isolate")
  /\ IF proc[p].file \in DOMAIN home
       THEN Go(p, [pc |-> "write isolated", file |-> proc[p].file,
                   rec |-> home[proc[p].file]])
       ELSE Go(p, Idle)
  /\ UNCHANGED <<home, defs, index, births, crashed>>

WriteIsolated(p) ==
  /\ At(p, "write isolated")
  /\ Writes(p, With(home, proc[p].file,
                    [proc[p].rec EXCEPT !.project = Checkout,
                                        !.mother = PolicyProject(proc[p].rec)]), Idle)
  /\ UNCHANGED <<defs, index, births, crashed>>

-----------------------------------------------------------------------------
(* varda project fold <workspace> --into <mother> *)

Folded(f) == [f EXCEPT !.dir = Mother]

(* The records on the board of the workspace are listed once. *)
ListFold(p) ==
  /\ Starts(p, "fold")
  /\ Go(p, [pc |-> "fold", todo |-> Board(Workspace)])
  /\ UNCHANGED <<home, defs, index, births, crashed>>

(* Mutated form: a name that the mother has is written over. *)
LoadToFoldOver(p) ==
  /\ At(p, "fold")
  /\ \E f \in proc[p].todo \intersect DOMAIN home :
       Go(p, [pc |-> "put", todo |-> proc[p].todo \ {f}, file |-> f, rec |-> home[f]])
  /\ UNCHANGED <<home, defs, index, births, crashed>>

(* A record whose name the mother's folder has stays where it is; one that *)
(* is gone by now ends the whole command.                                  *)
LoadToFold(p) ==
  /\ At(p, "fold")
  /\ \E f \in proc[p].todo :
       IF Folded(f) # f /\ Folded(f) \in DOMAIN home
         THEN Go(p, [proc[p] EXCEPT !.todo = @ \ {f}])
         ELSE IF f \notin DOMAIN home
           THEN Go(p, Idle)
           ELSE Go(p, [pc |-> "put", todo |-> proc[p].todo \ {f}, file |-> f,
                       rec |-> home[f]])
  /\ UNCHANGED <<home, defs, index, births, crashed>>

(* Mutated form: the fold clears the project. *)
FoldedToNothing(r) == [r EXCEPT !.project = None]
FoldedRecord(r) == [r EXCEPT !.project = Mother]

PutFolded(p) ==
  /\ At(p, "put")
  /\ Writes(p, With(home, Folded(proc[p].file), FoldedRecord(proc[p].rec)),
               IF Folded(proc[p].file) = proc[p].file
                 THEN [pc |-> "fold", todo |-> proc[p].todo]
                 ELSE [pc |-> "drop", todo |-> proc[p].todo, file |-> proc[p].file])
  /\ UNCHANGED <<defs, index, births, crashed>>

(* Mutated form: the fold copies. *)
KeepOld(p) ==
  /\ At(p, "drop")
  /\ Go(p, [pc |-> "fold", todo |-> proc[p].todo])
  /\ UNCHANGED <<home, defs, index, births, crashed>>

(* The old file is removed; if it is gone the command ends with an error. *)
DropOld(p) ==
  /\ At(p, "drop")
  /\ Writes(p, Without(home, proc[p].file),
               IF proc[p].file \in DOMAIN home
                 THEN [pc |-> "fold", todo |-> proc[p].todo] ELSE Idle)
  /\ UNCHANGED <<defs, index, births, crashed>>

EndFold(p) ==
  /\ At(p, "fold") /\ proc[p].todo = {}
  /\ Go(p, Idle)
  /\ UNCHANGED <<home, defs, index, births, crashed>>

(* The process is killed between two of its steps. *)
Crash(p) ==
  /\ ~At(p, "idle")
  /\ Go(p, Idle)
  /\ crashed' = (crashed \/ At(p, "drop"))
  /\ UNCHANGED <<home, defs, index, births>>

Next ==
  \/ MergeDefinition
  \/ \E p \in Process :
       \/ ScanIds(p) \/ CheckName(p) \/ WriteHome(p)
       \/ ReadIndex(p) \/ WriteIndex(p) \/ WriteDefinition(p)
       \/ \E op \in {"find", "resolve", "isolate", "delete"}, id \in Id : Lookup(p, op, id)
       \/ ScanFolder(p) \/ RebuildIndex(p) \/ Answered(p) \/ Materialize(p)
       \/ Delete(p) \/ LoadToIsolate(p) \/ WriteIsolated(p)
       \/ ListFold(p) \/ LoadToFold(p) \/ PutFolded(p) \/ DropOld(p) \/ EndFold(p)
       \/ Crash(p)

Spec == Init /\ [][Next]_vars

-----------------------------------------------------------------------------
(* Properties *)

Index == UNION {[D -> File] : D \in SUBSET Id}

State ==
  {Idle}
  \union [pc : {"check", "write"}, id : Id, file : File]
  \union [pc : {"read index", "define"}, id : Id, file : File, birth : Birth]
  \union [pc : {"write index"}, id : Id, file : File, birth : Birth, index : Index]
  \union [pc : {"scan"}, op : {"find", "resolve", "isolate", "delete"}, id : Id,
           todo : SUBSET Project, seen : SUBSET (Id \X File), had : SUBSET File]
  \union [pc : {"answer"}, id : Id, is : File \union {None, Duplicate}]
  \union [pc : {"bring"}, op : {"resolve", "isolate", "delete"}, id : Id]
  \union [pc : {"delete", "isolate"}, file : File]
  \union [pc : {"write isolated"}, file : File, rec : Record]
  \union [pc : {"fold"}, todo : SUBSET File]
  \union [pc : {"put"}, todo : SUBSET File, file : File, rec : Record]
  \union [pc : {"drop"}, todo : SUBSET File, file : File]

TypeOK ==
  /\ DOMAIN home \subseteq File /\ home \in [DOMAIN home -> Record]
  /\ defs \in [Project -> SUBSET Definition]
  /\ index \in Index
  /\ proc \in [Process -> State]
  /\ births \in {0} \union Birth
  /\ crashed \in BOOLEAN

(* A task comes into being under an id that no definition in its checkout  *)
(* has, whatever was created, deleted, merged in and interrupted before:   *)
(* load_task would show it with the brief of the other task from then on.  *)
FreshDefinition ==
  [][\A p \in Process :
       WriteHome(p) => \A d \in defs[proc[p].file.dir] : d.id # proc[p].id]_vars

(* Outside of a fold, and as long as none was killed between its writes,   *)
(* each task has one STATE file: no command forks a record, wherever other *)
(* commands are killed.                                                    *)
OneFilePerTask ==
  (~crashed /\ \A p \in Process : ~At(p, "drop"))
    => \A f, g \in DOMAIN home : home[f].birth = home[g].birth => f = g

(* The answer of a lookup is true of the store, however stale the commands *)
(* left the index and however they wrote over it: an answer from the index *)
(* is a file of that id, and a scan misses no file of that id that was     *)
(* there all the time, be it that it finds none or that it finds another.  *)
LookupTrue ==
  [][\A p \in Process :
       /\ At(p, "idle") /\ At(p, "answer")'
            => proc'[p].is \in FilesOf(proc'[p].id)
       /\ At(p, "scan") /\ At(p, "answer")' /\ proc'[p].is # Duplicate
            => \A f \in proc[p].had : f = proc'[p].is]_vars

(* What the files of the store stand for is a set of tasks to which tasks  *)
(* are only added, each under an id of its own, and from which they are    *)
(* only taken away: no fold, no materialisation, no isolation of a worker  *)
(* and no crash loses, renumbers or mixes up a task.                       *)
Abstract == INSTANCE TaskSet
  WITH tasks <- {[birth |-> home[f].birth, id |-> home[f].id] : f \in DOMAIN home}

StoreKept == Abstract!Spec

-----------------------------------------------------------------------------
(* Promises of the sources and the documents that the code does not keep   *)
(* (README, Findings): TLC refutes each of them.                           *)

(* "The two-or-more files that claim an id must surface as a visible error *)
(* rather than silently picking one": a lookup that answers with a file    *)
(* finds no other file of that id in the store, but for a fold going on.   *)
DuplicateSurfaces ==
  [][\A p \in Process :
       ( /\ \A q \in Process : ~At(q, "drop")
         /\ ~At(p, "answer") /\ At(p, "answer")' /\ proc'[p].is \in File )
       => Cardinality(FilesOf(proc'[p].id)) = 1]_vars

(* "A merged worktree's tasks thus become the mother's history instead of  *)
(* a separate dashboard project": a fold that ends leaves no record in the *)
(* mother's folder that is still on the worktree's board.                  *)
FoldMovesBoard ==
  [][\A p \in Process :
       EndFold(p) => \A f \in Board(Workspace) : f.dir # Mother]_vars
=============================================================================
