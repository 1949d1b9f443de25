---------------------------- MODULE TaskStoreProofs ----------------------------
(***************************************************************************)
(* For every set of projects, names and processes and every bound on ids   *)
(* and births: what a lookup answers is true of the store; with one        *)
(* process that creates tasks, ids are fresh; and with one that writes     *)
(* files, however many others look tasks up and delete them, each task     *)
(* has one file, and the store implements the set of tasks TaskSet.        *)
(*                                                                         *)
(* The argument: a birth has one id wherever it is met, in the files, in   *)
(* the definitions and in what a process is about to write (BirthsNameIds).*)
(* While the writer is on its way from what it read to what it writes,     *)
(* the others only take files away, so what it found missing, an id, a     *)
(* name or a whole task, is still missing when it writes (AtWork).         *)
(***************************************************************************)
EXTENDS TaskStore, WellFoundedInduction, TLAPS

Making == {"check", "write", "read index", "write index", "define"}

\* A process is where one of its commands leads.
Led(p) ==
  /\ proc[p].pc \in Making => "create" \in Does[p]
  /\ proc[p].pc \in {"fold", "put", "drop"} => "fold" \in Does[p]
  /\ proc[p].pc \in {"isolate", "write isolated"} => "isolate" \in Does[p]
  /\ proc[p].pc = "delete" => "delete" \in Does[p]
  /\ proc[p].pc = "scan" => proc[p].op \in Does[p]
  /\ proc[p].pc = "bring" => proc[p].op \in Does[p] /\ Cwd[p] \in HasStore

Commanded == \A p \in Process : Led(p)

-----------------------------------------------------------------------------
(* The greatest of a set of naturals. *)

LEMMA Greatest ==
  ASSUME NEW S, S \subseteq Nat, NEW n \in S, NEW bound \in Nat, \A x \in S : x <= bound
  PROVE  Max(S) \in S /\ \A x \in S : Max(S) >= x
<1> DEFINE T == {k \in Nat : \A x \in S : x <= k}
<1>1. PICK k \in T : \A y \in T : ~(<<y, k>> \in OpToRel(<, Nat))
  <2>1. bound \in T
    OBVIOUS
  <2> HIDE DEF T
  <2>2. T \subseteq Nat /\ T # {}
    BY <2>1 DEF T
  <2> QED BY <2>2, NatLessThanWellFounded, WFMin
<1>2. \A y \in T : ~(y < k)
  BY <1>1 DEF OpToRel
<1>3. k \in S
  <2>1. CASE k = 0
    BY <2>1
  <2>2. CASE k # 0
    <3>1. k - 1 \in Nat /\ k - 1 < k
      BY <2>2
    <3>2. k - 1 \notin T
      BY <1>2, <3>1
    <3>3. PICK x \in S : ~(x <= k - 1)
      BY <3>1, <3>2
    <3>4. x = k
      BY <3>1, <3>3
    <3> QED BY <3>4
  <2> QED BY <2>1, <2>2
<1> QED BY <1>3 DEF Max

\* An id that a scan allocates is above all that it has seen.
LEMMA AboveAll ==
  ASSUME TypeOK, NEW project \in Project
  PROVE  /\ MaxTaskId(project) \in 0..MaxId
         /\ \A f \in DOMAIN home : home[f].id <= MaxTaskId(project)
         /\ \A d \in defs[project] : d.id <= MaxTaskId(project)
<1> DEFINE S == {0} \union {home[f].id : f \in DOMAIN home} \union {d.id : d \in defs[project]}
<1>1. \A f \in DOMAIN home : home[f].id \in Id
  BY DEF TypeOK, Record
<1>2. \A d \in defs[project] : d.id \in Id
  BY DEF TypeOK, Definition
<1>3. S \subseteq 0..MaxId /\ 0 \in S
  BY <1>1, <1>2, StoreAssumption DEF Id
<1>4. MaxTaskId(project) = Max(S)
  BY DEF MaxTaskId
<1>5. \A f \in DOMAIN home : home[f].id \in S
  OBVIOUS
<1>6. \A d \in defs[project] : d.id \in S
  OBVIOUS
<1> HIDE DEF S
<1>7. S \subseteq Nat /\ \A x \in S : x <= MaxId
  BY <1>3, StoreAssumption
<1>8. Max(S) \in S /\ \A x \in S : Max(S) >= x
  BY <1>3, <1>7, Greatest, StoreAssumption
<1>9. Max(S) \in 0..MaxId
  BY <1>3, <1>8
<1>10. \A x \in S : x <= Max(S)
  BY <1>7, <1>8
<1> QED BY <1>4, <1>5, <1>6, <1>9, <1>10

-----------------------------------------------------------------------------
(* Changes of a map and of the home store.                                 *)

LEMMA AddedToMap ==
  ASSUME NEW g, NEW S, NEW T, DOMAIN g \subseteq S, g \in [DOMAIN g -> T],
         NEW x \in S, NEW v \in T
  PROVE  /\ DOMAIN With(g, x, v) = DOMAIN g \union {x} /\ DOMAIN With(g, x, v) \subseteq S
         /\ With(g, x, v) \in [DOMAIN With(g, x, v) -> T]
         /\ With(g, x, v)[x] = v
         /\ \A y \in DOMAIN g \ {x} : With(g, x, v)[y] = g[y]
BY DEF With

LEMMA TakenFromMap ==
  ASSUME NEW g, NEW S, NEW T, DOMAIN g \subseteq S, g \in [DOMAIN g -> T], NEW x
  PROVE  /\ DOMAIN Without(g, x) = DOMAIN g \ {x} /\ DOMAIN Without(g, x) \subseteq S
         /\ Without(g, x) \in [DOMAIN Without(g, x) -> T]
         /\ \A y \in DOMAIN g \ {x} : Without(g, x)[y] = g[y]
BY DEF Without

Scan == [pc : {"scan"}, op : {"find", "resolve", "isolate", "delete"}, id : Id,
         todo : SUBSET Project, seen : SUBSET (Id \X File), had : SUBSET File]

\* What a process holds at each place in a command.
LEMMA Fields ==
  ASSUME TypeOK, NEW p \in Process
  PROVE  /\ proc[p] \in State
         /\ proc[p].pc \in Making => proc[p].id \in Id /\ proc[p].file \in File
         /\ proc[p].pc \in {"read index", "write index", "define"} => proc[p].birth \in Birth
         /\ At(p, "write index") => proc[p].index \in Index
         /\ At(p, "scan") => /\ proc[p].op \in {"find", "resolve", "isolate", "delete"}
                             /\ proc[p].id \in Id /\ proc[p].todo \subseteq Project
                             /\ proc[p].seen \subseteq Id \X File /\ proc[p].had \subseteq File
         /\ At(p, "bring") => proc[p].op \in {"resolve", "isolate", "delete"} /\ proc[p].id \in Id
         /\ proc[p].pc \in {"delete", "isolate", "write isolated", "put", "drop"} =>
              proc[p].file \in File
         /\ proc[p].pc \in {"write isolated", "put"} => proc[p].rec \in Record
         /\ proc[p].pc \in {"fold", "put", "drop"} => proc[p].todo \subseteq File
         /\ At(p, "scan") => proc[p] \in Scan
         /\ At(p, "check") => proc[p] \in [pc : {"check", "write"}, id : Id, file : File]
         /\ At(p, "fold") => proc[p] \in [pc : {"fold"}, todo : SUBSET File]
<1>1. proc[p] \in State
  BY DEF TypeOK
<1>2. CASE proc[p] = Idle
  BY <1>1, <1>2 DEF Idle, Making, At
<1>3. CASE proc[p] \in [pc : {"check", "write"}, id : Id, file : File]
  BY <1>1, <1>3 DEF Making, At
<1>4. CASE proc[p] \in [pc : {"read index", "define"}, id : Id, file : File, birth : Birth]
  BY <1>1, <1>4 DEF Making, At
<1>5. CASE proc[p] \in [pc : {"write index"}, id : Id, file : File, birth : Birth, index : Index]
  BY <1>1, <1>5 DEF Making, At
<1>6. CASE proc[p] \in Scan
  BY <1>1, <1>6 DEF Making, At, Scan
<1>7. CASE proc[p] \in [pc : {"answer"}, id : Id, is : File \union {None, Duplicate}]
  BY <1>1, <1>7 DEF Making, At
<1>8. CASE proc[p] \in [pc : {"bring"}, op : {"resolve", "isolate", "delete"}, id : Id]
  BY <1>1, <1>8 DEF Making, At
<1>9. CASE proc[p] \in [pc : {"delete", "isolate"}, file : File]
  BY <1>1, <1>9 DEF Making, At
<1>10. CASE proc[p] \in [pc : {"write isolated"}, file : File, rec : Record]
  BY <1>1, <1>10 DEF Making, At
<1>11. CASE proc[p] \in [pc : {"fold"}, todo : SUBSET File]
  BY <1>1, <1>11 DEF Making, At
<1>12. CASE proc[p] \in [pc : {"put"}, todo : SUBSET File, file : File, rec : Record]
  BY <1>1, <1>12 DEF Making, At
<1>13. CASE proc[p] \in [pc : {"drop"}, todo : SUBSET File, file : File]
  BY <1>1, <1>13 DEF Making, At
<1> QED
  BY <1>1, <1>2, <1>3, <1>4, <1>5, <1>6, <1>7, <1>8, <1>9, <1>10, <1>11, <1>12, <1>13
  DEF State, Scan

\* The other processes stay where they are; of a scan, only the set of the files
\* that it cannot miss may shrink.
Stays(q) ==
  \/ proc'[q] = proc[q]
  \/ /\ At(q, "scan") /\ At(q, "scan")'
     /\ proc'[q].op = proc[q].op /\ proc'[q].id = proc[q].id
     /\ proc'[q].todo = proc[q].todo /\ proc'[q].seen = proc[q].seen

LEMMA Going ==
  ASSUME TypeOK, NEW p \in Process, NEW state, Go(p, state)
  PROVE  proc'[p] = state /\ \A q \in Process \ {p} : proc'[q] = proc[q]
BY DEF Go, TypeOK

LEMMA Writing ==
  ASSUME TypeOK, NEW p \in Process, NEW new, NEW state, Writes(p, new, state)
  PROVE  /\ home' = new /\ proc'[p] = state
         /\ \A q \in Process \ {p} :
              /\ Stays(q)
              /\ ~At(q, "scan") => proc'[q] = proc[q]
              /\ At(q, "scan") =>
                   /\ proc'[q] \in State
                   /\ proc'[q].had =
                        {f \in proc[q].had : f \in DOMAIN new /\ new[f].id = proc[q].id}
         /\ state \in State => proc' \in [Process -> State]
<1>1. home' = new /\ proc'[p] = state
  BY DEF Writes
<1>2. ASSUME NEW q \in Process, q # p
      PROVE  /\ Stays(q)
             /\ ~At(q, "scan") => proc'[q] = proc[q]
             /\ At(q, "scan") =>
                  /\ proc'[q] \in State
                  /\ proc'[q].had =
                       {f \in proc[q].had : f \in DOMAIN new /\ new[f].id = proc[q].id}
  <2>1. CASE ~At(q, "scan")
    BY <1>2, <2>1 DEF Writes, Stays
  <2>2. CASE At(q, "scan")
    <3> DEFINE had == {f \in proc[q].had : f \in DOMAIN new /\ new[f].id = proc[q].id}
    <3>1. proc'[q] = [proc[q] EXCEPT !.had = had]
      BY <1>2, <2>2 DEF Writes
    <3>2. proc[q] \in Scan
      BY <2>2, Fields
    <3>3. had \in SUBSET File
      BY <3>2 DEF Scan
    <3> HIDE DEF had
    <3>4. proc'[q] \in Scan
      BY <3>1, <3>2, <3>3 DEF Scan
    <3>5. /\ proc'[q].pc = "scan" /\ proc'[q].op = proc[q].op /\ proc'[q].id = proc[q].id
          /\ proc'[q].todo = proc[q].todo /\ proc'[q].seen = proc[q].seen /\ proc'[q].had = had
      BY <3>1, <3>2 DEF Scan
    <3> QED BY <2>2, <3>4, <3>5 DEF Stays, At, State, Scan, had
  <2> QED BY <2>1, <2>2
<1>3. state \in State => proc' \in [Process -> State]
  <2>1. \A q \in Process \ {p} : proc'[q] \in State
    BY <1>2 DEF TypeOK
  <2>2. proc' = [q \in Process |-> proc'[q]]
    BY DEF Writes
  <2> QED BY <1>1, <2>1, <2>2
<1> QED BY <1>1, <1>2, <1>3

-----------------------------------------------------------------------------
(* Lookups.                                                                *)

Ops == {"find", "resolve", "isolate", "delete"}

LEMMA OnlyOne ==
  ASSUME NEW files, Unique(files)
  PROVE  Only(files) \in files /\ files = {Only(files)}
BY DEF Unique, Only

\* Where a command goes on when it has what it looked for.
LEMMA Leads ==
  ASSUME TypeOK, NEW p \in Process, NEW op \in Ops, NEW id \in Id,
         NEW f \in File \union {None, Duplicate}, Found(p, op, id, f)
  PROVE  /\ \A q \in Process \ {p} : proc'[q] = proc[q]
         /\ proc' \in [Process -> State]
         /\ \/ op = "find" /\ proc'[p] = [pc |-> "answer", id |-> id, is |-> f]
            \/ op # "find" /\ proc'[p] = Idle
            \/ /\ op # "find" /\ f = None /\ Cwd[p] \in HasStore
               /\ proc'[p] = [pc |-> "bring", op |-> op, id |-> id]
            \/ op \in {"isolate", "delete"} /\ f \in File /\ proc'[p] = [pc |-> op, file |-> f]
<1>1. CASE op = "find"
  <2>1. Go(p, [pc |-> "answer", id |-> id, is |-> f])
    BY <1>1 DEF Found
  <2>2. [pc |-> "answer", id |-> id, is |-> f] \in State
    BY DEF State
  <2> QED BY <1>1, <2>1, <2>2, Going DEF Go, TypeOK
<1>2. CASE op # "find" /\ f = None /\ Cwd[p] \in HasStore
  <2>1. Go(p, [pc |-> "bring", op |-> op, id |-> id])
    BY <1>2, StoreAssumption DEF Found
  <2>2. [pc |-> "bring", op |-> op, id |-> id] \in State
    BY <1>2 DEF State, Ops
  <2> QED BY <1>2, <2>1, <2>2, Going DEF Go, TypeOK
<1>3. CASE op \in {"isolate", "delete"} /\ f \in File
  <2>1. Go(p, [pc |-> op, file |-> f])
    BY <1>3, StoreAssumption DEF Found
  <2>2. [pc |-> op, file |-> f] \in State
    BY <1>3 DEF State
  <2> QED BY <1>3, <2>1, <2>2, Going DEF Go, TypeOK
<1>4. CASE /\ op # "find"
           /\ \/ f = Duplicate
              \/ f = None /\ Cwd[p] \notin HasStore
              \/ f \in File /\ op = "resolve"
  <2>1. Go(p, Idle)
    BY <1>4, StoreAssumption DEF Found
  <2>2. Idle \in State
    BY DEF State
  <2> QED BY <1>4, <2>1, <2>2, Going DEF Go, TypeOK
<1> QED BY <1>1, <1>2, <1>3, <1>4 DEF Ops

\* What a lookup finds by the index, and by the scan.
LEMMA IndexTells ==
  ASSUME TypeOK, NEW id \in Id, Indexed(id)
  PROVE  index[id] \in File /\ index[id] \in FilesOf(id)
BY DEF Indexed, TypeOK, FilesOf

Result(p) ==
  LET files == FilesSeen(p, proc[p].id)
  IN IF files = {} THEN None ELSE IF Unique(files) THEN Only(files) ELSE Duplicate

LEMMA ScanTells ==
  ASSUME TypeOK, NEW p \in Process, RebuildIndex(p)
  PROVE  /\ Found(p, proc[p].op, proc[p].id, Result(p))
         /\ Result(p) \in File \union {None, Duplicate}
         /\ proc[p].op \in Ops /\ proc[p].id \in Id /\ At(p, "scan") /\ proc[p].todo = {}
         /\ index' \in Index
<1>1. At(p, "scan") /\ proc[p].todo = {}
  BY DEF RebuildIndex
<1>2. proc[p].op \in Ops /\ proc[p].id \in Id
  BY <1>1, Fields DEF Ops
<1>3. Found(p, proc[p].op, proc[p].id, Result(p))
  BY DEF RebuildIndex, Result
<1>4. \A i : FilesSeen(p, i) \subseteq File
  BY DEF FilesSeen
<1>5. Result(p) \in File \union {None, Duplicate}
  BY <1>4, OnlyOne DEF Result
<1>6. index' \in Index
  <2> DEFINE D == {j \in Id : Unique(FilesSeen(p, j))}
  <2>1. index' = [i \in D |-> Only(FilesSeen(p, i))]
    BY DEF RebuildIndex
  <2>2. \A i \in D : Only(FilesSeen(p, i)) \in File
    BY <1>4, OnlyOne
  <2>3. D \in SUBSET Id
    OBVIOUS
  <2> HIDE DEF D
  <2>4. index' \in [D -> File]
    BY <2>1, <2>2
  <2> QED BY <2>3, <2>4 DEF Index
<1> QED BY <1>1, <1>2, <1>3, <1>5, <1>6

-----------------------------------------------------------------------------
(* Types.                                                                  *)

\* A step of a process that writes no STATE file.
LEMMA TypedGo ==
  ASSUME TypeOK, NEW p \in Process, NEW state \in State, Go(p, state)
  PROVE  proc' \in [Process -> State]
BY DEF Go, TypeOK

\* A file that is written, and one that is removed.
LEMMA TypedWith ==
  ASSUME TypeOK, NEW p \in Process, NEW state \in State, NEW f \in File, NEW r \in Record,
         Writes(p, With(home, f, r), state)
  PROVE  /\ DOMAIN home' \subseteq File /\ home' \in [DOMAIN home' -> Record]
         /\ proc' \in [Process -> State]
<1>1. DOMAIN home \subseteq File /\ home \in [DOMAIN home -> Record]
  BY DEF TypeOK
<1>2. DOMAIN With(home, f, r) \subseteq File /\ With(home, f, r) \in [DOMAIN With(home, f, r) -> Record]
  BY <1>1, AddedToMap
<1>3. home' = With(home, f, r) /\ proc' \in [Process -> State]
  BY Writing
<1> QED BY <1>2, <1>3

LEMMA TypedWithout ==
  ASSUME TypeOK, NEW p \in Process, NEW state \in State, NEW f,
         Writes(p, Without(home, f), state)
  PROVE  /\ DOMAIN home' \subseteq File /\ home' \in [DOMAIN home' -> Record]
         /\ proc' \in [Process -> State]
<1>1. DOMAIN home \subseteq File /\ home \in [DOMAIN home -> Record]
  BY DEF TypeOK
<1>2. /\ DOMAIN Without(home, f) \subseteq File
      /\ Without(home, f) \in [DOMAIN Without(home, f) -> Record]
  BY <1>1, TakenFromMap
<1>3. home' = Without(home, f) /\ proc' \in [Process -> State]
  BY Writing
<1> QED BY <1>2, <1>3

\* What the record of a file becomes.
Made(p) == [id |-> proc[p].id, project |-> proc[p].file.dir, mother |-> None, birth |-> births + 1]
Isolated(p) ==
  [proc[p].rec EXCEPT !.project = Checkout, !.mother = PolicyProject(proc[p].rec)]
FileOf(p, d) == [dir |-> Cwd[p], slug |-> d.slug, num |-> d.id]
RecordOf(p, d) == [id |-> d.id, project |-> Cwd[p], mother |-> None, birth |-> d.birth]

LEMMA IsolatedRecord ==
  ASSUME TypeOK, NEW p \in Process, At(p, "write isolated")
  PROVE  /\ Isolated(p) \in Record
         /\ Isolated(p).id = proc[p].rec.id /\ Isolated(p).birth = proc[p].rec.birth
<1>1. proc[p].rec \in Record
  BY Fields DEF At
<1>2. \/ PolicyProject(proc[p].rec) = proc[p].rec.mother
      \/ PolicyProject(proc[p].rec) = proc[p].rec.project /\ proc[p].rec.mother = None
  BY DEF PolicyProject
<1>3. PolicyProject(proc[p].rec) \in Project
  <2>1. proc[p].rec.project \in Project \union {Checkout}
    BY <1>1 DEF Record
  <2>2. proc[p].rec.mother \in Project \union {None}
    BY <1>1 DEF Record
  <2>3. proc[p].rec.project = Checkout => proc[p].rec.mother # None
    BY <1>1 DEF Record
  <2> QED BY <2>1, <2>2, <2>3 DEF PolicyProject
<1>4. PolicyProject(proc[p].rec) # None
  BY <1>3, StoreAssumption

<1> QED BY <1>1, <1>3, <1>4 DEF Isolated, Record

LEMMA FoldedFile ==
  ASSUME NEW f \in File
  PROVE  Folded(f) \in File /\ Folded(f).num = f.num
BY StoreAssumption DEF Folded, File

LEMMA FoldedRecordIs ==
  ASSUME NEW r \in Record
  PROVE  FoldedRecord(r) \in Record /\ FoldedRecord(r).id = r.id /\ FoldedRecord(r).birth = r.birth
BY StoreAssumption DEF FoldedRecord, Record

LEMMA DefinitionFile ==
  ASSUME TypeOK, NEW p \in Process, Cwd[p] \in HasStore, NEW d \in defs[Cwd[p]]
  PROVE  /\ FileOf(p, d) \in File /\ FileOf(p, d).num = d.id
         /\ RecordOf(p, d) \in Record /\ RecordOf(p, d).id = d.id /\ RecordOf(p, d).birth = d.birth
         /\ d.id \in Id /\ d.birth \in Birth
<1>1. Cwd[p] \in Project
  BY StoreAssumption
<1>2. d \in Definition
  BY <1>1 DEF TypeOK
<1>3. d.id \in Id /\ d.slug \in Slug /\ d.birth \in Birth
  BY <1>2 DEF Definition
<1>4. d.id \in 0..MaxId
  BY <1>3, StoreAssumption DEF Id
<1>5. FileOf(p, d) \in File /\ FileOf(p, d).num = d.id
  BY <1>1, <1>3, <1>4 DEF FileOf, File
<1>6. RecordOf(p, d) \in Record /\ RecordOf(p, d).id = d.id /\ RecordOf(p, d).birth = d.birth
  BY <1>1, <1>3, StoreAssumption DEF RecordOf, Record
<1> QED BY <1>3, <1>5, <1>6

\* The steps of a process: creation, lookup and what follows it, and changes of
\* records.
Creates(p) ==
  \/ ScanIds(p) \/ CheckName(p) \/ WriteHome(p)
  \/ ReadIndex(p) \/ WriteIndex(p) \/ WriteDefinition(p)
LooksUp(p) ==
  \/ \E op \in Ops, id \in Id : Lookup(p, op, id)
  \/ ScanFolder(p) \/ RebuildIndex(p) \/ Answered(p) \/ Materialize(p) \/ Delete(p)
Changes(p) ==
  \/ LoadToIsolate(p) \/ WriteIsolated(p)
  \/ ListFold(p) \/ LoadToFold(p) \/ PutFolded(p) \/ DropOld(p) \/ EndFold(p)
  \/ Crash(p)

LEMMA Steps ==
  Next => MergeDefinition \/ \E p \in Process : Creates(p) \/ LooksUp(p) \/ Changes(p)
BY DEF Next, Creates, LooksUp, Changes, Ops

LEMMA TypesInit == Init => TypeOK
<1>1. Idle \in State
  BY DEF State
<1>2. [i \in {} |-> None] \in [{} -> File]
  OBVIOUS
<1>3. [i \in {} |-> None] \in Index
  BY <1>2 DEF Index
<1> QED BY <1>1, <1>3 DEF Init, TypeOK

LEMMA CreateTypes ==
  ASSUME TypeOK, NEW p \in Process, Creates(p)
  PROVE  TypeOK'
<1>0. Idle \in State
  BY DEF State
<1>1. CASE ScanIds(p)
  <2>1. PICK project \in Project, slug \in Slug :
          /\ MaxTaskId(project) < MaxId
          /\ Go(p, [pc |-> "check", id |-> MaxTaskId(project) + 1,
                    file |-> [dir |-> project, slug |-> slug, num |-> 0]])
    BY <1>1 DEF ScanIds
  <2>2. MaxTaskId(project) \in 0..MaxId
    BY AboveAll
  <2>3. MaxTaskId(project) + 1 \in Id
    BY <2>1, <2>2, StoreAssumption DEF Id
  <2>4. [dir |-> project, slug |-> slug, num |-> 0] \in File
    BY StoreAssumption DEF File
  <2>5. [pc |-> "check", id |-> MaxTaskId(project) + 1,
         file |-> [dir |-> project, slug |-> slug, num |-> 0]] \in State
    BY <2>3, <2>4 DEF State
  <2>6. proc' \in [Process -> State]
    BY <2>1, <2>5, TypedGo
  <2> QED BY <1>1, <2>6 DEF ScanIds, TypeOK
<1>2. CASE CheckName(p)
  <2>1. proc[p].id \in Id /\ proc[p].file \in File
    BY <1>2, Fields DEF CheckName, At, Making
  <2>2. proc[p] \in [pc : {"check", "write"}, id : Id, file : File]
    BY <1>2, Fields DEF CheckName
  <2>3. [proc[p] EXCEPT !.pc = "write"] \in State
    BY <2>2 DEF State
  <2>4. proc' \in [Process -> State]
    BY <1>0, <1>2, <2>3 DEF CheckName, Go, Becomes, TypeOK
  <2> QED BY <1>2, <2>4 DEF CheckName, TypeOK
<1>3. CASE WriteHome(p)
  <2>1. proc[p].id \in Id /\ proc[p].file \in File /\ births + 1 \in Birth
    BY <1>3, Fields DEF WriteHome, At, Making
  <2>2. Made(p) \in Record
    BY <2>1, StoreAssumption DEF Made, Record, File
  <2>3. [pc |-> "read index", id |-> proc[p].id, file |-> proc[p].file, birth |-> births + 1]
          \in State
    BY <2>1 DEF State
  <2>4. Writes(p, With(home, proc[p].file, Made(p)),
               [pc |-> "read index", id |-> proc[p].id, file |-> proc[p].file,
                birth |-> births + 1])
    BY <1>3 DEF WriteHome, Made
  <2>5. /\ DOMAIN home' \subseteq File /\ home' \in [DOMAIN home' -> Record]
        /\ proc' \in [Process -> State]
    BY <2>1, <2>2, <2>3, <2>4, TypedWith
  <2> QED BY <1>3, <2>1, <2>5 DEF WriteHome, TypeOK
<1>4. CASE ReadIndex(p)
  <2>1. proc[p].id \in Id /\ proc[p].file \in File /\ proc[p].birth \in Birth /\ index \in Index
    BY <1>4, Fields DEF ReadIndex, At, Making, TypeOK
  <2>2. [pc |-> "write index", id |-> proc[p].id, file |-> proc[p].file,
         birth |-> proc[p].birth, index |-> index] \in State
    BY <2>1 DEF State
  <2>3. proc' \in [Process -> State]
    BY <1>4, <2>2, TypedGo DEF ReadIndex
  <2> QED BY <1>4, <2>3 DEF ReadIndex, TypeOK
<1>5. CASE WriteIndex(p)
  <2>1. /\ proc[p].id \in Id /\ proc[p].file \in File /\ proc[p].birth \in Birth
        /\ proc[p].index \in Index
    BY <1>5, Fields DEF WriteIndex, At, Making
  <2>2. [pc |-> "define", id |-> proc[p].id, file |-> proc[p].file, birth |-> proc[p].birth]
          \in State
    BY <2>1 DEF State
  <2>3. proc' \in [Process -> State]
    BY <1>0, <1>5, <2>2, TypedGo DEF WriteIndex
  <2>4. PICK D \in SUBSET Id : proc[p].index \in [D -> File]
    BY <2>1 DEF Index
  <2>5. index' = With(proc[p].index, proc[p].id, proc[p].file)
    BY <1>5 DEF WriteIndex
  <2>6. index' \in [D \union {proc[p].id} -> File]
    BY <2>1, <2>4, <2>5 DEF With
  <2>7. index' \in Index
    BY <2>1, <2>4, <2>6 DEF Index
  <2> QED BY <1>5, <2>3, <2>7 DEF WriteIndex, TypeOK
<1>6. CASE WriteDefinition(p)
  <2>1. proc[p].id \in Id /\ proc[p].file \in File /\ proc[p].birth \in Birth
    BY <1>6, Fields DEF WriteDefinition, At, Making
  <2>2. [id |-> proc[p].id, slug |-> proc[p].file.slug, birth |-> proc[p].birth] \in Definition
    BY <2>1 DEF Definition, File
  <2>3. proc' \in [Process -> State]
    BY <1>0, <1>6, TypedGo DEF WriteDefinition
  <2>4. defs' \in [Project -> SUBSET Definition]
    BY <1>6, <2>2 DEF WriteDefinition, TypeOK
  <2> QED BY <1>6, <2>3, <2>4 DEF WriteDefinition, TypeOK
<1> QED BY <1>1, <1>2, <1>3, <1>4, <1>5, <1>6 DEF Creates

LEMMA MergeTypes ==
  ASSUME TypeOK, MergeDefinition
  PROVE  TypeOK'
<1>1. PICK project \in HasStore, slug \in Slug, id \in Id :
        defs' = [defs EXCEPT ![project] =
                   @ \union {[id |-> id, slug |-> slug, birth |-> births + 1]}]
  BY DEF MergeDefinition
<1>2. births + 1 \in Birth
  BY DEF MergeDefinition
<1>3. [id |-> id, slug |-> slug, birth |-> births + 1] \in Definition
  BY <1>2 DEF Definition
<1>4. defs' \in [Project -> SUBSET Definition]
  BY <1>1, <1>3 DEF TypeOK
<1> QED BY <1>2, <1>4 DEF MergeDefinition, TypeOK

LEMMA LookupTypes ==
  ASSUME TypeOK, Commanded, NEW p \in Process, LooksUp(p)
  PROVE  TypeOK'
<1>0. Idle \in State
  BY DEF State
<1>1. ASSUME NEW op \in Ops, NEW id \in Id, Lookup(p, op, id)
      PROVE  TypeOK'
  <2>1. CASE Indexed(id)
    <3>1. Found(p, op, id, index[id]) /\ index[id] \in File
      BY <1>1, <2>1, IndexTells DEF Lookup
    <3>2. proc' \in [Process -> State]
      BY <3>1, Leads
    <3> QED BY <1>1, <3>2 DEF Lookup, TypeOK
  <2>2. CASE ~Indexed(id)
    <3>1. Go(p, [pc |-> "scan", op |-> op, id |-> id, todo |-> Project, seen |-> {},
                 had |-> FilesOf(id)])
      BY <1>1, <2>2 DEF Lookup
    <3>2. FilesOf(id) \subseteq File
      BY DEF FilesOf, TypeOK
    <3>3. [pc |-> "scan", op |-> op, id |-> id, todo |-> Project, seen |-> {},
           had |-> FilesOf(id)] \in Scan
      BY <3>2 DEF Scan, Ops
    <3>4. proc' \in [Process -> State]
      BY <3>1, <3>3, TypedGo DEF State, Scan
    <3> QED BY <1>1, <3>4 DEF Lookup, TypeOK
  <2> QED BY <2>1, <2>2
<1>2. CASE ScanFolder(p)
  <2>1. PICK dir \in proc[p].todo :
          Go(p, [proc[p] EXCEPT
                   !.todo = @ \ {dir},
                   !.seen = @ \union {<<home[f].id, f>> : f \in {g \in DOMAIN home : g.dir = dir}}])
    BY <1>2 DEF ScanFolder
  <2>2. proc[p] \in Scan
    BY <1>2, Fields DEF ScanFolder
  <2>3. {<<home[f].id, f>> : f \in {g \in DOMAIN home : g.dir = dir}} \subseteq Id \X File
    <3>1. \A f \in DOMAIN home : f \in File /\ home[f].id \in Id
      BY DEF TypeOK, Record
    <3> QED BY <3>1
  <2>4. [proc[p] EXCEPT
           !.todo = @ \ {dir},
           !.seen = @ \union {<<home[f].id, f>> : f \in {g \in DOMAIN home : g.dir = dir}}] \in Scan
    BY <2>2, <2>3 DEF Scan
  <2>5. proc' \in [Process -> State]
    BY <2>1, <2>4, TypedGo DEF State, Scan
  <2> QED BY <1>2, <2>5 DEF ScanFolder, TypeOK
<1>3. CASE RebuildIndex(p)
  <2>1. proc' \in [Process -> State] /\ index' \in Index
    BY <1>3, ScanTells, Leads
  <2> QED BY <1>3, <2>1 DEF RebuildIndex, TypeOK
<1>4. CASE Answered(p)
  <2>1. proc' \in [Process -> State]
    BY <1>0, <1>4, TypedGo DEF Answered
  <2> QED BY <1>4, <2>1 DEF Answered, TypeOK
<1>5. CASE Materialize(p)
  <2>1. CASE Go(p, Idle) /\ UNCHANGED home
    <3>1. proc' \in [Process -> State]
      BY <1>0, <2>1, TypedGo
    <3> QED BY <1>5, <2>1, <3>1 DEF Materialize, TypeOK
  <2>2. CASE ~(Go(p, Idle) /\ UNCHANGED home)
    <3>1. PICK d \in defs[Cwd[p]] :
            Writes(p, With(home, FileOf(p, d), RecordOf(p, d)),
                   IF proc[p].op = "resolve" THEN Idle
                   ELSE [pc |-> proc[p].op, file |-> FileOf(p, d)])
      BY <1>5, <2>2 DEF Materialize, FileOf, RecordOf
    <3>2. At(p, "bring") /\ Cwd[p] \in HasStore /\ proc[p].op \in {"resolve", "isolate", "delete"}
      BY <1>5, Fields DEF Materialize, Commanded, Led, At
    <3>3. FileOf(p, d) \in File /\ RecordOf(p, d) \in Record
      BY <3>2, DefinitionFile
    <3>4. proc[p].op # "resolve" => [pc |-> proc[p].op, file |-> FileOf(p, d)] \in State
      BY <3>2, <3>3 DEF State
    <3>5. (IF proc[p].op = "resolve" THEN Idle ELSE [pc |-> proc[p].op, file |-> FileOf(p, d)])
            \in State
      BY <1>0, <3>4
    <3>6. /\ DOMAIN home' \subseteq File /\ home' \in [DOMAIN home' -> Record]
          /\ proc' \in [Process -> State]
      BY <3>1, <3>3, <3>5, TypedWith
    <3> QED BY <1>5, <3>6 DEF Materialize, TypeOK
  <2> QED BY <2>1, <2>2
<1>6. CASE Delete(p)
  <2>1. /\ DOMAIN home' \subseteq File /\ home' \in [DOMAIN home' -> Record]
        /\ proc' \in [Process -> State]
    BY <1>0, <1>6, TypedWithout DEF Delete
  <2> QED BY <1>6, <2>1 DEF Delete, TypeOK
<1> QED BY <1>1, <1>2, <1>3, <1>4, <1>5, <1>6 DEF LooksUp

LEMMA ChangeTypes ==
  ASSUME TypeOK, NEW p \in Process, Changes(p)
  PROVE  TypeOK'
<1>0. Idle \in State
  BY DEF State
<1>1. CASE LoadToIsolate(p)
  <2>1. proc[p].file \in File
    BY <1>1, Fields DEF LoadToIsolate, At
  <2>2. proc[p].file \in DOMAIN home => home[proc[p].file] \in Record
    BY DEF TypeOK
  <2>3. proc[p].file \in DOMAIN home =>
          [pc |-> "write isolated", file |-> proc[p].file, rec |-> home[proc[p].file]] \in State
    BY <2>1, <2>2 DEF State
  <2>4. proc' \in [Process -> State]
    BY <1>0, <1>1, <2>3, TypedGo DEF LoadToIsolate
  <2> QED BY <1>1, <2>4 DEF LoadToIsolate, TypeOK
<1>2. CASE WriteIsolated(p)
  <2>1. proc[p].file \in File /\ Isolated(p) \in Record
    BY <1>2, Fields, IsolatedRecord DEF WriteIsolated, At
  <2>2. Writes(p, With(home, proc[p].file, Isolated(p)), Idle)
    BY <1>2 DEF WriteIsolated, Isolated
  <2>3. /\ DOMAIN home' \subseteq File /\ home' \in [DOMAIN home' -> Record]
        /\ proc' \in [Process -> State]
    BY <1>0, <2>1, <2>2, TypedWith
  <2> QED BY <1>2, <2>3 DEF WriteIsolated, TypeOK
<1>3. CASE ListFold(p)
  <2>1. Board(Workspace) \subseteq File
    BY DEF Board, TypeOK
  <2>2. [pc |-> "fold", todo |-> Board(Workspace)] \in State
    BY <2>1 DEF State
  <2>3. proc' \in [Process -> State]
    BY <1>3, <2>2, TypedGo DEF ListFold
  <2> QED BY <1>3, <2>3 DEF ListFold, TypeOK
<1>4. CASE LoadToFold(p)
  <2>1. proc[p] \in [pc : {"fold"}, todo : SUBSET File]
    BY <1>4, Fields DEF LoadToFold
  <2>2. PICK f \in proc[p].todo :
          IF Folded(f) # f /\ Folded(f) \in DOMAIN home
            THEN Go(p, [proc[p] EXCEPT !.todo = @ \ {f}])
            ELSE IF f \notin DOMAIN home
              THEN Go(p, Idle)
              ELSE Go(p, [pc |-> "put", todo |-> proc[p].todo \ {f}, file |-> f,
                          rec |-> home[f]])
    BY <1>4 DEF LoadToFold
  <2>3. [proc[p] EXCEPT !.todo = @ \ {f}] \in State
    BY <2>1 DEF State
  <2>4. f \in File /\ (f \in DOMAIN home => home[f] \in Record)
    BY <2>1 DEF TypeOK
  <2>5. f \in DOMAIN home =>
          [pc |-> "put", todo |-> proc[p].todo \ {f}, file |-> f, rec |-> home[f]] \in State
    BY <2>1, <2>4 DEF State
  <2>6. proc' \in [Process -> State]
    BY <1>0, <2>2, <2>3, <2>5, TypedGo
  <2> QED BY <1>4, <2>6 DEF LoadToFold, TypeOK
<1>5. CASE PutFolded(p)
  <2>1. proc[p].file \in File /\ proc[p].rec \in Record /\ proc[p].todo \subseteq File
    BY <1>5, Fields DEF PutFolded, At
  <2>2. Folded(proc[p].file) \in File /\ FoldedRecord(proc[p].rec) \in Record
    BY <2>1, FoldedFile, FoldedRecordIs
  <2>3. /\ [pc |-> "fold", todo |-> proc[p].todo] \in State
        /\ [pc |-> "drop", todo |-> proc[p].todo, file |-> proc[p].file] \in State
    BY <2>1 DEF State
  <2>4. /\ DOMAIN home' \subseteq File /\ home' \in [DOMAIN home' -> Record]
        /\ proc' \in [Process -> State]
    BY <1>5, <2>2, <2>3, TypedWith DEF PutFolded
  <2> QED BY <1>5, <2>4 DEF PutFolded, TypeOK
<1>6. CASE DropOld(p)
  <2>1. proc[p].todo \subseteq File
    BY <1>6, Fields DEF DropOld, At
  <2>2. [pc |-> "fold", todo |-> proc[p].todo] \in State
    BY <2>1 DEF State
  <2>3. /\ DOMAIN home' \subseteq File /\ home' \in [DOMAIN home' -> Record]
        /\ proc' \in [Process -> State]
    BY <1>0, <1>6, <2>2, TypedWithout DEF DropOld
  <2> QED BY <1>6, <2>3 DEF DropOld, TypeOK
<1>7. CASE EndFold(p) \/ Crash(p)
  <2>1. proc' \in [Process -> State]
    BY <1>0, <1>7, TypedGo DEF EndFold, Crash
  <2> QED BY <1>7, <2>1 DEF EndFold, Crash, TypeOK
<1> QED BY <1>1, <1>2, <1>3, <1>4, <1>5, <1>6, <1>7 DEF Changes

\* A step of p leaves the other processes where they are.
LEMMA OthersStay ==
  ASSUME TypeOK, Commanded, NEW p \in Process, Creates(p) \/ LooksUp(p) \/ Changes(p)
  PROVE  \A q \in Process \ {p} : Stays(q) /\ (~At(q, "scan") => proc'[q] = proc[q])
<1>1. ASSUME NEW state, Go(p, state)
      PROVE  \A q \in Process \ {p} : Stays(q) /\ (~At(q, "scan") => proc'[q] = proc[q])
  BY <1>1, Going DEF Stays
<1>2. ASSUME NEW new, NEW state, Writes(p, new, state)
      PROVE  \A q \in Process \ {p} : Stays(q) /\ (~At(q, "scan") => proc'[q] = proc[q])
  BY <1>2, Writing
<1>3. CASE Creates(p)
  <2>1. CASE ScanIds(p)
    BY <2>1, <1>1 DEF ScanIds
  <2>2. CASE CheckName(p)
    BY <2>2, <1>1 DEF CheckName, Becomes, Stays, TypeOK
  <2>3. CASE WriteHome(p)
    BY <2>3, <1>2 DEF WriteHome
  <2>4. CASE ReadIndex(p)
    BY <2>4, <1>1 DEF ReadIndex
  <2>5. CASE WriteIndex(p)
    BY <2>5, <1>1 DEF WriteIndex
  <2>6. CASE WriteDefinition(p)
    BY <2>6, <1>1 DEF WriteDefinition
  <2> QED BY <1>3, <2>1, <2>2, <2>3, <2>4, <2>5, <2>6 DEF Creates
<1>4. CASE LooksUp(p)
  <2>1. CASE \E op \in Ops, id \in Id : Lookup(p, op, id)
    BY <2>1, <1>1 DEF Lookup, Found
  <2>2. CASE ScanFolder(p)
    BY <2>2, <1>1 DEF ScanFolder
  <2>3. CASE RebuildIndex(p)
    BY <2>3, <1>1 DEF RebuildIndex, Found
  <2>4. CASE Answered(p)
    BY <2>4, <1>1 DEF Answered
  <2>5. CASE Materialize(p)
    BY <2>5, <1>1, <1>2 DEF Materialize
  <2>6. CASE Delete(p)
    BY <2>6, <1>2 DEF Delete
  <2> QED BY <1>4, <2>1, <2>2, <2>3, <2>4, <2>5, <2>6 DEF LooksUp
<1>5. CASE Changes(p)
  <2>1. CASE LoadToIsolate(p)
    BY <2>1, <1>1 DEF LoadToIsolate
  <2>2. CASE WriteIsolated(p)
    BY <2>2, <1>2 DEF WriteIsolated
  <2>3. CASE ListFold(p)
    BY <2>3, <1>1 DEF ListFold
  <2>4. CASE LoadToFold(p)
    BY <2>4, <1>1 DEF LoadToFold
  <2>5. CASE PutFolded(p)
    BY <2>5, <1>2 DEF PutFolded
  <2>6. CASE DropOld(p)
    BY <2>6, <1>2 DEF DropOld
  <2>7. CASE EndFold(p) \/ Crash(p)
    BY <2>7, <1>1 DEF EndFold, Crash
  <2> QED BY <1>5, <2>1, <2>2, <2>3, <2>4, <2>5, <2>6, <2>7 DEF Changes
<1> QED BY <1>3, <1>4, <1>5

LEMMA LedNext ==
  ASSUME TypeOK, Commanded, NEW p \in Process, Creates(p) \/ LooksUp(p) \/ Changes(p)
  PROVE  Commanded'
<1>1. ASSUME NEW q \in Process, q # p
      PROVE  Led(q)'
  BY <1>1, OthersStay DEF Stays, Commanded, Led, At
<1>2. Led(p)
  BY DEF Commanded
<1>3. ASSUME proc'[p] = Idle
      PROVE  Led(p)'
  BY <1>3 DEF Led, Idle, Making
<1>4. ASSUME NEW op \in Ops, NEW id \in Id, NEW f \in File \union {None, Duplicate},
             op \in Does[p], Found(p, op, id, f)
      PROVE  Led(p)'
  <2>1. CASE proc'[p] = [pc |-> "answer", id |-> id, is |-> f]
    BY <2>1 DEF Led, Making
  <2>2. CASE Cwd[p] \in HasStore /\ proc'[p] = [pc |-> "bring", op |-> op, id |-> id]
    BY <1>4, <2>2 DEF Led, Making
  <2>3. CASE op \in {"isolate", "delete"} /\ proc'[p] = [pc |-> op, file |-> f]
    <3>1. proc'[p].pc = op
      BY <2>3
    <3> QED BY <1>4, <2>3, <3>1 DEF Led, Making
  <2> QED BY <1>3, <1>4, <2>1, <2>2, <2>3, Leads
<1>5. ASSUME Creates(p)
      PROVE  Led(p)'
  <2>1. "create" \in Does[p]
    BY <1>2, <1>5 DEF Creates, ScanIds, CheckName, WriteHome, ReadIndex, WriteIndex, WriteDefinition,
                      Starts, Led, At, Making
  <2>2. proc'[p] = Idle \/ proc'[p].pc \in Making
    <3>1. CASE ScanIds(p)
      BY <3>1 DEF ScanIds, Go, Making, TypeOK
    <3>2. CASE CheckName(p)
      <4>1. proc[p] \in [pc : {"check", "write"}, id : Id, file : File]
        BY <3>2, Fields DEF CheckName
      <4> QED BY <3>2, <4>1 DEF CheckName, Becomes, Go, Making, TypeOK
    <3>3. CASE WriteHome(p)
      BY <3>3 DEF WriteHome, Writes, Making
    <3>4. CASE ReadIndex(p)
      BY <3>4 DEF ReadIndex, Go, Making, TypeOK
    <3>5. CASE WriteIndex(p)
      <4> DEFINE s == [pc |-> "define", id |-> proc[p].id, file |-> proc[p].file,
                       birth |-> proc[p].birth]
      <4>1. s.pc = "define"
        OBVIOUS
      <4>2. Go(p, Idle) \/ Go(p, s)
        BY <3>5 DEF WriteIndex
      <4> HIDE DEF s
      <4>3. proc'[p] = Idle \/ proc'[p] = s
        BY <4>2 DEF Go, TypeOK
      <4> QED BY <4>1, <4>3 DEF Making
    <3>6. CASE WriteDefinition(p)
      BY <3>6, Going DEF WriteDefinition
    <3> QED BY <1>5, <3>1, <3>2, <3>3, <3>4, <3>5, <3>6 DEF Creates
  <2> QED BY <1>3, <2>1, <2>2 DEF Led, Making
<1>6. ASSUME LooksUp(p)
      PROVE  Led(p)'
  <2>1. ASSUME NEW op \in Ops, NEW id \in Id, Lookup(p, op, id)
        PROVE  Led(p)'
    <3>1. op \in Does[p]
      BY <2>1 DEF Lookup, Starts
    <3>2. CASE Indexed(id)
      BY <1>4, <2>1, <3>1, <3>2, IndexTells DEF Lookup
    <3>3. CASE ~Indexed(id)
      <4>1. proc'[p].pc = "scan" /\ proc'[p].op = op
        BY <2>1, <3>3, Going DEF Lookup
      <4> QED BY <3>1, <4>1 DEF Led, Making
    <3> QED BY <3>2, <3>3
  <2>2. CASE ScanFolder(p)
    <3>1. proc[p] \in Scan
      BY <2>2, Fields DEF ScanFolder
    <3>2. proc'[p].pc = "scan" /\ proc'[p].op = proc[p].op
      BY <2>2, <3>1 DEF ScanFolder, Go, Scan, TypeOK
    <3> QED BY <1>2, <3>1, <3>2 DEF Led, Making, Scan
  <2>3. CASE RebuildIndex(p)
    BY <1>2, <1>4, <2>3, ScanTells DEF Led, At
  <2>4. CASE Answered(p)
    BY <1>3, <2>4, Going DEF Answered
  <2>5. CASE Materialize(p)
    <3>1. At(p, "bring") /\ proc[p].op \in {"resolve", "isolate", "delete"} /\ proc[p].op \in Does[p]
      BY <1>2, <2>5, Fields DEF Materialize, Led, At
    <3>2. proc'[p] = Idle \/ \E f : proc[p].op # "resolve" /\ proc'[p] = [pc |-> proc[p].op, file |-> f]
      BY <2>5 DEF Materialize, Go, Writes, TypeOK
    <3>3. ASSUME NEW f, proc[p].op # "resolve", proc'[p] = [pc |-> proc[p].op, file |-> f]
          PROVE  Led(p)'
      <4>1. proc'[p].pc = proc[p].op
        BY <3>3
      <4> QED BY <3>1, <3>3, <4>1 DEF Led, Making
    <3> QED BY <1>3, <3>2, <3>3
  <2>6. CASE Delete(p)
    BY <1>3, <2>6, Writing DEF Delete
  <2> QED BY <1>6, <2>1, <2>2, <2>3, <2>4, <2>5, <2>6 DEF LooksUp
<1>7. ASSUME Changes(p)
      PROVE  Led(p)'
  <2>1. CASE LoadToIsolate(p)
    <3>1. "isolate" \in Does[p]
      BY <1>2, <2>1 DEF LoadToIsolate, Led, At
    <3>2. proc'[p] = Idle \/ proc'[p].pc = "write isolated"
      <4> DEFINE s == [pc |-> "write isolated", file |-> proc[p].file, rec |-> home[proc[p].file]]
      <4>1. s.pc = "write isolated"
        OBVIOUS
      <4>2. Go(p, Idle) \/ Go(p, s)
        BY <2>1 DEF LoadToIsolate
      <4> HIDE DEF s
      <4>3. proc'[p] = Idle \/ proc'[p] = s
        BY <4>2 DEF Go, TypeOK
      <4> QED BY <4>1, <4>3
    <3> QED BY <1>3, <3>1, <3>2 DEF Led, Making
  <2>2. CASE WriteIsolated(p)
    BY <1>3, <2>2, Writing DEF WriteIsolated
  <2>3. CASE ListFold(p) \/ LoadToFold(p) \/ PutFolded(p) \/ DropOld(p)
    <3>1. "fold" \in Does[p]
      BY <1>2, <2>3 DEF ListFold, LoadToFold, PutFolded, DropOld, Led, At, Starts
    <3>2. proc'[p] = Idle \/ proc'[p].pc \in {"fold", "put", "drop"}
      <4>1. CASE ListFold(p)
        BY <4>1, Going DEF ListFold
      <4>2. CASE LoadToFold(p)
        <5>1. proc[p] \in [pc : {"fold"}, todo : SUBSET File]
          BY <4>2, Fields DEF LoadToFold
        <5> QED BY <4>2, <5>1, Going DEF LoadToFold
      <4>3. CASE PutFolded(p)
        BY <4>3, Writing DEF PutFolded
      <4>4. CASE DropOld(p)
        BY <4>4, Writing DEF DropOld
      <4> QED BY <2>3, <4>1, <4>2, <4>3, <4>4
    <3> QED BY <1>3, <3>1, <3>2 DEF Led, Making
  <2>4. CASE EndFold(p) \/ Crash(p)
    BY <1>3, <2>4, Going DEF EndFold, Crash
  <2> QED BY <1>7, <2>1, <2>2, <2>3, <2>4 DEF Changes
<1>8. Led(p)'
  BY <1>5, <1>6, <1>7
<1> QED BY <1>1, <1>8 DEF Commanded

LEMMA TypesNext ==
  ASSUME TypeOK, Commanded, [Next]_vars
  PROVE  TypeOK' /\ Commanded'
<1>1. CASE MergeDefinition
  BY <1>1, MergeTypes DEF MergeDefinition, Commanded, Led
<1>2. ASSUME NEW p \in Process, Creates(p) \/ LooksUp(p) \/ Changes(p)
      PROVE  TypeOK' /\ Commanded'
  BY <1>2, CreateTypes, LookupTypes, ChangeTypes, LedNext
<1>3. CASE UNCHANGED vars
  BY <1>3 DEF vars, TypeOK, Commanded, Led
<1> QED BY <1>1, <1>2, <1>3, Steps

LEMMA Typed == Spec => [](TypeOK /\ Commanded)
<1>1. Init => TypeOK /\ Commanded
  <2>1. Init => \A p \in Process : proc[p].pc = "idle"
    BY DEF Init, Idle
  <2> QED BY <2>1, TypesInit DEF Commanded, Led, Making
<1> QED BY <1>1, TypesNext, PTL DEF Spec

(* Every file, record, definition, index entry and local of a command is   *)
(* of its type, in particular each record names the checkout it is of and  *)
(* a record of an isolated worker the mother it goes back to.              *)
THEOREM TypesHold == Spec => []TypeOK
BY Typed, PTL

-----------------------------------------------------------------------------
(* Answers.                                                                *)

\* A step of p either leaves the home store alone, and then the other processes
\* as they are, or it writes it and p does not scan then.
LEMMA HomeSteps ==
  ASSUME TypeOK, Commanded, NEW p \in Process, Creates(p) \/ LooksUp(p) \/ Changes(p)
  PROVE  \/ UNCHANGED home /\ \A q \in Process \ {p} : proc'[q] = proc[q]
         \/ /\ \A q \in Process \ {p} : At(q, "scan") =>
                 proc'[q].had =
                   {f \in proc[q].had : f \in DOMAIN home' /\ home'[f].id = proc[q].id}
            /\ proc'[p].pc # "scan"
<1> DEFINE Goal ==
      \/ UNCHANGED home /\ \A q \in Process \ {p} : proc'[q] = proc[q]
      \/ /\ \A q \in Process \ {p} : At(q, "scan") =>
              proc'[q].had =
                {f \in proc[q].had : f \in DOMAIN home' /\ home'[f].id = proc[q].id}
         /\ proc'[p].pc # "scan"
<1> SUFFICES Goal
  OBVIOUS
<1>1. ASSUME NEW state, Go(p, state), UNCHANGED home
      PROVE  Goal
  BY <1>1, Going
<1>2. ASSUME NEW new, NEW state, Writes(p, new, state), state.pc # "scan"
      PROVE  Goal
  BY <1>2, Writing
<1> HIDE DEF Goal
<1>0. Idle.pc # "scan"
  BY DEF Idle
<1>3. CASE Creates(p)
  <2>1. CASE ScanIds(p)
    BY <2>1, <1>1 DEF ScanIds
  <2>2. CASE CheckName(p)
    BY <2>2, <1>1 DEF CheckName, Becomes, Goal, TypeOK
  <2>3. CASE WriteHome(p)
    <3> DEFINE s == [pc |-> "read index", id |-> proc[p].id, file |-> proc[p].file,
                     birth |-> births + 1]
    <3>1. s.pc # "scan"
      OBVIOUS
    <3>2. PICK new : Writes(p, new, s)
      BY <2>3 DEF WriteHome
    <3> HIDE DEF s
    <3> QED BY <3>1, <3>2, <1>2
  <2>4. CASE ReadIndex(p)
    BY <2>4, <1>1 DEF ReadIndex
  <2>5. CASE WriteIndex(p)
    BY <2>5, <1>1 DEF WriteIndex
  <2>6. CASE WriteDefinition(p)
    BY <2>6, <1>1 DEF WriteDefinition
  <2> QED BY <1>3, <2>1, <2>2, <2>3, <2>4, <2>5, <2>6 DEF Creates, Goal
<1>4. CASE LooksUp(p)
  <2>1. CASE \E op \in Ops, id \in Id : Lookup(p, op, id)
    BY <2>1, <1>1 DEF Lookup, Found
  <2>2. CASE ScanFolder(p)
    BY <2>2, <1>1 DEF ScanFolder
  <2>3. CASE RebuildIndex(p)
    BY <2>3, <1>1 DEF RebuildIndex, Found
  <2>4. CASE Answered(p)
    BY <2>4, <1>1 DEF Answered
  <2>5. CASE Materialize(p)
    <3>1. CASE Go(p, Idle) /\ UNCHANGED home
      BY <3>1, <1>1
    <3>2. CASE ~(Go(p, Idle) /\ UNCHANGED home)
      <4>1. PICK f, r : Writes(p, With(home, f, r),
                               IF proc[p].op = "resolve" THEN Idle ELSE [pc |-> proc[p].op, file |-> f])
        BY <2>5, <3>2 DEF Materialize
      <4>2. proc[p].op # "scan"
        BY <2>5, Fields DEF Materialize
      <4>3. [pc |-> proc[p].op, file |-> f].pc # "scan"
        BY <4>2
      <4> QED BY <1>0, <1>2, <4>1, <4>3
    <3> QED BY <3>1, <3>2
  <2>6. CASE Delete(p)
    BY <2>6, <1>0, <1>2 DEF Delete
  <2> QED BY <1>4, <2>1, <2>2, <2>3, <2>4, <2>5, <2>6 DEF LooksUp, Goal
<1>5. CASE Changes(p)
  <2>1. CASE LoadToIsolate(p)
    BY <2>1, <1>1 DEF LoadToIsolate
  <2>2. CASE WriteIsolated(p)
    BY <2>2, <1>0, <1>2 DEF WriteIsolated
  <2>3. CASE ListFold(p)
    BY <2>3, <1>1 DEF ListFold
  <2>4. CASE LoadToFold(p)
    BY <2>4, <1>1 DEF LoadToFold
  <2>5. CASE PutFolded(p)
    BY <2>5, <1>2 DEF PutFolded
  <2>6. CASE DropOld(p)
    BY <2>6, <1>0, <1>2 DEF DropOld
  <2>7. CASE EndFold(p) \/ Crash(p)
    BY <2>7, <1>1 DEF EndFold, Crash
  <2> QED BY <1>5, <2>1, <2>2, <2>3, <2>4, <2>5, <2>6, <2>7 DEF Changes, Goal
<1> QED BY <1>3, <1>4, <1>5 DEF Goal

\* Where a step leads.
LEMMA Leaving ==
  ASSUME TypeOK, Commanded, NEW p \in Process
  PROVE  /\ ScanIds(p) => proc'[p].pc = "check"
         /\ CheckName(p) => proc'[p].pc \in {"idle", "write"}
         /\ WriteHome(p) => proc'[p].pc = "read index"
         /\ ReadIndex(p) => proc'[p].pc = "write index"
         /\ WriteIndex(p) => proc'[p].pc \in {"idle", "define"}
         /\ WriteDefinition(p) \/ Answered(p) \/ Delete(p) \/ WriteIsolated(p) \/ EndFold(p) \/ Crash(p)
              => proc'[p] = Idle
         /\ \A op \in Ops, id \in Id : Lookup(p, op, id) =>
              \/ Indexed(id) /\ proc'[p].pc \in {"idle", "answer", "bring", "isolate", "delete"}
              \/ ~Indexed(id) /\ proc'[p].pc = "scan"
         /\ ScanFolder(p) => proc'[p].pc = "scan"
         /\ RebuildIndex(p) => proc'[p].pc \in {"idle", "answer", "bring", "isolate", "delete"}
         /\ Materialize(p) => proc'[p].pc \in {"idle", "isolate", "delete"}
         /\ LoadToIsolate(p) => proc'[p].pc \in {"idle", "write isolated"}
         /\ ListFold(p) => proc'[p].pc = "fold"
         /\ LoadToFold(p) => proc'[p].pc \in {"idle", "fold", "put"}
         /\ PutFolded(p) => proc'[p].pc \in {"fold", "drop"}
         /\ DropOld(p) => proc'[p].pc \in {"idle", "fold"}
<1>0. Idle.pc = "idle"
  BY DEF Idle
<1>1. ASSUME NEW op \in Ops, NEW id \in Id, NEW f \in File \union {None, Duplicate},
             Found(p, op, id, f)
      PROVE  proc'[p].pc \in {"idle", "answer", "bring", "isolate", "delete"}
  <2>1. CASE proc'[p] = [pc |-> "answer", id |-> id, is |-> f]
    BY <2>1
  <2>2. CASE proc'[p] = [pc |-> "bring", op |-> op, id |-> id]
    BY <2>2
  <2>3. CASE op \in {"isolate", "delete"} /\ proc'[p] = [pc |-> op, file |-> f]
    BY <2>3
  <2> QED BY <1>0, <1>1, <2>1, <2>2, <2>3, Leads
<1>2. ScanIds(p) => proc'[p].pc = "check"
  BY DEF ScanIds, Go, TypeOK
<1>3. CheckName(p) => proc'[p].pc \in {"idle", "write"}
  <2>1. CheckName(p) => proc[p] \in [pc : {"check", "write"}, id : Id, file : File]
    BY Fields DEF CheckName
  <2> QED BY <1>0, <2>1 DEF CheckName, Becomes, Go, TypeOK
<1>4. WriteHome(p) => proc'[p].pc = "read index"
  <2> DEFINE s == [pc |-> "read index", id |-> proc[p].id, file |-> proc[p].file,
                   birth |-> births + 1]
  <2>1. s.pc = "read index"
    OBVIOUS
  <2>2. WriteHome(p) => proc'[p] = s
    BY DEF WriteHome, Writes
  <2> HIDE DEF s
  <2> QED BY <2>1, <2>2
<1>5. ReadIndex(p) => proc'[p].pc = "write index"
  <2> DEFINE s == [pc |-> "write index", id |-> proc[p].id, file |-> proc[p].file,
                   birth |-> proc[p].birth, index |-> index]
  <2>1. s.pc = "write index"
    OBVIOUS
  <2>2. ReadIndex(p) => proc'[p] = s
    BY DEF ReadIndex, Go, TypeOK
  <2> HIDE DEF s
  <2> QED BY <2>1, <2>2
<1>6. WriteIndex(p) => proc'[p].pc \in {"idle", "define"}
  <2> DEFINE s == [pc |-> "define", id |-> proc[p].id, file |-> proc[p].file,
                   birth |-> proc[p].birth]
  <2>1. s.pc = "define"
    OBVIOUS
  <2>2. WriteIndex(p) => Go(p, Idle) \/ Go(p, s)
    BY DEF WriteIndex
  <2> HIDE DEF s
  <2> QED BY <1>0, <2>1, <2>2, Going
<1>7. WriteDefinition(p) \/ Answered(p) \/ Delete(p) \/ WriteIsolated(p) \/ EndFold(p) \/ Crash(p)
        => proc'[p] = Idle
  BY Going DEF WriteDefinition, Answered, Delete, WriteIsolated, EndFold, Crash, Writes
<1>8. ASSUME NEW op \in Ops, NEW id \in Id, Lookup(p, op, id)
      PROVE  \/ Indexed(id) /\ proc'[p].pc \in {"idle", "answer", "bring", "isolate", "delete"}
             \/ ~Indexed(id) /\ proc'[p].pc = "scan"
  <2>1. CASE Indexed(id)
    BY <1>1, <1>8, <2>1, IndexTells DEF Lookup
  <2>2. CASE ~Indexed(id)
    BY <1>8, <2>2 DEF Lookup, Go, TypeOK
  <2> QED BY <2>1, <2>2
<1>9. ScanFolder(p) => proc'[p].pc = "scan"
  <2>1. ScanFolder(p) => proc[p] \in Scan
    BY Fields DEF ScanFolder
  <2> QED BY <2>1 DEF ScanFolder, Go, Scan, TypeOK
<1>10. RebuildIndex(p) => proc'[p].pc \in {"idle", "answer", "bring", "isolate", "delete"}
  BY <1>1, ScanTells
<1>11. Materialize(p) => proc'[p].pc \in {"idle", "isolate", "delete"}
  <2>1. CASE Materialize(p) /\ Go(p, Idle)
    BY <1>0, <2>1, Going
  <2>2. CASE Materialize(p) /\ ~Go(p, Idle)
    <3>1. PICK f, r : Writes(p, With(home, f, r),
                             IF proc[p].op = "resolve" THEN Idle ELSE [pc |-> proc[p].op, file |-> f])
      BY <2>2 DEF Materialize
    <3>2. proc[p].op \in {"resolve", "isolate", "delete"}
      BY <2>2, Fields DEF Materialize
    <3>3. [pc |-> proc[p].op, file |-> f].pc = proc[p].op
      OBVIOUS
    <3> QED BY <1>0, <3>1, <3>2, <3>3 DEF Writes
  <2> QED BY <2>1, <2>2
<1>12. LoadToIsolate(p) => proc'[p].pc \in {"idle", "write isolated"}
  <2> DEFINE s == [pc |-> "write isolated", file |-> proc[p].file, rec |-> home[proc[p].file]]
  <2>1. s.pc = "write isolated"
    OBVIOUS
  <2>2. LoadToIsolate(p) => Go(p, Idle) \/ Go(p, s)
    BY DEF LoadToIsolate
  <2> HIDE DEF s
  <2> QED BY <1>0, <2>1, <2>2, Going
<1>13. ListFold(p) => proc'[p].pc = "fold"
  BY DEF ListFold, Go, TypeOK
<1>14. LoadToFold(p) => proc'[p].pc \in {"idle", "fold", "put"}
  <2>1. LoadToFold(p) => proc[p] \in [pc : {"fold"}, todo : SUBSET File]
    BY Fields DEF LoadToFold
  <2> DEFINE put(f) == [pc |-> "put", todo |-> proc[p].todo \ {f}, file |-> f, rec |-> home[f]]
  <2> DEFINE skip(f) == [proc[p] EXCEPT !.todo = @ \ {f}]
  <2>2. \A f : put(f).pc = "put"
    OBVIOUS
  <2>3. LoadToFold(p) => \A f : skip(f).pc = "fold"
    BY <2>1
  <2>4. LoadToFold(p) => \E f \in proc[p].todo : Go(p, skip(f)) \/ Go(p, Idle) \/ Go(p, put(f))
    BY DEF LoadToFold
  <2> HIDE DEF put, skip
  <2> QED BY <1>0, <2>2, <2>3, <2>4, Going
<1>15. PutFolded(p) => proc'[p].pc \in {"fold", "drop"}
  BY DEF PutFolded, Writes
<1>16. DropOld(p) => proc'[p].pc \in {"idle", "fold"}
  BY <1>0 DEF DropOld, Writes
<1> QED
  BY <1>2, <1>3, <1>4, <1>5, <1>6, <1>7, <1>8, <1>9, <1>10, <1>11, <1>12, <1>13, <1>14, <1>15, <1>16

\* A process scans after a step of its own only if that step began the scan, or
\* read a folder.
LEMMA ScanSteps ==
  ASSUME TypeOK, Commanded, NEW p \in Process, Creates(p) \/ LooksUp(p) \/ Changes(p),
         proc'[p].pc = "scan"
  PROVE  /\ ScanFolder(p) \/ \E op \in Ops, id \in Id : Lookup(p, op, id) /\ ~Indexed(id)
         /\ UNCHANGED home
<1>1. Idle.pc # "scan"
  BY DEF Idle
<1>2. ScanFolder(p) \/ \E op \in Ops, id \in Id : Lookup(p, op, id) /\ ~Indexed(id)
  BY <1>1, Leaving DEF Creates, LooksUp, Changes
<1> QED BY <1>2 DEF ScanFolder, Lookup

\* A file that has had the id since the scan began is in a folder still to be
\* read, or was seen.
Tracked ==
  \A p \in Process : At(p, "scan") =>
    \A f \in proc[p].had :
      /\ f \in FilesOf(proc[p].id)
      /\ f.dir \in proc[p].todo \/ <<proc[p].id, f>> \in proc[p].seen

\* What a folder adds to what a scan has seen.
LEMMA FolderRead ==
  ASSUME TypeOK, NEW p \in Process, ScanFolder(p)
  PROVE  /\ proc'[p].id = proc[p].id /\ proc'[p].had = proc[p].had /\ proc'[p].op = proc[p].op
         /\ proc'[p].pc = "scan" /\ UNCHANGED home
         /\ \A f \in FilesOf(proc[p].id) :
              (f.dir \in proc[p].todo \/ <<proc[p].id, f>> \in proc[p].seen)
                => (f.dir \in proc'[p].todo \/ <<proc[p].id, f>> \in proc'[p].seen)
<1>1. proc[p] \in Scan
  BY Fields DEF ScanFolder
<1>2. PICK dir \in proc[p].todo :
        proc' = [proc EXCEPT ![p] = [proc[p] EXCEPT
                   !.todo = @ \ {dir},
                   !.seen = @ \union {<<home[f].id, f>> : f \in {g \in DOMAIN home : g.dir = dir}}]]
  BY DEF ScanFolder, Go
<1> DEFINE new == {<<home[f].id, f>> : f \in {g \in DOMAIN home : g.dir = dir}}
<1>3. proc'[p] = [proc[p] EXCEPT !.todo = @ \ {dir}, !.seen = @ \union new]
  BY <1>2 DEF TypeOK
<1>4. \A f \in FilesOf(proc[p].id) : f.dir = dir => <<proc[p].id, f>> \in new
  BY DEF FilesOf
<1> HIDE DEF new
<1>5. /\ proc'[p].id = proc[p].id /\ proc'[p].had = proc[p].had /\ proc'[p].op = proc[p].op
      /\ proc'[p].pc = "scan"
      /\ proc'[p].todo = proc[p].todo \ {dir} /\ proc'[p].seen = proc[p].seen \union new
  BY <1>1, <1>3 DEF Scan
<1> QED BY <1>4, <1>5 DEF ScanFolder

LEMMA TrackedNext ==
  ASSUME TypeOK, Commanded, Tracked, [Next]_vars
  PROVE  Tracked'
<1>1. CASE MergeDefinition \/ UNCHANGED vars
  BY <1>1 DEF MergeDefinition, vars, Tracked, FilesOf, At
<1>2. ASSUME NEW p \in Process, Creates(p) \/ LooksUp(p) \/ Changes(p)
      PROVE  Tracked'
  <2>1. ASSUME NEW q \in Process, q # p, At(q, "scan")', NEW f \in proc'[q].had
        PROVE  /\ f \in FilesOf(proc[q].id)' /\ proc'[q].id = proc[q].id
               /\ f.dir \in proc'[q].todo \/ <<proc'[q].id, f>> \in proc'[q].seen
    <3>1. Stays(q) /\ At(q, "scan")
      BY <1>2, <2>1, OthersStay DEF Stays, At
    <3>2. /\ proc'[q].id = proc[q].id /\ proc'[q].todo = proc[q].todo
          /\ proc'[q].seen = proc[q].seen
      BY <3>1 DEF Stays
    <3>3. \A g \in proc[q].had :
            /\ g \in FilesOf(proc[q].id)
            /\ g.dir \in proc[q].todo \/ <<proc[q].id, g>> \in proc[q].seen
      BY <3>1 DEF Tracked
    <3>4. CASE UNCHANGED home /\ proc'[q] = proc[q]
      BY <2>1, <3>3, <3>4 DEF FilesOf
    <3>5. CASE proc'[q].had =
                 {g \in proc[q].had : g \in DOMAIN home' /\ home'[g].id = proc[q].id}
      <4>1. f \in proc[q].had /\ f \in DOMAIN home' /\ home'[f].id = proc[q].id
        BY <2>1, <3>5
      <4>2. f \in FilesOf(proc[q].id)'
        BY <3>2, <4>1 DEF FilesOf
      <4> QED BY <3>2, <3>3, <4>1, <4>2
    <3> QED BY <1>2, <2>1, <3>1, <3>4, <3>5, HomeSteps
  <2>2. ASSUME At(p, "scan")', NEW f \in proc'[p].had
        PROVE  /\ f \in FilesOf(proc[p].id)'
               /\ f.dir \in proc'[p].todo \/ <<proc'[p].id, f>> \in proc'[p].seen
    <3>1. /\ ScanFolder(p) \/ \E op \in Ops, id \in Id : Lookup(p, op, id) /\ ~Indexed(id)
          /\ UNCHANGED home
      BY <1>2, <2>2, ScanSteps DEF At
    <3>2. CASE ScanFolder(p)
      <4>1. \A g \in proc[p].had :
              /\ g \in FilesOf(proc[p].id)
              /\ g.dir \in proc[p].todo \/ <<proc[p].id, g>> \in proc[p].seen
        BY <3>2 DEF Tracked, ScanFolder
      <4>2. f \in proc[p].had /\ proc'[p].id = proc[p].id
        BY <2>2, <3>2, FolderRead
      <4>3. f \in FilesOf(proc[p].id)'
        BY <3>1, <4>1, <4>2 DEF FilesOf
      <4> QED BY <3>2, <4>1, <4>2, <4>3, FolderRead
    <3>3. ASSUME NEW op \in Ops, NEW id \in Id, Lookup(p, op, id), ~Indexed(id)
          PROVE  /\ f \in FilesOf(proc[p].id)'
                 /\ f.dir \in proc'[p].todo \/ <<proc'[p].id, f>> \in proc'[p].seen
      <4>1. proc'[p] = [pc |-> "scan", op |-> op, id |-> id, todo |-> Project, seen |-> {},
                        had |-> FilesOf(id)]
        BY <3>3, Going DEF Lookup
      <4>2. proc'[p].id = id /\ proc'[p].todo = Project /\ proc'[p].had = FilesOf(id)
        BY <4>1
      <4>3. f \in FilesOf(id) /\ f \in File
        BY <2>2, <4>2 DEF FilesOf, TypeOK
      <4>4. f \in FilesOf(proc[p].id)'
        BY <3>1, <4>2, <4>3 DEF FilesOf
      <4> QED BY <4>2, <4>3, <4>4 DEF File
    <3> QED BY <3>1, <3>2, <3>3
  <2>3. ASSUME NEW q \in Process, At(q, "scan")', NEW f \in proc'[q].had
        PROVE  /\ f \in FilesOf(proc[q].id)'
               /\ f.dir \in proc'[q].todo \/ <<proc'[q].id, f>> \in proc'[q].seen
    BY <2>1, <2>2, <2>3
  <2> QED BY <2>3 DEF Tracked
<1> QED BY <1>1, <1>2, Steps

(* The answer of a lookup is true of the store: an answer from the index   *)
(* is a file of that id, and a scan misses no file that has had the id all *)
(* the time, whatever others create, fold, isolate, delete or re-index in  *)
(* the meantime (find_task_by_id, rebuild_task_index).                     *)
THEOREM AnswersAreTrue == Spec => LookupTrue
<1>1. ASSUME TypeOK, Commanded, Tracked, [Next]_vars, NEW p \in Process
      PROVE  /\ At(p, "idle") /\ At(p, "answer")' => proc'[p].is \in FilesOf(proc'[p].id)
             /\ At(p, "scan") /\ At(p, "answer")' /\ proc'[p].is # Duplicate
                  => \A f \in proc[p].had : f = proc'[p].is
  <2> SUFFICES ASSUME At(p, "idle") \/ At(p, "scan"), At(p, "answer")'
               PROVE  /\ At(p, "idle") => proc'[p].is \in FilesOf(proc'[p].id)
                      /\ At(p, "scan") /\ proc'[p].is # Duplicate
                           => \A f \in proc[p].had : f = proc'[p].is
    OBVIOUS
  <2>1. Creates(p) \/ LooksUp(p) \/ Changes(p)
    <3>1. proc'[p] # proc[p]
      BY DEF At
    <3>2. ASSUME NEW q \in Process, q # p, Creates(q) \/ LooksUp(q) \/ Changes(q)
          PROVE  FALSE
      BY <1>1, <3>2, OthersStay DEF Stays, At
    <3> QED BY <1>1, <3>1, <3>2, Steps DEF MergeDefinition, vars
  <2>2. CASE At(p, "idle")
    <3>1. PICK op \in Ops, id \in Id : Lookup(p, op, id)
      <4>1. ScanIds(p) \/ ListFold(p) \/ \E op \in Ops, id \in Id : Lookup(p, op, id)
        BY <2>1, <2>2 DEF Creates, LooksUp, Changes, At, CheckName, WriteHome, ReadIndex, WriteIndex,
             WriteDefinition, ScanFolder, RebuildIndex, Answered, Materialize, Delete, LoadToIsolate,
             WriteIsolated, LoadToFold, PutFolded, DropOld, EndFold, Crash
      <4>2. ~ScanIds(p) /\ ~ListFold(p)
        BY <1>1 DEF ScanIds, ListFold, Go, At, TypeOK
      <4> QED BY <4>1, <4>2
    <3>2. Indexed(id)
      <4>1. CASE ~Indexed(id)
        <5>1. proc'[p] = [pc |-> "scan", op |-> op, id |-> id, todo |-> Project, seen |-> {},
                          had |-> FilesOf(id)]
          BY <1>1, <3>1, <4>1, Going DEF Lookup
        <5> QED BY <5>1 DEF At
      <4> QED BY <4>1
    <3>3. index[id] \in File /\ index[id] \in FilesOf(id) /\ Found(p, op, id, index[id])
      BY <1>1, <3>1, <3>2, IndexTells DEF Lookup
    <3>4. proc'[p] = [pc |-> "answer", id |-> id, is |-> index[id]]
      <4>1. proc'[p] # Idle
        BY DEF At, Idle
      <4>2. proc'[p] # [pc |-> "bring", op |-> op, id |-> id]
        BY DEF At
      <4>3. proc'[p] = [pc |-> op, file |-> index[id]] => op \notin {"isolate", "delete"}
        BY DEF At
      <4> QED BY <1>1, <3>3, <4>1, <4>2, <4>3, Leads
    <3>5. proc'[p].is = index[id] /\ proc'[p].id = id
      BY <3>4
    <3> QED BY <2>2, <3>3, <3>5 DEF At
  <2>3. CASE At(p, "scan")
    <3>1. RebuildIndex(p)
      <4>1. ScanFolder(p) \/ RebuildIndex(p) \/ Crash(p)
        BY <2>1, <2>3 DEF Creates, LooksUp, Changes, At, Starts, ScanIds, CheckName, WriteHome,
             ReadIndex, WriteIndex, WriteDefinition, Lookup, Answered, Materialize, Delete,
             LoadToIsolate, WriteIsolated, ListFold, LoadToFold, PutFolded, DropOld, EndFold
      <4>2. ~ScanFolder(p)
        BY <1>1, FolderRead DEF At
      <4>3. ~Crash(p)
        BY <1>1, Going DEF Crash, At, Idle
      <4> QED BY <4>1, <4>2, <4>3
    <3>2. Found(p, proc[p].op, proc[p].id, Result(p)) /\ proc[p].op \in Ops /\ proc[p].id \in Id
          /\ Result(p) \in File \union {None, Duplicate} /\ proc[p].todo = {}
      BY <1>1, <3>1, ScanTells
    <3>3. proc'[p] = [pc |-> "answer", id |-> proc[p].id, is |-> Result(p)]
      <4>1. proc'[p] # Idle
        BY DEF At, Idle
      <4>2. proc'[p] # [pc |-> "bring", op |-> proc[p].op, id |-> proc[p].id]
        BY DEF At
      <4>3. proc'[p] = [pc |-> proc[p].op, file |-> Result(p)] => proc[p].op \notin {"isolate", "delete"}
        BY DEF At
      <4> QED BY <1>1, <3>2, <4>1, <4>2, <4>3, Leads
    <3>4. proc'[p].is = Result(p)
      BY <3>3
    <3>5. ASSUME NEW f \in proc[p].had, Result(p) # Duplicate
          PROVE  f = Result(p)
      <4>1. f \in FilesOf(proc[p].id) /\ <<proc[p].id, f>> \in proc[p].seen
        BY <1>1, <2>3, <3>2 DEF Tracked
      <4>2. f \in FilesSeen(p, proc[p].id)
        BY <1>1, <4>1 DEF FilesSeen, FilesOf, TypeOK
      <4>3. Unique(FilesSeen(p, proc[p].id)) /\ Result(p) = Only(FilesSeen(p, proc[p].id))
        BY <3>5, <4>2 DEF Result
      <4> QED BY <4>2, <4>3, OnlyOne
    <3> QED BY <2>3, <3>4, <3>5 DEF At
  <2> QED BY <2>2, <2>3
<1>2. TypeOK /\ Commanded /\ Tracked /\ [Next]_vars
        => [\A p \in Process :
              /\ At(p, "idle") /\ At(p, "answer")' => proc'[p].is \in FilesOf(proc'[p].id)
              /\ At(p, "scan") /\ At(p, "answer")' /\ proc'[p].is # Duplicate
                   => \A f \in proc[p].had : f = proc'[p].is]_vars
  BY <1>1
<1>3. Init => Tracked
  BY DEF Init, Idle, Tracked, At
<1>4. TypeOK /\ Commanded /\ Tracked /\ [Next]_vars => Tracked'
  BY TrackedNext
<1>5. Spec => []Tracked
  BY <1>3, <1>4, Typed, PTL DEF Spec
<1> QED BY <1>2, <1>5, Typed, PTL DEF Spec, LookupTrue

-----------------------------------------------------------------------------
(* Fresh ids.                                                              *)

\* The id that a creation has scanned for is in no definition of its checkout.
Unused ==
  \A p \in Process : proc[p].pc \in {"check", "write"} =>
    \A d \in defs[proc[p].file.dir] : d.id # proc[p].id

\* Where a creation is before it writes, and what it knows there.
LEMMA CheckSteps ==
  ASSUME TypeOK, Commanded, NEW p \in Process, Creates(p) \/ LooksUp(p) \/ Changes(p),
         proc'[p].pc \in {"check", "write"}
  PROVE  /\ \/ /\ ScanIds(p) /\ proc'[p].pc = "check" /\ proc'[p].file.num = 0
               /\ proc'[p].file.dir \in Project
               /\ proc'[p].id = MaxTaskId(proc'[p].file.dir) + 1
            \/ /\ CheckName(p) /\ proc'[p].pc = "write" /\ proc[p].pc = "check"
               /\ proc'[p].id = proc[p].id /\ proc'[p].file = proc[p].file
               /\ proc[p].file \notin DOMAIN home
         /\ UNCHANGED <<home, defs, births, crashed>>
         /\ \A q \in Process \ {p} : proc'[q] = proc[q]
<1>1. Idle.pc = "idle"
  BY DEF Idle
<1>2. ScanIds(p) \/ CheckName(p)
  BY <1>1, Leaving DEF Creates, LooksUp, Changes
<1>3. CASE ScanIds(p)
  <2>1. PICK project \in Project, slug \in Slug :
          Go(p, [pc |-> "check", id |-> MaxTaskId(project) + 1,
                 file |-> [dir |-> project, slug |-> slug, num |-> 0]])
    BY <1>3 DEF ScanIds
  <2>2. proc'[p] = [pc |-> "check", id |-> MaxTaskId(project) + 1,
                    file |-> [dir |-> project, slug |-> slug, num |-> 0]]
    BY <2>1, Going
  <2>3. /\ proc'[p].pc = "check" /\ proc'[p].file.num = 0 /\ proc'[p].file.dir = project
        /\ proc'[p].id = MaxTaskId(project) + 1
    BY <2>2
  <2> QED BY <1>3, <2>1, <2>3, Going DEF ScanIds
<1>4. CASE CheckName(p)
  <2>1. proc[p] \in [pc : {"check", "write"}, id : Id, file : File] /\ proc[p].pc = "check"
    BY <1>4, Fields DEF CheckName, At
  <2>2. proc[p].file \notin DOMAIN home
    BY <1>1, <1>4, Going DEF CheckName
  <2>3. proc' = [proc EXCEPT ![p].pc = "write"]
    BY <1>4, <2>2 DEF CheckName, Becomes
  <2>4. proc'[p].pc = "write" /\ proc'[p].id = proc[p].id /\ proc'[p].file = proc[p].file
    BY <2>1, <2>3 DEF TypeOK
  <2>5. \A q \in Process \ {p} : proc'[q] = proc[q]
    BY <2>3 DEF TypeOK
  <2> QED BY <1>4, <2>1, <2>2, <2>4, <2>5 DEF CheckName
<1> QED BY <1>2, <1>3, <1>4

LEMMA DefinitionsChange ==
  ASSUME TypeOK, NEW p \in Process, Creates(p) \/ LooksUp(p) \/ Changes(p)
  PROVE  WriteDefinition(p) \/ UNCHANGED defs
BY DEF Creates, LooksUp, Changes, ScanIds, CheckName, WriteHome, ReadIndex, WriteIndex, Lookup,
       ScanFolder, RebuildIndex, Answered, Materialize, Delete, LoadToIsolate, WriteIsolated, ListFold,
       LoadToFold, PutFolded, DropOld, EndFold, Crash

(* A task comes into being under an id that no definition in its checkout  *)
(* has, whatever was created, deleted, merged in and interrupted before,   *)
(* if one process creates tasks (create_task_with_egress allocates without *)
(* the lock: with two, TLC finds an id given twice).                       *)
THEOREM IdsAreFresh ==
  ASSUME \A p, q \in Process : "create" \in Does[p] \intersect Does[q] => p = q
  PROVE  Spec => FreshDefinition
<1>1. Init => Unused
  BY DEF Init, Idle, Unused
<1>2. ASSUME TypeOK, Commanded, Unused, [Next]_vars
      PROVE  Unused'
  <2>1. CASE MergeDefinition
    BY <2>1 DEF MergeDefinition, Unused, At
  <2>2. CASE UNCHANGED vars
    BY <1>2, <2>2 DEF vars, Unused
  <2>3. ASSUME NEW p \in Process, Creates(p) \/ LooksUp(p) \/ Changes(p),
               NEW q \in Process, proc'[q].pc \in {"check", "write"}, NEW d \in defs'[proc'[q].file.dir]
        PROVE  d.id # proc'[q].id
    <3>1. CASE q = p
      <4>1. CASE ScanIds(p) /\ proc'[p].file.dir \in Project /\ defs' = defs
                   /\ proc'[p].id = MaxTaskId(proc'[p].file.dir) + 1
        <5>1. PICK project \in Project : project = proc'[p].file.dir
          BY <4>1
        <5>2. MaxTaskId(project) \in 0..MaxId /\ d.id <= MaxTaskId(project) /\ d.id \in Id
          BY <1>2, <2>3, <3>1, <4>1, <5>1, AboveAll DEF TypeOK, Definition
        <5>3. proc'[p].id = MaxTaskId(project) + 1
          BY <4>1, <5>1
        <5> HIDE DEF MaxTaskId
        <5> QED BY <3>1, <5>2, <5>3, StoreAssumption DEF Id
      <4>2. CASE /\ proc[p].pc = "check" /\ proc'[p].id = proc[p].id /\ proc'[p].file = proc[p].file
                 /\ defs' = defs
        BY <1>2, <2>3, <3>1, <4>2 DEF Unused
      <4> QED BY <1>2, <2>3, <3>1, <4>1, <4>2, CheckSteps
    <3>2. CASE q # p
      <4>1. proc'[q] = proc[q]
        BY <1>2, <2>3, <3>2, OthersStay DEF Stays, At
      <4>2. "create" \in Does[q]
        BY <1>2, <2>3, <4>1 DEF Commanded, Led, Making
      <4>3. ~WriteDefinition(p)
        BY <1>2, <3>2, <4>2 DEF WriteDefinition, At, Commanded, Led, Making
      <4>4. defs' = defs
        BY <1>2, <2>3, <4>3, DefinitionsChange
      <4> QED BY <1>2, <2>3, <4>1, <4>4 DEF Unused
    <3> QED BY <3>1, <3>2
  <2> QED BY <1>2, <2>1, <2>2, <2>3, Steps DEF Unused
<1>3. TypeOK /\ Commanded /\ Unused /\ [Next]_vars
        => [\A p \in Process :
              WriteHome(p) => \A d \in defs[proc[p].file.dir] : d.id # proc[p].id]_vars
  BY DEF Unused, WriteHome, At
<1>4. TypeOK /\ Commanded /\ Unused /\ [Next]_vars => Unused'
  BY <1>2
<1>5. Spec => []Unused
  BY <1>1, <1>4, Typed, PTL DEF Spec
<1> QED BY <1>3, <1>5, Typed, PTL DEF Spec, FreshDefinition

-----------------------------------------------------------------------------
(* What a step does to the home store.                                     *)

Removes(p) == (Delete(p) \/ DropOld(p)) /\ home' = Without(home, proc[p].file)

Brings(p, f, r) ==
  \E d \in defs[Cwd[p]] : d.id = proc[p].id /\ f = FileOf(p, d) /\ r = RecordOf(p, d)

Adds(p, f, r) ==
  /\ home' = With(home, f, r)
  /\ \/ WriteHome(p) /\ f = proc[p].file /\ r = Made(p)
     \/ Materialize(p) /\ Brings(p, f, r)
     \/ WriteIsolated(p) /\ f = proc[p].file /\ r = Isolated(p)
     \/ PutFolded(p) /\ f = Folded(proc[p].file) /\ r = FoldedRecord(proc[p].rec)

LEMMA MadeRecord ==
  ASSUME TypeOK, NEW p \in Process, WriteHome(p)
  PROVE  /\ Made(p) \in Record /\ Made(p).id = proc[p].id /\ Made(p).birth = births + 1
         /\ proc[p].file \in File /\ proc[p].id \in Id /\ births' = births + 1 /\ births + 1 \in Birth
<1>1. proc[p].id \in Id /\ proc[p].file \in File
  BY Fields DEF WriteHome, At, Making
<1>2. proc[p].file.dir \in Project
  BY <1>1 DEF File
<1> QED BY <1>1, <1>2, StoreAssumption DEF WriteHome, Made, Record

LEMMA HomeChanges ==
  ASSUME TypeOK, Commanded, NEW p \in Process, Creates(p) \/ LooksUp(p) \/ Changes(p)
  PROVE  UNCHANGED home \/ Removes(p) \/ \E f \in File, r \in Record : Adds(p, f, r)
<1>1. CASE WriteHome(p)
  <2>1. home' = With(home, proc[p].file, Made(p))
    BY <1>1 DEF WriteHome, Writes, Made
  <2> QED BY <1>1, <2>1, MadeRecord DEF Adds
<1>2. CASE Materialize(p)
  <2>1. CASE UNCHANGED home
    BY <2>1
  <2>2. CASE ~UNCHANGED home
    <3>1. Cwd[p] \in HasStore
      BY <1>2 DEF Commanded, Led, Materialize, At
    <3>2. PICK d \in defs[Cwd[p]] : d.id = proc[p].id /\ home' = With(home, FileOf(p, d), RecordOf(p, d))
      BY <1>2, <2>2 DEF Materialize, Writes, FileOf, RecordOf
    <3>3. Brings(p, FileOf(p, d), RecordOf(p, d))
      BY <3>2 DEF Brings
    <3> QED BY <1>2, <3>1, <3>2, <3>3, DefinitionFile DEF Adds
  <2> QED BY <2>1, <2>2
<1>3. CASE WriteIsolated(p)
  <2>1. home' = With(home, proc[p].file, Isolated(p))
    BY <1>3 DEF WriteIsolated, Writes, Isolated
  <2>2. At(p, "write isolated") /\ proc[p].file \in File
    BY <1>3, Fields DEF WriteIsolated, At
  <2> QED BY <1>3, <2>1, <2>2, IsolatedRecord DEF Adds
<1>4. CASE PutFolded(p)
  <2>1. home' = With(home, Folded(proc[p].file), FoldedRecord(proc[p].rec))
    BY <1>4 DEF PutFolded, Writes
  <2>2. proc[p].file \in File /\ proc[p].rec \in Record
    BY <1>4, Fields DEF PutFolded, At
  <2>3. Folded(proc[p].file) \in File /\ FoldedRecord(proc[p].rec) \in Record
    BY <2>2, FoldedFile, FoldedRecordIs
  <2> QED BY <1>4, <2>1, <2>3 DEF Adds
<1>5. CASE Delete(p) \/ DropOld(p)
  BY <1>5 DEF Delete, DropOld, Writes, Removes
<1>6. CASE ~(WriteHome(p) \/ Materialize(p) \/ WriteIsolated(p) \/ PutFolded(p) \/ Delete(p) \/ DropOld(p))
  BY <1>6 DEF Creates, LooksUp, Changes, ScanIds, CheckName, ReadIndex, WriteIndex, WriteDefinition,
       Lookup, ScanFolder, RebuildIndex, Answered, LoadToIsolate, ListFold, LoadToFold, EndFold, Crash
<1> QED BY <1>1, <1>2, <1>3, <1>4, <1>5, <1>6

\* What is in the store after a file is added, and after one is removed.
LEMMA FilesAfter ==
  ASSUME TypeOK
  PROVE  /\ \A f \in File, r \in Record : home' = With(home, f, r) =>
              /\ DOMAIN home' = DOMAIN home \union {f} /\ home'[f] = r
              /\ \A g \in DOMAIN home \ {f} : home'[g] = home[g]
         /\ \A f : home' = Without(home, f) =>
              /\ DOMAIN home' = DOMAIN home \ {f}
              /\ \A g \in DOMAIN home \ {f} : home'[g] = home[g]
BY AddedToMap, TakenFromMap DEF TypeOK, With, Without

-----------------------------------------------------------------------------
(* A birth has one id.                                                     *)

\* A process is about to write a task down.
Holds(p, b, i) ==
  \/ proc[p].pc \in {"read index", "write index", "define"} /\ proc[p].birth = b /\ proc[p].id = i
  \/ proc[p].pc \in {"put", "write isolated"} /\ proc[p].rec.birth = b /\ proc[p].rec.id = i

Known(b, i) ==
  \/ \E f \in DOMAIN home : home[f].birth = b /\ home[f].id = i
  \/ \E d \in Project : \E e \in defs[d] : e.birth = b /\ e.id = i
  \/ \E p \in Process : Holds(p, b, i)

BirthsNameIds ==
  \A b \in Birth : \A i : Known(b, i) => b <= births /\ \A j : Known(b, j) => i = j

\* What a process holds after a step of its own.
LEMMA HeldNext ==
  ASSUME TypeOK, Commanded, NEW p \in Process, Creates(p) \/ LooksUp(p) \/ Changes(p),
         NEW b, NEW i, Holds(p, b, i)'
  PROVE  Known(b, i) \/ (WriteHome(p) /\ b = births + 1 /\ i = proc[p].id)
<1>1. Idle.pc = "idle"
  BY DEF Idle
<1>2. WriteHome(p) \/ ReadIndex(p) \/ WriteIndex(p) \/ LoadToIsolate(p) \/ LoadToFold(p)
  BY <1>1, Leaving DEF Creates, LooksUp, Changes, Holds
<1>3. CASE WriteHome(p)
  <2> DEFINE s == [pc |-> "read index", id |-> proc[p].id, file |-> proc[p].file,
                   birth |-> births + 1]
  <2>1. s.pc = "read index" /\ s.birth = births + 1 /\ s.id = proc[p].id
    OBVIOUS
  <2>2. proc'[p] = s
    BY <1>3 DEF WriteHome, Writes
  <2> HIDE DEF s
  <2> QED BY <1>3, <2>1, <2>2 DEF Holds
<1>4. CASE ReadIndex(p)
  <2> DEFINE s == [pc |-> "write index", id |-> proc[p].id, file |-> proc[p].file,
                   birth |-> proc[p].birth, index |-> index]
  <2>1. s.pc = "write index" /\ s.birth = proc[p].birth /\ s.id = proc[p].id
    OBVIOUS
  <2>2. proc'[p] = s
    BY <1>4, Going DEF ReadIndex
  <2> HIDE DEF s
  <2>3. Holds(p, b, i)
    BY <1>4, <2>1, <2>2 DEF Holds, ReadIndex, At
  <2> QED BY <2>3 DEF Known
<1>5. CASE WriteIndex(p)
  <2>1. proc'[p] = [pc |-> "define", id |-> proc[p].id, file |-> proc[p].file,
                    birth |-> proc[p].birth]
    BY <1>1, <1>5, Going DEF WriteIndex, Holds
  <2>2. proc'[p].pc = "define" /\ proc'[p].birth = proc[p].birth /\ proc'[p].id = proc[p].id
    BY <2>1
  <2>3. Holds(p, b, i)
    BY <1>5, <2>2 DEF Holds, WriteIndex, At
  <2> QED BY <2>3 DEF Known
<1>6. CASE LoadToIsolate(p)
  <2> DEFINE s == [pc |-> "write isolated", file |-> proc[p].file, rec |-> home[proc[p].file]]
  <2>1. s.pc = "write isolated" /\ s.rec = home[proc[p].file]
    OBVIOUS
  <2>2. proc[p].file \in DOMAIN home /\ proc'[p] = s
    BY <1>1, <1>6, Going DEF LoadToIsolate, Holds
  <2> HIDE DEF s
  <2> QED BY <2>1, <2>2 DEF Holds, Known
<1>7. CASE LoadToFold(p)
  <2>1. PICK f \in proc[p].todo :
          /\ f \in DOMAIN home
          /\ proc'[p] = [pc |-> "put", todo |-> proc[p].todo \ {f}, file |-> f, rec |-> home[f]]
    <3>1. proc[p] \in [pc : {"fold"}, todo : SUBSET File]
      BY <1>7, Fields DEF LoadToFold
    <3>2. PICK f \in proc[p].todo :
            \/ Go(p, [proc[p] EXCEPT !.todo = @ \ {f}])
            \/ Go(p, Idle)
            \/ /\ f \in DOMAIN home
               /\ Go(p, [pc |-> "put", todo |-> proc[p].todo \ {f}, file |-> f, rec |-> home[f]])
      BY <1>7 DEF LoadToFold
    <3>3. ~Go(p, Idle)
      BY <1>1, Going DEF Holds
    <3>4. ~Go(p, [proc[p] EXCEPT !.todo = @ \ {f}])
      <4>1. [proc[p] EXCEPT !.todo = @ \ {f}].pc = "fold"
        BY <3>1
      <4> QED BY <4>1, Going DEF Holds
    <3> QED BY <3>2, <3>3, <3>4, Going
  <2>2. proc'[p].pc = "put" /\ proc'[p].rec = home[f]
    BY <2>1
  <2> QED BY <2>1, <2>2 DEF Holds, Known
<1> QED BY <1>2, <1>3, <1>4, <1>5, <1>6, <1>7

\* What a file that is added says, and where that comes from.
LEMMA AddedIs ==
  ASSUME TypeOK, Commanded, NEW p \in Process, NEW f \in File, NEW r \in Record, Adds(p, f, r)
  PROVE  \/ /\ WriteHome(p) /\ f = proc[p].file
            /\ r.id = proc[p].id /\ r.birth = births + 1 /\ births' = births + 1
         \/ /\ Materialize(p) /\ Cwd[p] \in Project
            /\ \E d \in defs[Cwd[p]] : /\ r.id = d.id /\ r.birth = d.birth /\ d.id = proc[p].id
                                       /\ f.num = d.id /\ d.id \in Id
         \/ /\ WriteIsolated(p) /\ f = proc[p].file
            /\ proc[p].rec \in Record /\ r.id = proc[p].rec.id /\ r.birth = proc[p].rec.birth
         \/ /\ PutFolded(p) /\ f = Folded(proc[p].file) /\ f.num = proc[p].file.num
            /\ proc[p].rec \in Record /\ r.id = proc[p].rec.id /\ r.birth = proc[p].rec.birth
<1>1. CASE WriteHome(p) /\ f = proc[p].file /\ r = Made(p)
  BY <1>1, MadeRecord
<1>2. CASE Materialize(p) /\ Brings(p, f, r)
  <2>1. PICK d \in defs[Cwd[p]] : d.id = proc[p].id /\ f = FileOf(p, d) /\ r = RecordOf(p, d)
    BY <1>2 DEF Brings
  <2>2. Cwd[p] \in HasStore
    BY <1>2 DEF Commanded, Led, Materialize, At
  <2> QED BY <1>2, <2>1, <2>2, DefinitionFile, StoreAssumption
<1>3. CASE WriteIsolated(p) /\ f = proc[p].file /\ r = Isolated(p)
  <2>1. proc[p].rec \in Record /\ At(p, "write isolated")
    BY <1>3, Fields DEF WriteIsolated, At
  <2> QED BY <1>3, <2>1, IsolatedRecord
<1>4. CASE PutFolded(p) /\ f = Folded(proc[p].file) /\ r = FoldedRecord(proc[p].rec)
  <2>1. proc[p].rec \in Record /\ proc[p].file \in File
    BY <1>4, Fields DEF PutFolded, At
  <2> QED BY <1>4, <2>1, FoldedFile, FoldedRecordIs
<1> QED BY <1>1, <1>2, <1>3, <1>4 DEF Adds

LEMMA BirthsChange ==
  ASSUME TypeOK, NEW p \in Process, Creates(p) \/ LooksUp(p) \/ Changes(p)
  PROVE  (WriteHome(p) /\ births' = births + 1) \/ UNCHANGED births
BY DEF Creates, LooksUp, Changes, ScanIds, CheckName, WriteHome, ReadIndex, WriteIndex,
       WriteDefinition, Lookup, ScanFolder, RebuildIndex, Answered, Materialize, Delete, LoadToIsolate,
       WriteIsolated, ListFold, LoadToFold, PutFolded, DropOld, EndFold, Crash

\* Whatever is known of a birth after a step was known before it, but for the
\* one birth that the step adds.
LEMMA KnownNext ==
  ASSUME TypeOK, Commanded, [Next]_vars
  PROVE  /\ births' \in {births, births + 1}
         /\ \E new : \A b, i : Known(b, i)' =>
              Known(b, i) \/ (births' = births + 1 /\ b = births + 1 /\ i = new)
<1>1. CASE UNCHANGED vars
  BY <1>1 DEF vars, Known, Holds
<1>2. CASE MergeDefinition
  <2>1. PICK project \in HasStore, slug \in Slug, id \in Id :
          defs' = [defs EXCEPT ![project] = @ \union {[id |-> id, slug |-> slug, birth |-> births + 1]}]
    BY <1>2 DEF MergeDefinition
  <2> DEFINE new == [id |-> id, slug |-> slug, birth |-> births + 1]
  <2>2. new.birth = births + 1 /\ new.id = id
    OBVIOUS
  <2>3. \A d \in Project : \A e \in defs'[d] : e \in defs[d] \/ e = new
    BY <2>1 DEF TypeOK
  <2> HIDE DEF new
  <2>4. home' = home /\ proc' = proc /\ births' = births + 1
    BY <1>2 DEF MergeDefinition
  <2>5. \A b, i : Known(b, i)' => Known(b, i) \/ (b = births + 1 /\ i = id)
    BY <2>2, <2>3, <2>4 DEF Known, Holds
  <2> QED BY <2>4, <2>5
<1>3. ASSUME NEW p \in Process, Creates(p) \/ LooksUp(p) \/ Changes(p)
      PROVE  /\ births' \in {births, births + 1}
             /\ \E new : \A b, i : Known(b, i)' =>
                  Known(b, i) \/ (births' = births + 1 /\ b = births + 1 /\ i = new)
  <2>1. ASSUME NEW b, NEW i, NEW f \in DOMAIN home', home'[f].birth = b, home'[f].id = i
        PROVE  Known(b, i) \/ (WriteHome(p) /\ b = births + 1 /\ i = proc[p].id)
    <3>1. CASE f \in DOMAIN home /\ home'[f] = home[f]
      BY <2>1, <3>1 DEF Known
    <3>2. ASSUME NEW g \in File, NEW r \in Record, Adds(p, g, r), ~(f \in DOMAIN home /\ home'[f] = home[f])
          PROVE  Known(b, i) \/ (WriteHome(p) /\ b = births + 1 /\ i = proc[p].id)
      <4>1. f = g /\ r.birth = b /\ r.id = i
        BY <1>3, <2>1, <3>2, FilesAfter DEF Adds
      <4>2. CASE \E d \in defs[Cwd[p]] : r.id = d.id /\ r.birth = d.birth /\ Cwd[p] \in Project
        BY <4>1, <4>2 DEF Known
      <4>3. CASE WriteIsolated(p) /\ r.id = proc[p].rec.id /\ r.birth = proc[p].rec.birth
        BY <4>1, <4>3 DEF Known, Holds, WriteIsolated, At
      <4>4. CASE PutFolded(p) /\ r.id = proc[p].rec.id /\ r.birth = proc[p].rec.birth
        BY <4>1, <4>4 DEF Known, Holds, PutFolded, At
      <4> QED BY <3>2, <4>1, <4>2, <4>3, <4>4, AddedIs
    <3> QED BY <1>3, <2>1, <3>1, <3>2, HomeChanges, FilesAfter DEF Removes
  <2>2. ASSUME NEW b, NEW i, NEW d \in Project, NEW e \in defs'[d], e.birth = b, e.id = i
        PROVE  Known(b, i)
    <3>1. CASE e \in defs[d]
      BY <2>2, <3>1 DEF Known
    <3>2. CASE e \notin defs[d]
      <4>1. WriteDefinition(p)
        BY <1>3, <2>2, <3>2, DefinitionsChange
      <4> DEFINE new == [id |-> proc[p].id, slug |-> proc[p].file.slug, birth |-> proc[p].birth]
      <4>2. new.id = proc[p].id /\ new.birth = proc[p].birth
        OBVIOUS
      <4>3. e = new
        BY <2>2, <3>2, <4>1 DEF WriteDefinition, TypeOK
      <4> HIDE DEF new
      <4>4. Holds(p, b, i)
        BY <2>2, <4>1, <4>2, <4>3 DEF Holds, WriteDefinition, At
      <4> QED BY <4>4 DEF Known
    <3> QED BY <3>1, <3>2
  <2>3. ASSUME NEW b, NEW i, NEW q \in Process, Holds(q, b, i)'
        PROVE  Known(b, i) \/ (WriteHome(p) /\ b = births + 1 /\ i = proc[p].id)
    <3>1. CASE q = p
      BY <1>3, <2>3, <3>1, HeldNext
    <3>2. CASE q # p
      <4>1. proc'[q] = proc[q]
        BY <1>3, <2>3, <3>2, OthersStay DEF Stays, At, Holds
      <4> QED BY <2>3, <4>1 DEF Holds, Known
    <3> QED BY <3>1, <3>2
  <2>4. \A b, i : Known(b, i)' => Known(b, i) \/ (WriteHome(p) /\ b = births + 1 /\ i = proc[p].id)
    BY <2>1, <2>2, <2>3 DEF Known
  <2>5. WriteHome(p) => births' = births + 1
    BY DEF WriteHome
  <2>6. births' \in {births, births + 1}
    BY <1>3, BirthsChange
  <2>7. \A b, i : Known(b, i)' =>
          Known(b, i) \/ (births' = births + 1 /\ b = births + 1 /\ i = proc[p].id)
    BY <2>4, <2>5
  <2> QED BY <2>6, <2>7
<1> QED BY <1>1, <1>2, <1>3, Steps

LEMMA Births == Spec => []BirthsNameIds
<1>1. Init => BirthsNameIds
  <2> SUFFICES ASSUME Init, NEW b, NEW i
               PROVE  ~Known(b, i)
    BY DEF BirthsNameIds
  <2>1. DOMAIN home = {} /\ \A p \in Process : proc[p].pc = "idle"
    BY DEF Init, Idle
  <2>2. \A d \in Project : defs[d] = {}
    BY DEF Init
  <2> QED BY <2>1, <2>2 DEF Known, Holds
<1>2. ASSUME TypeOK, Commanded, BirthsNameIds, [Next]_vars
      PROVE  BirthsNameIds'
  <2>1. PICK new : \A b, i : Known(b, i)' =>
          Known(b, i) \/ (births' = births + 1 /\ b = births + 1 /\ i = new)
    BY <1>2, KnownNext
  <2>2. births \in Nat /\ births' \in Nat /\ births <= births'
    BY <1>2, KnownNext, StoreAssumption DEF TypeOK
  <2>3. \A b \in Birth : \A i : Known(b, i) => b # births + 1
    BY <1>2, <2>2, StoreAssumption DEF BirthsNameIds
  <2>4. ASSUME NEW b \in Birth, NEW i, Known(b, i)'
        PROVE  b <= births' /\ \A j : Known(b, j)' => i = j
    <3>1. CASE Known(b, i)
      <4>1. b <= births /\ b # births + 1 /\ \A j : Known(b, j) => i = j
        BY <1>2, <2>3, <3>1 DEF BirthsNameIds
      <4>2. births' = births \/ births' = births + 1
        BY <1>2, KnownNext
      <4>3. b <= births'
        BY <2>2, <4>1, <4>2, StoreAssumption
      <4>4. \A j : Known(b, j)' => Known(b, j)
        BY <2>1, <4>1
      <4> QED BY <4>1, <4>3, <4>4
    <3>2. CASE ~Known(b, i)
      <4>1. births' = births + 1 /\ b = births + 1 /\ i = new
        BY <2>1, <2>4, <3>2
      <4> QED BY <2>1, <2>2, <2>3, <4>1
    <3> QED BY <3>1, <3>2
  <2> QED BY <2>4 DEF BirthsNameIds
<1>3. TypeOK /\ Commanded /\ BirthsNameIds /\ [Next]_vars => BirthsNameIds'
  BY <1>2
<1> QED BY <1>1, <1>3, Typed, PTL DEF Spec

-----------------------------------------------------------------------------
(* The names of files.                                                     *)

\* A file that was made from a definition is named for its id, the others are
\* named for none; so a definition is never brought into the file of another id.
Named ==
  /\ \A f \in DOMAIN home : f.num \in {0, home[f].id}
  /\ \A p \in Process :
       /\ proc[p].pc \in {"check", "write"} => proc[p].file.num = 0
       /\ proc[p].pc \in {"put", "write isolated"} => proc[p].file.num \in {0, proc[p].rec.id}

\* What a process has in hand when it has read a record.
LEMMA Loaded ==
  ASSUME TypeOK, Commanded, NEW p \in Process, Creates(p) \/ LooksUp(p) \/ Changes(p),
         proc'[p].pc \in {"put", "write isolated"}
  PROVE  /\ LoadToIsolate(p) \/ LoadToFold(p)
         /\ UNCHANGED <<home, crashed>>
         /\ proc'[p].file \in DOMAIN home /\ proc'[p].rec = home[proc'[p].file]
         /\ proc'[p].pc = "put" =>
              \/ Folded(proc'[p].file) = proc'[p].file
              \/ Folded(proc'[p].file) \notin DOMAIN home
<1>1. Idle.pc = "idle"
  BY DEF Idle
<1>2. LoadToIsolate(p) \/ LoadToFold(p)
  BY <1>1, Leaving DEF Creates, LooksUp, Changes
<1>3. CASE LoadToIsolate(p)
  <2> DEFINE s == [pc |-> "write isolated", file |-> proc[p].file, rec |-> home[proc[p].file]]
  <2>1. s.pc = "write isolated" /\ s.file = proc[p].file /\ s.rec = home[proc[p].file]
    OBVIOUS
  <2>2. proc[p].file \in DOMAIN home /\ proc'[p] = s
    BY <1>1, <1>3, Going DEF LoadToIsolate
  <2> HIDE DEF s
  <2> QED BY <1>3, <2>1, <2>2 DEF LoadToIsolate
<1>4. CASE LoadToFold(p)
  <2>1. proc[p] \in [pc : {"fold"}, todo : SUBSET File]
    BY <1>4, Fields DEF LoadToFold
  <2> DEFINE put(f) == [pc |-> "put", todo |-> proc[p].todo \ {f}, file |-> f, rec |-> home[f]]
  <2> DEFINE skip(f) == [proc[p] EXCEPT !.todo = @ \ {f}]
  <2>2. \A f : put(f).pc = "put" /\ put(f).file = f /\ put(f).rec = home[f]
    OBVIOUS
  <2>3. \A f : skip(f).pc = "fold"
    BY <2>1
  <2>4. PICK f \in proc[p].todo :
          \/ Go(p, skip(f))
          \/ Go(p, Idle)
          \/ /\ f \in DOMAIN home /\ ~(Folded(f) # f /\ Folded(f) \in DOMAIN home)
             /\ Go(p, put(f))
    BY <1>4 DEF LoadToFold
  <2> HIDE DEF put, skip
  <2>5. ~Go(p, skip(f)) /\ ~Go(p, Idle)
    BY <1>1, <2>3, Going
  <2>6. proc'[p] = put(f)
    BY <2>4, <2>5, Going
  <2> QED BY <1>4, <2>2, <2>4, <2>5, <2>6 DEF LoadToFold
<1> QED BY <1>2, <1>3, <1>4

LEMMA NamesStand == Spec => []Named
<1>1. Init => Named
  <2>1. Init => DOMAIN home = {} /\ \A p \in Process : proc[p].pc = "idle"
    BY DEF Init, Idle
  <2> QED BY <2>1 DEF Named
<1>2. ASSUME TypeOK, Commanded, Named, [Next]_vars
      PROVE  Named'
  <2>1. CASE MergeDefinition \/ UNCHANGED vars
    BY <1>2, <2>1 DEF MergeDefinition, vars, Named
  <2>2. ASSUME NEW p \in Process, Creates(p) \/ LooksUp(p) \/ Changes(p)
        PROVE  Named'
    <3>1. ASSUME NEW f \in DOMAIN home'
          PROVE  f.num \in {0, home'[f].id}
      <4>1. CASE f \in DOMAIN home /\ home'[f] = home[f]
        BY <1>2, <4>1 DEF Named
      <4>2. ASSUME NEW g \in File, NEW r \in Record, Adds(p, g, r),
                   ~(f \in DOMAIN home /\ home'[f] = home[f])
            PROVE  f.num \in {0, home'[f].id}
        <5>1. f = g /\ home'[f] = r
          BY <1>2, <3>1, <4>2, FilesAfter DEF Adds
        <5>2. CASE WriteHome(p) /\ g = proc[p].file
          BY <1>2, <5>1, <5>2 DEF Named, WriteHome, At
        <5>3. CASE \E d \in defs[Cwd[p]] : r.id = d.id /\ g.num = d.id
          BY <5>1, <5>3
        <5>4. CASE WriteIsolated(p) /\ g = proc[p].file /\ r.id = proc[p].rec.id
          BY <1>2, <5>1, <5>4 DEF Named, WriteIsolated, At
        <5>5. CASE PutFolded(p) /\ g.num = proc[p].file.num /\ r.id = proc[p].rec.id
          BY <1>2, <5>1, <5>5 DEF Named, PutFolded, At
        <5> QED BY <1>2, <4>2, <5>2, <5>3, <5>4, <5>5, AddedIs
      <4>3. UNCHANGED home \/ Removes(p) => f \in DOMAIN home /\ home'[f] = home[f]
        BY <1>2, <3>1, FilesAfter DEF Removes
      <4>4. UNCHANGED home \/ Removes(p) \/ \E g \in File, r \in Record : Adds(p, g, r)
        BY <1>2, <2>2, HomeChanges
      <4> QED BY <4>1, <4>2, <4>3, <4>4
    <3>2. ASSUME NEW q \in Process, proc'[q].pc \in {"check", "write"}
          PROVE  proc'[q].file.num = 0
      <4>1. CASE q = p
        BY <1>2, <2>2, <3>2, <4>1, CheckSteps DEF Named
      <4>2. CASE q # p
        <5>1. proc'[q] = proc[q]
          BY <1>2, <2>2, <3>2, <4>2, OthersStay DEF Stays, At
        <5> QED BY <1>2, <3>2, <5>1 DEF Named
      <4> QED BY <4>1, <4>2
    <3>3. ASSUME NEW q \in Process, proc'[q].pc \in {"put", "write isolated"}
          PROVE  proc'[q].file.num \in {0, proc'[q].rec.id}
      <4>1. CASE q = p
        <5>1. proc'[p].file \in DOMAIN home /\ proc'[p].rec = home[proc'[p].file]
          BY <1>2, <2>2, <3>3, <4>1, Loaded
        <5> QED BY <1>2, <4>1, <5>1 DEF Named
      <4>2. CASE q # p
        <5>1. proc'[q] = proc[q]
          BY <1>2, <2>2, <3>3, <4>2, OthersStay DEF Stays, At
        <5> QED BY <1>2, <3>3, <5>1 DEF Named
      <4> QED BY <4>1, <4>2
    <3> QED BY <3>1, <3>2, <3>3 DEF Named
  <2> QED BY <1>2, <2>1, <2>2, Steps
<1>3. TypeOK /\ Commanded /\ Named /\ [Next]_vars => Named'
  BY <1>2
<1> QED BY <1>1, <1>3, Typed, PTL DEF Spec

-----------------------------------------------------------------------------
(* One writer.                                                             *)

\* A process that can add files to the store: it creates tasks, folds, launches
\* subtasks, or brings definitions from a checkout.
Writer(p) ==
  \/ Does[p] \intersect {"create", "fold", "isolate"} # {}
  \/ Cwd[p] \in HasStore /\ Does[p] \intersect {"resolve", "delete"} # {}

OneWriter == \A p, q \in Process : Writer(p) /\ Writer(q) => p = q

IdsNameBirths ==
  \A f, g \in DOMAIN home : home[f].id = home[g].id => home[f].birth = home[g].birth

\* What a process has read and is about to write down is still what the store says.
Consistent(p) ==
  /\ proc[p].file \in DOMAIN home => home[proc[p].file] = proc[p].rec
  /\ \A g \in DOMAIN home : home[g].id = proc[p].rec.id => home[g].birth = proc[p].rec.birth
  /\ ~crashed => \A g \in DOMAIN home : home[g].birth = proc[p].rec.birth => g = proc[p].file

\* What the writer knows of the store at each place in a command.
Works(p) ==
  /\ proc[p].pc \in {"check", "write"} => \A f \in DOMAIN home : home[f].id < proc[p].id
  /\ At(p, "write") => proc[p].file \notin DOMAIN home
  /\ At(p, "scan") /\ Writer(p) =>
       \A f \in FilesOf(proc[p].id) : f.dir \in proc[p].todo \/ <<proc[p].id, f>> \in proc[p].seen
  /\ At(p, "bring") => FilesOf(proc[p].id) = {}
  /\ proc[p].pc \in {"put", "write isolated"} => Consistent(p)
  /\ At(p, "put") => Folded(proc[p].file) = proc[p].file \/ Folded(proc[p].file) \notin DOMAIN home

AtWork == \A p \in Process : Works(p)

\* Two files of one task: a fold has written the new one and not yet removed the
\* old one.
TwoOfOne(f, g) ==
  \E p \in Process : At(p, "drop") /\ {f, g} = {proc[p].file, Folded(proc[p].file)}

Single ==
  ~crashed => \A f, g \in DOMAIN home : home[f].birth = home[g].birth => f = g \/ TwoOfOne(f, g)

StoreSound == IdsNameBirths /\ AtWork /\ Single

\* The places from which a file is added are the writer's.
LEMMA WritersPlaces ==
  ASSUME TypeOK, Commanded, NEW p \in Process,
         proc[p].pc \in Making \union {"bring", "put", "drop", "isolate", "write isolated", "fold"}
  PROVE  Writer(p)
<1>1. CASE At(p, "bring")
  BY <1>1, Fields DEF Commanded, Led, Writer, At
<1>2. CASE ~At(p, "bring")
  BY <1>2 DEF Commanded, Led, Writer, Making, At
<1> QED BY <1>1, <1>2

\* The store only loses files, and no fold is killed.
Shrinks ==
  /\ DOMAIN home' \subseteq DOMAIN home /\ \A f \in DOMAIN home' : home'[f] = home[f]
  /\ crashed' = crashed

LEMMA OthersOnlyRemove ==
  ASSUME TypeOK, Commanded, NEW p \in Process, ~Writer(p), Creates(p) \/ LooksUp(p) \/ Changes(p)
  PROVE  Shrinks
<1>1. ASSUME NEW f \in File, NEW r \in Record, Adds(p, f, r)
      PROVE  FALSE
  BY <1>1, WritersPlaces
  DEF Adds, WriteHome, Materialize, WriteIsolated, PutFolded, At, Making
<1>2. UNCHANGED home \/ Removes(p)
  BY <1>1, HomeChanges
<1>3. crashed' = crashed
  <2>1. ~At(p, "drop")
    BY WritersPlaces DEF At
  <2> QED BY <2>1 DEF Creates, LooksUp, Changes, ScanIds, CheckName, WriteHome, ReadIndex, WriteIndex,
       WriteDefinition, Lookup, ScanFolder, RebuildIndex, Answered, Materialize, Delete, LoadToIsolate,
       WriteIsolated, ListFold, LoadToFold, PutFolded, DropOld, EndFold, Crash, TypeOK
<1> QED BY <1>2, <1>3, FilesAfter DEF Shrinks, Removes

\* When the store only loses files, what the writer knows stays true.
LEMMA WorkStands ==
  ASSUME TypeOK, NEW q \in Process, Works(q), Shrinks, Stays(q), ~At(q, "scan") => proc'[q] = proc[q]
  PROVE  Works(q)'
<1>1. CASE At(q, "scan")
  <2>1. /\ proc'[q].pc = "scan" /\ proc'[q].id = proc[q].id
        /\ proc'[q].todo = proc[q].todo /\ proc'[q].seen = proc[q].seen
    BY <1>1 DEF Stays, At
  <2>2. FilesOf(proc[q].id)' \subseteq FilesOf(proc[q].id)
    BY <2>1 DEF FilesOf, Shrinks
  <2> QED BY <1>1, <2>1, <2>2 DEF Works, At
<1>2. CASE ~At(q, "scan")
  <2>1. proc'[q] = proc[q]
    BY <1>2
  <2>2. FilesOf(proc[q].id)' \subseteq FilesOf(proc[q].id)
    BY <2>1 DEF FilesOf, Shrinks
  <2>3. proc[q].pc \in {"put", "write isolated"} => Consistent(q)'
    BY <2>1 DEF Works, Consistent, Shrinks
  <2> QED BY <1>2, <2>1, <2>2, <2>3 DEF Works, At, Shrinks
<1> QED BY <1>1, <1>2

\* A scan that ends and finds nothing has missed nothing.
LEMMA BringKnows ==
  ASSUME TypeOK, Commanded, AtWork, NEW p \in Process, Creates(p) \/ LooksUp(p) \/ Changes(p),
         proc'[p].pc = "bring"
  PROVE  FilesOf(proc'[p].id) = {} /\ UNCHANGED home
<1>0. Idle.pc = "idle"
  BY DEF Idle
<1>1. (\E op \in Ops, id \in Id : Lookup(p, op, id) /\ Indexed(id)) \/ RebuildIndex(p)
  BY <1>0, Leaving DEF Creates, LooksUp, Changes
<1>2. ASSUME NEW op \in Ops, NEW id \in Id, NEW f \in File \union {None, Duplicate},
             Found(p, op, id, f)
      PROVE  op # "find" /\ f = None /\ Cwd[p] \in HasStore /\ proc'[p].id = id
  <2>1. proc'[p] # [pc |-> "answer", id |-> id, is |-> f] /\ proc'[p] # Idle
    BY <1>0
  <2>2. op \in {"isolate", "delete"} => proc'[p] # [pc |-> op, file |-> f]
    OBVIOUS
  <2>3. op # "find" /\ f = None /\ Cwd[p] \in HasStore /\ proc'[p] = [pc |-> "bring", op |-> op, id |-> id]
    BY <1>2, <2>1, <2>2, Leads
  <2> QED BY <2>3
<1>3. CASE \E op \in Ops, id \in Id : Lookup(p, op, id) /\ Indexed(id)
  <2>1. PICK op \in Ops, id \in Id : Lookup(p, op, id) /\ Indexed(id)
    BY <1>3
  <2>2. index[id] \in File /\ Found(p, op, id, index[id])
    BY <2>1, IndexTells DEF Lookup
  <2> QED BY <1>2, <2>2, StoreAssumption
<1>4. CASE RebuildIndex(p)
  <2>1. /\ Found(p, proc[p].op, proc[p].id, Result(p)) /\ proc[p].op \in Ops /\ proc[p].id \in Id
        /\ Result(p) \in File \union {None, Duplicate} /\ proc[p].todo = {} /\ At(p, "scan")
    BY <1>4, ScanTells
  <2>2. /\ proc[p].op # "find" /\ Result(p) = None /\ Cwd[p] \in HasStore
        /\ proc'[p].id = proc[p].id
    BY <1>2, <2>1
  <2>3. Writer(p)
    BY <2>1, <2>2 DEF Commanded, Led, At, Writer, Ops
  <2>4. \A f \in FilesOf(proc[p].id) : <<proc[p].id, f>> \in proc[p].seen
    BY <2>1, <2>3 DEF AtWork, Works
  <2>5. FilesSeen(p, proc[p].id) = {}
    <3>1. FilesSeen(p, proc[p].id) \subseteq File
      BY DEF FilesSeen
    <3> QED BY <2>2, <3>1, OnlyOne, StoreAssumption DEF Result
  <2>6. FilesOf(proc[p].id) = {}
    BY <2>4, <2>5 DEF FilesSeen, FilesOf, TypeOK
  <2> QED BY <1>4, <2>2, <2>6 DEF RebuildIndex
<1> QED BY <1>1, <1>3, <1>4

\* A step of the writer finds out what it relies on later.
LEMMA OwnWork ==
  ASSUME TypeOK, Commanded, OneWriter, StoreSound, NEW p \in Process,
         Creates(p) \/ LooksUp(p) \/ Changes(p)
  PROVE  Works(p)'
<1>1. ASSUME proc'[p].pc \in {"check", "write"}
      PROVE  /\ \A f \in DOMAIN home' : home'[f].id < proc'[p].id
             /\ proc'[p].pc = "write" => proc'[p].file \notin DOMAIN home'
  <2>1. CASE /\ ScanIds(p) /\ proc'[p].pc = "check" /\ proc'[p].file.dir \in Project
             /\ proc'[p].id = MaxTaskId(proc'[p].file.dir) + 1 /\ UNCHANGED home
    <3>1. PICK project \in Project : project = proc'[p].file.dir
      BY <2>1
    <3>2. /\ MaxTaskId(project) \in 0..MaxId
          /\ \A f \in DOMAIN home : home[f].id <= MaxTaskId(project) /\ home[f].id \in Id
      BY AboveAll DEF TypeOK, Record
    <3>3. proc'[p].id = MaxTaskId(project) + 1
      BY <2>1, <3>1
    <3> HIDE DEF MaxTaskId
    <3>4. \A f \in DOMAIN home : home[f].id < proc'[p].id
      BY <3>2, <3>3, StoreAssumption DEF Id
    <3> QED BY <2>1, <3>4
  <2>2. CASE /\ proc[p].pc = "check" /\ proc'[p].id = proc[p].id /\ proc'[p].file = proc[p].file
             /\ proc[p].file \notin DOMAIN home /\ UNCHANGED home
    BY <2>2 DEF StoreSound, AtWork, Works
  <2> QED BY <1>1, <2>1, <2>2, CheckSteps
<1>2. ASSUME proc'[p].pc = "scan", Writer(p), NEW f \in FilesOf(proc[p].id)'
      PROVE  f.dir \in proc'[p].todo \/ <<proc'[p].id, f>> \in proc'[p].seen
  <2>1. /\ ScanFolder(p) \/ \E op \in Ops, id \in Id : Lookup(p, op, id) /\ ~Indexed(id)
        /\ UNCHANGED home
    BY <1>2, ScanSteps
  <2>2. CASE ScanFolder(p)
    <3>1. f \in FilesOf(proc[p].id) /\ proc'[p].id = proc[p].id
      BY <1>2, <2>1, <2>2, FolderRead DEF FilesOf
    <3>2. f.dir \in proc[p].todo \/ <<proc[p].id, f>> \in proc[p].seen
      BY <1>2, <2>2, <3>1 DEF StoreSound, AtWork, Works, ScanFolder
    <3> QED BY <2>2, <3>1, <3>2, FolderRead
  <2>3. ASSUME NEW op \in Ops, NEW id \in Id, Lookup(p, op, id), ~Indexed(id)
        PROVE  f.dir \in proc'[p].todo
    <3>1. proc'[p] = [pc |-> "scan", op |-> op, id |-> id, todo |-> Project, seen |-> {},
                      had |-> FilesOf(id)]
      BY <2>3, Going DEF Lookup
    <3>2. proc'[p].todo = Project
      BY <3>1
    <3>3. f \in File
      BY <1>2, <2>1 DEF FilesOf, TypeOK
    <3> QED BY <3>2, <3>3 DEF File
  <2> QED BY <2>1, <2>2, <2>3
<1>3. ASSUME proc'[p].pc = "bring"
      PROVE  FilesOf(proc[p].id)' = {}
  <2>1. FilesOf(proc'[p].id) = {} /\ UNCHANGED home
    BY <1>3, BringKnows DEF StoreSound
  <2> QED BY <2>1 DEF FilesOf
<1>4. ASSUME proc'[p].pc \in {"put", "write isolated"}
      PROVE  /\ Consistent(p)'
             /\ proc'[p].pc = "put" =>
                  \/ Folded(proc'[p].file) = proc'[p].file
                  \/ Folded(proc'[p].file) \notin DOMAIN home'
  <2>1. /\ LoadToIsolate(p) \/ LoadToFold(p)
        /\ home' = home /\ crashed' = crashed
        /\ proc'[p].file \in DOMAIN home /\ proc'[p].rec = home[proc'[p].file]
        /\ proc'[p].pc = "put" =>
             \/ Folded(proc'[p].file) = proc'[p].file
             \/ Folded(proc'[p].file) \notin DOMAIN home
    BY <1>4, Loaded
  <2>2. \A f, g : ~TwoOfOne(f, g)
    <3>1. Writer(p) /\ ~At(p, "drop")
      BY <2>1, WritersPlaces DEF LoadToIsolate, LoadToFold, At
    <3>2. \A q \in Process : At(q, "drop") => Writer(q)
      BY WritersPlaces DEF At
    <3> QED BY <3>1, <3>2 DEF TwoOfOne, OneWriter
  <2>3. ~crashed => \A g \in DOMAIN home : home[g].birth = proc'[p].rec.birth => g = proc'[p].file
    BY <2>1, <2>2 DEF StoreSound, Single
  <2>4. \A g \in DOMAIN home : home[g].id = proc'[p].rec.id => home[g].birth = proc'[p].rec.birth
    BY <2>1 DEF StoreSound, IdsNameBirths
  <2> QED BY <2>1, <2>3, <2>4 DEF Consistent
<1> QED BY <1>1, <1>2, <1>3, <1>4 DEF Works, At

\* A file that is added says of its task what the store says of it: an id that
\* the store has is that of the same task, a file that is written over is of the
\* same task, and if the task has a file already it is this one, or it is the one
\* that a fold is about to remove.
Proper(f, r) ==
  /\ f \in DOMAIN home => home[f].id = r.id /\ home[f].birth = r.birth
  /\ \A g \in DOMAIN home : home[g].id = r.id => home[g].birth = r.birth

LEMMA Additions ==
  ASSUME TypeOK, Commanded, Named, BirthsNameIds, StoreSound,
         NEW p \in Process, NEW f \in File, NEW r \in Record, Adds(p, f, r)
  PROVE  /\ Proper(f, r)
         /\ ~crashed => \A g \in DOMAIN home : home[g].birth = r.birth =>
              g = f \/ (proc'[p].pc = "drop" /\ proc'[p].file = g /\ f = Folded(g))
<1> DEFINE Alone ==
      ~crashed => \A g \in DOMAIN home : home[g].birth = r.birth =>
        g = f \/ (proc'[p].pc = "drop" /\ proc'[p].file = g /\ f = Folded(g))
<1>0. \A g \in DOMAIN home : home[g].birth \in Birth /\ home[g].id \in Id
  BY DEF TypeOK, Record
<1>1. CASE /\ WriteHome(p) /\ f = proc[p].file
           /\ r.id = proc[p].id /\ r.birth = births + 1 /\ births' = births + 1
  <2>1. f \notin DOMAIN home /\ \A g \in DOMAIN home : home[g].id < r.id
    BY <1>1 DEF StoreSound, AtWork, Works, WriteHome, At
  <2>2. \A g \in DOMAIN home : home[g].id # r.id
    <3>1. \A g \in DOMAIN home : home[g].id \in Nat
      BY <1>0, StoreAssumption DEF Id
    <3> QED BY <2>1, <3>1
  <2>3. \A g \in DOMAIN home : home[g].birth # r.birth
    <3>1. \A g \in DOMAIN home : home[g].birth <= births /\ home[g].birth \in Nat
      <4>1. \A g \in DOMAIN home : Known(home[g].birth, home[g].id)
        BY DEF Known
      <4> QED BY <1>0, <4>1, StoreAssumption DEF BirthsNameIds
    <3>2. births \in Nat
      BY StoreAssumption DEF TypeOK
    <3> QED BY <1>1, <3>1, <3>2
  <2> QED BY <2>1, <2>2, <2>3 DEF Proper
<1>2. CASE /\ Materialize(p) /\ Cwd[p] \in Project
           /\ \E d \in defs[Cwd[p]] : /\ r.id = d.id /\ r.birth = d.birth /\ d.id = proc[p].id
                                      /\ f.num = d.id /\ d.id \in Id
  <2>1. PICK d \in defs[Cwd[p]] : /\ r.id = d.id /\ r.birth = d.birth /\ d.id = proc[p].id
                                  /\ f.num = d.id /\ d.id \in Id
    BY <1>2
  <2>2. \A g \in DOMAIN home : home[g].id # r.id
    BY <1>2, <2>1 DEF StoreSound, AtWork, Works, Materialize, FilesOf
  <2>3. f \notin DOMAIN home
    <3>1. f.num # 0
      BY <2>1, StoreAssumption DEF Id
    <3> QED BY <2>1, <2>2, <3>1 DEF Named
  <2>4. \A g \in DOMAIN home : home[g].birth # r.birth
    <3>1. Known(r.birth, r.id)
      BY <1>2, <2>1 DEF Known
    <3>2. \A g \in DOMAIN home : Known(home[g].birth, home[g].id)
      BY DEF Known
    <3> QED BY <1>0, <2>2, <3>1, <3>2 DEF BirthsNameIds
  <2> QED BY <2>2, <2>3, <2>4 DEF Proper
<1>3. CASE /\ WriteIsolated(p) /\ f = proc[p].file
           /\ proc[p].rec \in Record /\ r.id = proc[p].rec.id /\ r.birth = proc[p].rec.birth
  <2>1. Consistent(p)
    BY <1>3 DEF StoreSound, AtWork, Works, WriteIsolated, At
  <2> QED BY <1>3, <2>1 DEF Proper, Consistent
<1>4. CASE /\ PutFolded(p) /\ f = Folded(proc[p].file) /\ f.num = proc[p].file.num
           /\ proc[p].rec \in Record /\ r.id = proc[p].rec.id /\ r.birth = proc[p].rec.birth
  <2>1. /\ Consistent(p)
        /\ Folded(proc[p].file) = proc[p].file \/ Folded(proc[p].file) \notin DOMAIN home
    BY <1>4 DEF StoreSound, AtWork, Works, PutFolded, At
  <2>2. Proper(f, r)
    BY <1>4, <2>1 DEF Proper, Consistent
  <2>3. Alone
    <3>1. ~crashed => \A g \in DOMAIN home : home[g].birth = r.birth => g = proc[p].file
      BY <1>4, <2>1 DEF Consistent
    <3>2. Folded(proc[p].file) # proc[p].file =>
            proc'[p].pc = "drop" /\ proc'[p].file = proc[p].file
      BY <1>4 DEF PutFolded, Writes
    <3> QED BY <1>4, <3>1, <3>2
  <2> QED BY <2>2, <2>3
<1> QED BY <1>1, <1>2, <1>3, <1>4, AddedIs

\* While a fold is between its two writes, it stays there until it removes the
\* old file or is killed.
LEMMA DropStays ==
  ASSUME TypeOK, Commanded, NEW p \in Process, Creates(p) \/ LooksUp(p) \/ Changes(p),
         NEW q \in Process, At(q, "drop"), ~crashed'
  PROVE  \/ proc'[q] = proc[q]
         \/ Removes(p) /\ q = p
<1>1. CASE q = p
  <2>1. DropOld(p) \/ Crash(p)
    BY <1>1 DEF Creates, LooksUp, Changes, Starts, At, ScanIds, CheckName, WriteHome, ReadIndex,
         WriteIndex, WriteDefinition, Lookup, ScanFolder, RebuildIndex, Answered, Materialize, Delete,
         LoadToIsolate, WriteIsolated, ListFold, LoadToFold, PutFolded, EndFold
  <2>2. ~Crash(p)
    BY <1>1 DEF Crash
  <2> QED BY <1>1, <2>1, <2>2 DEF Removes, DropOld, Writes
<1>2. CASE q # p
  BY <1>2, OthersStay DEF At
<1> QED BY <1>1, <1>2

LEMMA CrashesStand ==
  ASSUME TypeOK, [Next]_vars, ~crashed'
  PROVE  ~crashed
BY DEF Next, vars, MergeDefinition, ScanIds, CheckName, WriteHome, ReadIndex, WriteIndex,
       WriteDefinition, Lookup, ScanFolder, RebuildIndex, Answered, Materialize, Delete, LoadToIsolate,
       WriteIsolated, ListFold, LoadToFold, PutFolded, DropOld, EndFold, Crash, TypeOK

LEMMA SoundNext ==
  ASSUME TypeOK, Commanded, Named, BirthsNameIds, OneWriter, StoreSound, [Next]_vars
  PROVE  StoreSound'
<1>1. CASE MergeDefinition \/ UNCHANGED vars
  <2>1. home' = home /\ proc' = proc /\ crashed' = crashed
    BY <1>1 DEF MergeDefinition, vars
  <2>2. \A p \in Process : Consistent(p) => Consistent(p)'
    BY <2>1 DEF Consistent
  <2>3. \A p \in Process : FilesOf(proc[p].id)' = FilesOf(proc[p].id)
    BY <2>1 DEF FilesOf
  <2>4. \A p \in Process : Works(p) => Works(p)'
    BY <2>1, <2>2, <2>3 DEF Works, At
  <2> QED BY <2>1, <2>4 DEF StoreSound, IdsNameBirths, AtWork, Single, TwoOfOne, At
<1>2. ASSUME NEW p \in Process, Creates(p) \/ LooksUp(p) \/ Changes(p)
      PROVE  StoreSound'
  <2>0. \A g \in DOMAIN home : g \in File
    BY DEF TypeOK
  <2>1. UNCHANGED home \/ Removes(p) \/ \E f \in File, r \in Record : Adds(p, f, r)
    BY <1>2, HomeChanges
  <2>2. UNCHANGED home \/ Removes(p) =>
          DOMAIN home' \subseteq DOMAIN home /\ \A g \in DOMAIN home' : home'[g] = home[g]
    BY FilesAfter DEF Removes
  <2>3. ASSUME NEW f \in File, NEW r \in Record, Adds(p, f, r)
        PROVE  /\ DOMAIN home' = DOMAIN home \union {f} /\ home'[f] = r
               /\ \A g \in DOMAIN home \ {f} : home'[g] = home[g]
    BY <2>3, FilesAfter DEF Adds
  <2>4. IdsNameBirths'
    <3>1. CASE UNCHANGED home \/ Removes(p)
      BY <2>2, <3>1 DEF StoreSound, IdsNameBirths
    <3>2. ASSUME NEW f \in File, NEW r \in Record, Adds(p, f, r)
          PROVE  IdsNameBirths'
      <4>1. Proper(f, r)
        BY <3>2, Additions
      <4>2. ASSUME NEW g \in DOMAIN home', NEW h \in DOMAIN home', home'[g].id = home'[h].id
            PROVE  home'[g].birth = home'[h].birth
        <5>1. CASE g # f /\ h # f
          <6>1. /\ g \in DOMAIN home /\ home'[g] = home[g]
                /\ h \in DOMAIN home /\ home'[h] = home[h]
            BY <2>3, <3>2, <4>2, <5>1
          <6> QED BY <4>2, <6>1 DEF StoreSound, IdsNameBirths
        <5>2. ASSUME NEW k \in DOMAIN home', home'[k].id = r.id
              PROVE  home'[k].birth = r.birth
          BY <2>3, <3>2, <4>1, <5>2 DEF Proper
        <5>3. CASE g = f
          BY <2>3, <3>2, <4>2, <5>2, <5>3
        <5>4. CASE h = f
          BY <2>3, <3>2, <4>2, <5>2, <5>4
        <5> QED BY <5>1, <5>3, <5>4
      <4> QED BY <4>2 DEF IdsNameBirths
    <3> QED BY <2>1, <3>1, <3>2
  <2>5. AtWork'
    <3>1. ASSUME NEW q \in Process, q # p
          PROVE  Works(q)'
      <4>1. Works(q) /\ Stays(q) /\ (~At(q, "scan") => proc'[q] = proc[q])
        BY <1>2, <3>1, OthersStay DEF StoreSound, AtWork
      <4>2. CASE Writer(p)
        <5>1. ~Writer(q)
          BY <3>1, <4>2 DEF OneWriter
        <5>2. proc'[q].pc \notin {"check", "write", "bring", "put", "write isolated"}
          <6>1. proc[q].pc \notin {"check", "write", "bring", "put", "write isolated"}
            BY <5>1, WritersPlaces DEF Making
          <6> QED BY <4>1, <6>1 DEF Stays, At
        <5> QED BY <5>1, <5>2 DEF Works, At, Writer
      <4>3. CASE ~Writer(p)
        BY <1>2, <4>1, <4>3, OthersOnlyRemove, WorkStands
      <4> QED BY <4>2, <4>3
    <3> QED BY <1>2, <3>1, OwnWork DEF AtWork
  <2>6. ASSUME ~crashed', NEW g \in DOMAIN home', NEW h \in DOMAIN home', g # h,
               TwoOfOne(g, h)
        PROVE  TwoOfOne(g, h)'
    <3>1. PICK q \in Process : At(q, "drop") /\ {g, h} = {proc[q].file, Folded(proc[q].file)}
      BY <2>6 DEF TwoOfOne
    <3>2. CASE proc'[q] = proc[q]
      BY <3>1, <3>2 DEF TwoOfOne, At
    <3>3. CASE Removes(p) /\ q = p
      <4>1. home' = Without(home, proc[p].file)
        BY <3>3 DEF Removes
      <4>2. proc[p].file \notin DOMAIN home'
        BY <4>1 DEF Without
      <4> QED BY <2>6, <3>1, <3>3, <4>2
    <3> QED BY <1>2, <2>6, <3>1, <3>2, <3>3, DropStays
  <2>7. ASSUME ~crashed', NEW g \in DOMAIN home', NEW h \in DOMAIN home', g # h,
               home'[g].birth = home'[h].birth
        PROVE  TwoOfOne(g, h)'
    <3>0. ~crashed
      BY <2>7, CrashesStand
    <3>1. CASE g \in DOMAIN home /\ h \in DOMAIN home /\ home'[g] = home[g] /\ home'[h] = home[h]
      <4>1. TwoOfOne(g, h)
        BY <2>7, <3>0, <3>1 DEF StoreSound, Single
      <4> QED BY <2>6, <2>7, <4>1
    <3>2. ASSUME NEW f \in File, NEW r \in Record, Adds(p, f, r)
          PROVE  TwoOfOne(g, h)'
      <4>1. \A k \in DOMAIN home : home[k].birth = r.birth =>
              k = f \/ (proc'[p].pc = "drop" /\ proc'[p].file = k /\ f = Folded(k))
        BY <3>0, <3>2, Additions
      <4>2. ASSUME NEW k \in DOMAIN home \ {f}, home'[k].birth = r.birth, {g, h} = {k, f}
            PROVE  TwoOfOne(g, h)'
        <5>1. proc'[p].pc = "drop" /\ proc'[p].file = k /\ f = Folded(k)
          BY <2>3, <3>2, <4>1, <4>2
        <5> QED BY <4>2, <5>1 DEF TwoOfOne, At
      <4>3. CASE g = f
        BY <2>3, <2>7, <3>2, <4>2, <4>3
      <4>4. CASE h = f
        BY <2>3, <2>7, <3>2, <4>2, <4>4
      <4>5. CASE g # f /\ h # f
        BY <2>3, <2>7, <3>1, <3>2, <4>5
      <4> QED BY <4>3, <4>4, <4>5
    <3> QED BY <2>1, <2>2, <3>1, <3>2
  <2>8. Single'
    BY <2>7 DEF Single
  <2> QED BY <2>4, <2>5, <2>8 DEF StoreSound
<1> QED BY <1>1, <1>2, Steps

LEMMA Sound ==
  ASSUME OneWriter
  PROVE  Spec => []StoreSound
<1>1. Init => StoreSound
  <2> SUFFICES ASSUME Init
               PROVE  StoreSound
    OBVIOUS
  <2>1. DOMAIN home = {} /\ \A p \in Process : proc[p].pc = "idle"
    BY DEF Init, Idle
  <2> QED BY <2>1 DEF StoreSound, IdsNameBirths, AtWork, Works, Single, FilesOf, At
<1>2. TypeOK /\ Commanded /\ Named /\ BirthsNameIds /\ StoreSound /\ [Next]_vars => StoreSound'
  BY SoundNext
<1> QED BY <1>1, <1>2, Typed, NamesStand, Births, PTL DEF Spec

(* Outside of a fold, and as long as none was killed between its writes,   *)
(* each task has one STATE file, if one process adds files: no command     *)
(* forks a record (create_task_with_egress, fold_project_tasks,            *)
(* save_task, materialize_from_repo_definition).                           *)
THEOREM OneFileEach ==
  ASSUME OneWriter
  PROVE  Spec => []OneFilePerTask
<1>1. StoreSound => OneFilePerTask
  BY DEF StoreSound, Single, OneFilePerTask, TwoOfOne
<1> QED BY <1>1, Sound, PTL

-----------------------------------------------------------------------------
(* The store implements the set of tasks.                                  *)

Stand(m) == {[birth |-> m[f].birth, id |-> m[f].id] : f \in DOMAIN m}

LEMMA AdditionIsOne ==
  ASSUME TypeOK, NEW f \in File, NEW r \in Record, home' = With(home, f, r), Proper(f, r)
  PROVE  Abstract!Add \/ Stand(home') = Stand(home)
<1> DEFINE t == [birth |-> r.birth, id |-> r.id]
<1>1. /\ DOMAIN home' = DOMAIN home \union {f} /\ home'[f] = r
      /\ \A g \in DOMAIN home \ {f} : home'[g] = home[g]
  BY FilesAfter
<1>2. f \in DOMAIN home => [birth |-> home[f].birth, id |-> home[f].id] = t
  BY DEF Proper
<1>3. Stand(home') = Stand(home) \union {t}
  BY <1>1, <1>2 DEF Stand
<1>4. \A u \in Stand(home) : u.id = t.id => u = t
  BY DEF Stand, Proper
<1>5. t \in Abstract!Task
  BY DEF Abstract!Task, Record, Id
<1> HIDE DEF t
<1>6. CASE t \in Stand(home)
  BY <1>3, <1>6
<1>7. CASE t \notin Stand(home)
  BY <1>3, <1>4, <1>5, <1>7 DEF Abstract!Add, Stand
<1> QED BY <1>6, <1>7

LEMMA RemovalIsOne ==
  ASSUME TypeOK, NEW f, home' = Without(home, f)
  PROVE  Abstract!Remove \/ Stand(home') = Stand(home)
<1>1. /\ DOMAIN home' = DOMAIN home \ {f}
      /\ \A g \in DOMAIN home \ {f} : home'[g] = home[g]
  BY FilesAfter
<1>2. CASE f \notin DOMAIN home
  BY <1>1, <1>2 DEF Stand
<1>3. CASE f \in DOMAIN home
  <2> DEFINE t == [birth |-> home[f].birth, id |-> home[f].id]
  <2>1. t \in Stand(home)
    BY <1>3 DEF Stand
  <2>2. Stand(home) = Stand(home') \union {t}
    BY <1>1, <1>3 DEF Stand
  <2> HIDE DEF t
  <2>3. CASE t \in Stand(home')
    BY <2>2, <2>3
  <2>4. CASE t \notin Stand(home')
    <3>1. Stand(home') = Stand(home) \ {t}
      BY <2>2, <2>4
    <3> QED BY <2>1, <3>1 DEF Abstract!Remove, Stand
  <2> QED BY <2>3, <2>4
<1> QED BY <1>2, <1>3

(* What the files stand for is a set of tasks to which tasks are only      *)
(* added, each under an id of its own, and from which they are only taken  *)
(* away, if one process adds files, whatever the others delete meanwhile   *)
(* and wherever a command is killed.                                       *)
THEOREM StoreImplementsSet ==
  ASSUME OneWriter
  PROVE  Spec => StoreKept
<1>1. Init => Abstract!Init
  BY DEF Init, Abstract!Init
<1>2. ASSUME TypeOK, Commanded, Named, BirthsNameIds, StoreSound, [Next]_vars
      PROVE  Abstract!Next \/ Stand(home') = Stand(home)
  <2>1. CASE MergeDefinition \/ UNCHANGED vars
    BY <2>1 DEF MergeDefinition, vars
  <2>2. ASSUME NEW p \in Process, Creates(p) \/ LooksUp(p) \/ Changes(p)
        PROVE  Abstract!Next \/ Stand(home') = Stand(home)
    <3>1. CASE Removes(p)
      BY <1>2, <3>1, RemovalIsOne DEF Removes, Abstract!Next
    <3>2. ASSUME NEW f \in File, NEW r \in Record, Adds(p, f, r)
          PROVE  Abstract!Next \/ Stand(home') = Stand(home)
      <4>1. Proper(f, r) /\ home' = With(home, f, r)
        BY <1>2, <3>2, Additions DEF Adds
      <4> QED BY <1>2, <4>1, AdditionIsOne DEF Abstract!Next
    <3> QED BY <1>2, <2>2, <3>1, <3>2, HomeChanges
  <2> QED BY <1>2, <2>1, <2>2, Steps
<1>3. TypeOK /\ Commanded /\ Named /\ BirthsNameIds /\ StoreSound /\ [Next]_vars
        => [Abstract!Next]_{[birth |-> home[f].birth, id |-> home[f].id] : f \in DOMAIN home}
  BY <1>2 DEF Stand
<1> QED BY <1>1, <1>3, Typed, NamesStand, Births, Sound, PTL DEF Spec, StoreKept, Abstract!Spec
================================================================================
