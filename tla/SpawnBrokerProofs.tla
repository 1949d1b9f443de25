--------------------------- MODULE SpawnBrokerProofs ---------------------------
(***************************************************************************)
(* Proofs about SpawnBroker for every set of tasks, calls and habits and   *)
(* every policy. The heart is an inductive invariant that ties the two     *)
(* counters of the ledger to the calls in flight and to the lineage:       *)
(* neither of the ledger's saturating subtractions ever saturates, so the  *)
(* budget counter is exact, so the budget bounds the runs.                 *)
(***************************************************************************)
EXTENDS SpawnBroker, FiniteSetTheorems, TLAPS

(* Runs are numbered in the order they are spawned, and calls are made by  *)
(* runs that exist.                                                        *)
RunsNumbered ==
  /\ \A r \in Run : r > nruns => run[r].inner = "none"
  /\ \A c \in Call : call[c].by <= nruns

IInv ==
  /\ TypeOK
  /\ RunsNumbered
  /\ spawned <= Budget
  /\ LedgerExact
  /\ SlotsCovered

(* The sets the invariant counts are finite. *)
LEMMA Finite ==
  ASSUME TypeOK
  PROVE  /\ IsFiniteSet(Reservations) /\ Cardinality(Reservations) \in Nat
         /\ \A p \in Task : /\ IsFiniteSet(Launching(p)) /\ Cardinality(Launching(p)) \in Nat
                            /\ IsFiniteSet(Unreleased(p)) /\ Cardinality(Unreleased(p)) \in Nat
  <1>1. Reservations \subseteq Call
    BY DEF Reservations
  <1>2. \A p \in Task : Launching(p) \subseteq Call /\ Unreleased(p) \subseteq Task
    BY DEF Launching, Unreleased, TypeOK
  <1>3. IsFiniteSet(Call) /\ IsFiniteSet(Task)
    BY BrokerAssumption
  <1> QED
    BY <1>1, <1>2, <1>3, FS_Subset, FS_CardinalityType

LEMMA FiniteNext ==
  ASSUME TypeOK'
  PROVE  /\ Cardinality(Reservations') \in Nat
         /\ \A p \in Task :
              /\ IsFiniteSet(Launching(p)') /\ Cardinality(Launching(p)') \in Nat
              /\ IsFiniteSet(Unreleased(p)') /\ Cardinality(Unreleased(p)') \in Nat
  <1>0. Reservations' \subseteq Call
    BY DEF Reservations
  <1>1. \A p \in Task : Launching(p)' \subseteq Call /\ Unreleased(p)' \subseteq Task
    BY DEF Launching, Unreleased, TypeOK
  <1>2. IsFiniteSet(Call) /\ IsFiniteSet(Task)
    BY BrokerAssumption
  <1> QED
    BY <1>0, <1>1, <1>2, FS_Subset, FS_CardinalityType

(* One element more, one element less. *)
LEMMA OneMore ==
  ASSUME NEW S, NEW x, IsFiniteSet(S), x \notin S
  PROVE  Cardinality(S \cup {x}) = Cardinality(S) + 1
  BY FS_AddElement

LEMMA OneLess ==
  ASSUME NEW S, NEW x \in S, IsFiniteSet(S)
  PROVE  /\ Cardinality(S \ {x}) = Cardinality(S) - 1
         /\ Cardinality(S) \in Nat /\ Cardinality(S) > 0
  BY FS_RemoveElement, FS_CardinalityType, FS_EmptySet

(* A step that leaves the ledger, the lineage and the sets that are        *)
(* counted alone keeps the invariant.                                      *)
LEMMA Frame ==
  ASSUME IInv, TypeOK', RunsNumbered',
         UNCHANGED <<children, spawned, nruns, parentOf, released>>,
         Reservations' = Reservations,
         \A p \in Task : Launching(p)' = Launching(p)
  PROVE  IInv'
  <1>1. LedgerExact'
    BY DEF IInv, LedgerExact
  <1>2. \A p \in Task : Unreleased(p)' = Unreleased(p)
    BY DEF Unreleased
  <1>3. SlotsCovered'
    BY <1>2 DEF IInv, SlotsCovered
  <1> QED
    BY <1>1, <1>3 DEF IInv

(* The initial state satisfies the invariant. *)
LEMMA InitInv == Init => IInv
  <1> SUFFICES ASSUME Init PROVE IInv
    OBVIOUS
  <1> USE BrokerAssumption
  <1>1. TypeOK
    <2>1. run \in [Run -> [task : Task, depth : Nat, by : Run, inner : Inner, wrapper : Wrapper]]
      BY DEF Init, Run, NoRun, Inner, Wrapper
    <2>2. call \in [Call -> [pc : Pc, by : Run, task : Task, depth : Nat]]
      BY DEF Init, Run, Idle, Pc
    <2>3. nruns \in Run
      BY DEF Init, Run
    <2> QED
      BY <2>1, <2>2, <2>3 DEF Init, TypeOK, Phase
  <1>2. RunsNumbered
    BY DEF Init, RunsNumbered, Run, NoRun, Idle
  <1>3. Reservations = {} /\ \A p \in Task : Launching(p) = {} /\ Unreleased(p) = {}
    BY DEF Init, Reservations, Launching, Unreleased, Idle
  <1>4. Cardinality({}) = 0
    BY FS_EmptySet
  <1>5. LedgerExact
    BY <1>3, <1>4 DEF Init, LedgerExact
  <1>6. SlotsCovered
    <2> SUFFICES ASSUME NEW p \in Task
                 PROVE  children[p] >= Cardinality(Launching(p)) + Cardinality(Unreleased(p))
      BY DEF SlotsCovered
    <2>1. Cardinality(Launching(p)) = 0 /\ Cardinality(Unreleased(p)) = 0
      BY <1>3, <1>4
    <2>2. children[p] = 0
      BY DEF Init
    <2> QED
      BY <2>1, <2>2
  <1> QED
    BY <1>1, <1>2, <1>5, <1>6 DEF Init, IInv

-----------------------------------------------------------------------------
(* A reservation adds one to both counters and one call to what they count. *)
LEMMA ReserveInv ==
  ASSUME IInv, NEW c \in Call, NEW r \in Run, NEW t \in Task, Reserve(c, r, t)
  PROVE  IInv'
  <1> USE BrokerAssumption
  <1> DEFINE p == run[r].task
  <1>1. /\ call[c].pc = "idle" /\ InSession(r) /\ p \in DOMAIN depths
        /\ spawned + 1 <= Budget
        /\ children' = [children EXCEPT ![p] = @ + 1] /\ spawned' = spawned + 1
        /\ call' = [call EXCEPT ![c] = [pc |-> "reserved", by |-> r, task |-> t,
                                        depth |-> depths[p] + 1]]
        /\ UNCHANGED <<status, depths, parentOf, released, handles, nruns, run, phase, joining>>
    BY DEF Reserve, Record, Authorized, tree
  <1>2. TypeOK /\ RunsNumbered /\ spawned <= Budget /\ LedgerExact /\ SlotsCovered
    BY DEF IInv
  <1>3. p \in Task /\ depths[p] + 1 \in Nat /\ r <= nruns
    <2>1. p \in Task
      BY <1>2 DEF TypeOK
    <2>2. depths[p] \in Nat
      BY <1>1, <1>2 DEF TypeOK
    <2>3. run[r].inner # "none"
      BY <1>1 DEF InSession
    <2>4. nruns \in Nat /\ r \in Nat
      BY <1>2 DEF TypeOK, Run
    <2>5. r <= nruns
      BY <1>2, <2>3, <2>4 DEF RunsNumbered
    <2> QED
      BY <2>1, <2>2, <2>5
  <1>4. TypeOK'
    <2>1. call' \in [Call -> [pc : Pc, by : Run, task : Task, depth : Nat]]
      BY <1>1, <1>2, <1>3 DEF TypeOK, Pc
    <2>2. children' \in [Task -> Nat] /\ spawned' \in Nat
      BY <1>1, <1>2, <1>3 DEF TypeOK
    <2> QED
      BY <1>1, <1>2, <2>1, <2>2 DEF TypeOK
  <1>5. RunsNumbered'
    BY <1>1, <1>2, <1>3 DEF RunsNumbered, TypeOK
  <1>6. LedgerExact'
    <2>1. Reservations' = Reservations \cup {c} /\ c \notin Reservations
      BY <1>1, <1>2 DEF Reservations, TypeOK
    <2>2. Cardinality(Reservations') = Cardinality(Reservations) + 1
      BY <1>2, <2>1, Finite, OneMore
    <2>3. Cardinality(Reservations) \in Nat
      BY <1>2, Finite
    <2>4. nruns \in Nat /\ spawned \in Nat
      BY <1>2 DEF TypeOK, Run
    <2> QED
      BY <1>1, <1>2, <2>2, <2>3, <2>4 DEF LedgerExact
  <1>7. SlotsCovered'
    <2> SUFFICES ASSUME NEW q \in Task
                 PROVE  children'[q] >= Cardinality(Launching(q)') + Cardinality(Unreleased(q)')
      BY DEF SlotsCovered
    <2>1. Unreleased(q)' = Unreleased(q)
      BY <1>1 DEF Unreleased
    <2>2. children[q] >= Cardinality(Launching(q)) + Cardinality(Unreleased(q))
      BY <1>2 DEF SlotsCovered
    <2>3. /\ children[q] \in Nat /\ Cardinality(Launching(q)) \in Nat
          /\ Cardinality(Unreleased(q)) \in Nat
      BY <1>2, Finite DEF TypeOK
    <2>4. CASE q = p
      <3>1. Launching(q)' = Launching(q) \cup {c} /\ c \notin Launching(q)
        BY <1>1, <1>2, <2>4 DEF Launching, TypeOK
      <3>2. Cardinality(Launching(q)') = Cardinality(Launching(q)) + 1
        BY <1>2, <3>1, Finite, OneMore
      <3>3. children'[q] = children[q] + 1
        BY <1>1, <1>2, <2>4 DEF TypeOK
      <3> QED
        BY <2>1, <2>2, <2>3, <3>2, <3>3
    <2>5. CASE q # p
      <3>1. Launching(q)' = Launching(q)
        BY <1>1, <1>2, <2>5 DEF Launching, TypeOK
      <3>2. children'[q] = children[q]
        BY <1>1, <1>2, <2>5 DEF TypeOK
      <3> QED
        BY <2>1, <2>2, <3>1, <3>2
    <2> QED
      BY <2>4, <2>5
  <1>8. spawned' <= Budget
    BY <1>1, <1>2 DEF TypeOK
  <1> QED
    BY <1>4, <1>5, <1>6, <1>7, <1>8 DEF IInv

(* Steps of a call that only move its program counter among the counted    *)
(* positions, or among those that are not counted.                         *)
LEMMA CheckInv ==
  ASSUME IInv, NEW c \in Call, Check(c)
  PROVE  IInv'
  <1> USE BrokerAssumption
  <1>1. PICK k \in {"preparing", "failed"} : call' = [call EXCEPT ![c].pc = k]
    BY DEF Check
  <1>2. /\ call[c].pc = "reserved"
        /\ UNCHANGED <<status, children, spawned, depths, parentOf, released, handles,
                       nruns, run, phase, joining>>
    BY DEF Check, ledger, tree
  <1>3. TypeOK /\ RunsNumbered
    BY DEF IInv
  <1>4. TypeOK'
    <2>1. call' \in [Call -> [pc : Pc, by : Run, task : Task, depth : Nat]]
      BY <1>1, <1>3 DEF TypeOK, Pc
    <2> QED
      BY <1>2, <1>3, <2>1 DEF TypeOK
  <1>5. RunsNumbered'
    BY <1>1, <1>2, <1>3 DEF RunsNumbered, TypeOK
  <1>6. Reservations' = Reservations /\ \A p \in Task : Launching(p)' = Launching(p)
    BY <1>1, <1>2, <1>3 DEF Reservations, Launching, TypeOK
  <1> QED
    BY <1>2, <1>4, <1>5, <1>6, Frame

LEMMA WriteReadyInv ==
  ASSUME IInv, NEW c \in Call, WriteReady(c)
  PROVE  IInv'
  <1> USE BrokerAssumption
  <1>1. PICK k \in {"prepared", "failed"} : call' = [call EXCEPT ![c].pc = k]
    BY DEF WriteReady
  <1>2. /\ call[c].pc = "preparing"
        /\ status' = [status EXCEPT ![call[c].task] = "ready"] \/ status' = status
        /\ UNCHANGED <<children, spawned, depths, parentOf, released, handles,
                       nruns, run, phase, joining>>
    BY DEF WriteReady, ledger, tree
  <1>3. TypeOK /\ RunsNumbered
    BY DEF IInv
  <1>4. TypeOK'
    <2>1. call' \in [Call -> [pc : Pc, by : Run, task : Task, depth : Nat]]
      BY <1>1, <1>3 DEF TypeOK, Pc
    <2>2. status' \in [Task -> Status]
      BY <1>2, <1>3 DEF TypeOK, Status
    <2> QED
      BY <1>2, <1>3, <2>1, <2>2 DEF TypeOK
  <1>5. RunsNumbered'
    BY <1>1, <1>2, <1>3 DEF RunsNumbered, TypeOK
  <1>6. Reservations' = Reservations /\ \A p \in Task : Launching(p)' = Launching(p)
    BY <1>1, <1>2, <1>3 DEF Reservations, Launching, TypeOK
  <1> QED
    BY <1>2, <1>4, <1>5, <1>6, Frame

(* A spawn turns a reservation into a run: the sum the budget counter      *)
(* counts is unchanged, and the reservation is why a run number is left.   *)
LEMMA SpawnInv ==
  ASSUME IInv, NEW c \in Call, Spawn(c)
  PROVE  IInv'
  <1> USE BrokerAssumption
  <1> DEFINE new == [task |-> call[c].task, depth |-> call[c].depth, by |-> call[c].by,
                     inner |-> IF phase = "exited" THEN "killed" ELSE "queued",
                     wrapper |-> IF phase = "exited" THEN "aborted" ELSE "live"]
  <1>1. /\ call[c].pc = "prepared"
        /\ nruns' = nruns + 1
        /\ run' = [run EXCEPT ![nruns + 1] = new]
        /\ handles' = Insert(handles, call[c].task, nruns + 1)
        /\ call' = [call EXCEPT ![c].pc = "launched"]
        /\ UNCHANGED <<status, children, spawned, depths, parentOf, released, phase, joining>>
    BY DEF Spawn, ledger, tree
  <1>2. TypeOK /\ RunsNumbered /\ spawned <= Budget /\ LedgerExact /\ SlotsCovered
    BY DEF IInv
  <1>3. Reservations' = Reservations \ {c} /\ c \in Reservations
    BY <1>1, <1>2 DEF Reservations, TypeOK
  <1>4. /\ Cardinality(Reservations') = Cardinality(Reservations) - 1
        /\ Cardinality(Reservations) \in Nat /\ Cardinality(Reservations) > 0
    BY <1>2, <1>3, Finite, OneLess
  <1>5. nruns + 1 <= spawned /\ nruns + 1 \in Run
    <2>1. nruns \in Nat /\ spawned \in Nat
      BY <1>2 DEF TypeOK, Run
    <2>2. spawned = Cardinality(Reservations) + nruns
      BY <1>2 DEF LedgerExact
    <2> QED
      BY <1>2, <1>4, <2>1, <2>2 DEF Run
  <1>6. TypeOK'
    <2>1. call' \in [Call -> [pc : Pc, by : Run, task : Task, depth : Nat]]
      BY <1>1, <1>2 DEF TypeOK, Pc
    <2>2. new \in [task : Task, depth : Nat, by : Run, inner : Inner, wrapper : Wrapper]
      BY <1>2 DEF TypeOK, Inner, Wrapper
    <2>3. run' \in [Run -> [task : Task, depth : Nat, by : Run, inner : Inner, wrapper : Wrapper]]
      BY <1>1, <1>2, <1>5, <2>2 DEF TypeOK
    <2>4. DOMAIN handles' \subseteq Task /\ \A x \in DOMAIN handles' : handles'[x] \in Run
      <3>1. call[c].task \in Task
        BY <1>2 DEF TypeOK
      <3>2. DOMAIN handles \subseteq Task /\ \A x \in DOMAIN handles : handles[x] \in Run
        BY <1>2 DEF TypeOK
      <3> QED
        BY <1>1, <1>5, <3>1, <3>2 DEF Insert
    <2> QED
      BY <1>1, <1>2, <1>5, <2>1, <2>3, <2>4 DEF TypeOK
  <1>7. RunsNumbered'
    <2>1. \A x \in Run : x > nruns' => run'[x].inner = "none"
      BY <1>1, <1>2, <1>5 DEF RunsNumbered, TypeOK, Run
    <2>2. \A d \in Call : call'[d].by <= nruns'
      BY <1>1, <1>2 DEF RunsNumbered, TypeOK, Run
    <2> QED
      BY <2>1, <2>2 DEF RunsNumbered
  <1>8. LedgerExact'
    BY <1>1, <1>2, <1>4 DEF LedgerExact, TypeOK, Run
  <1>9. SlotsCovered'
    <2>1. \A q \in Task : Launching(q)' = Launching(q) /\ Unreleased(q)' = Unreleased(q)
      <3>1. \A d \in Call : call'[d].by = call[d].by /\ run'[call[d].by].task = run[call[d].by].task
        BY <1>1, <1>2, <1>5 DEF RunsNumbered, TypeOK, Run
      <3>2. \A d \in Call : d # c => call'[d].pc = call[d].pc
        BY <1>1, <1>2 DEF TypeOK
      <3>3. call'[c].pc = "launched"
        BY <1>1, <1>2 DEF TypeOK
      <3> QED
        BY <1>1, <3>1, <3>2, <3>3 DEF Launching, Unreleased
    <2> QED
      BY <1>1, <1>2, <2>1 DEF SlotsCovered
  <1> QED
    BY <1>1, <1>2, <1>6, <1>7, <1>8, <1>9 DEF IInv

(* Registering a launched child turns a call that holds a slot into a      *)
(* child that does; whatever lineage entry it replaces gives one up.       *)
LEMMA RegisterInv ==
  ASSUME IInv, NEW c \in Call, Register(c)
  PROVE  IInv'
  <1> USE BrokerAssumption
  <1> DEFINE p == run[call[c].by].task
             t == call[c].task
  <1>1. /\ call[c].pc = "launched"
        /\ depths' = Insert(depths, t, call[c].depth)
        /\ parentOf' = Insert(parentOf, t, p)
        /\ call' = [call EXCEPT ![c] = Idle]
        /\ UNCHANGED <<status, children, spawned, released, handles, nruns, run, phase, joining>>
    BY DEF Register, ledger
  <1>2. TypeOK /\ RunsNumbered /\ spawned <= Budget /\ LedgerExact /\ SlotsCovered
    BY DEF IInv
  <1>3. p \in Task /\ t \in Task /\ call[c].depth \in Nat
    BY <1>2 DEF TypeOK
  <1>4. TypeOK'
    <2>1. call' \in [Call -> [pc : Pc, by : Run, task : Task, depth : Nat]]
      BY <1>1, <1>2 DEF TypeOK, Pc, Idle, Run
    <2>2. DOMAIN depths' \subseteq Task /\ \A x \in DOMAIN depths' : depths'[x] \in Nat
      <3>1. DOMAIN depths \subseteq Task /\ \A x \in DOMAIN depths : depths[x] \in Nat
        BY <1>2 DEF TypeOK
      <3> QED
        BY <1>1, <1>3, <3>1 DEF Insert
    <2>3. DOMAIN parentOf' \subseteq Task /\ \A x \in DOMAIN parentOf' : parentOf'[x] \in Task
      <3>1. DOMAIN parentOf \subseteq Task /\ \A x \in DOMAIN parentOf : parentOf[x] \in Task
        BY <1>2 DEF TypeOK
      <3> QED
        BY <1>1, <1>3, <3>1 DEF Insert
    <2> QED
      BY <1>1, <1>2, <2>1, <2>2, <2>3 DEF TypeOK
  <1>5. RunsNumbered'
    BY <1>1, <1>2 DEF RunsNumbered, TypeOK, Idle, Run
  <1>6. LedgerExact'
    <2>1. Reservations' = Reservations
      BY <1>1, <1>2 DEF Reservations, TypeOK, Idle
    <2> QED
      BY <1>1, <1>2, <2>1 DEF LedgerExact
  <1>7. SlotsCovered'
    <2> SUFFICES ASSUME NEW q \in Task
                 PROVE  children'[q] >= Cardinality(Launching(q)') + Cardinality(Unreleased(q)')
      BY DEF SlotsCovered
    <2>1. children[q] >= Cardinality(Launching(q)) + Cardinality(Unreleased(q))
      BY <1>2 DEF SlotsCovered
    <2>2. children[q] \in Nat /\ children'[q] = children[q]
      BY <1>1, <1>2 DEF TypeOK
    <2>3. /\ IsFiniteSet(Unreleased(q)) /\ Cardinality(Unreleased(q)) \in Nat
          /\ IsFiniteSet(Launching(q)) /\ Cardinality(Launching(q)) \in Nat
      BY <1>2, Finite
    <2>6. IsFiniteSet(Unreleased(q)') /\ Cardinality(Unreleased(q)') \in Nat
      BY <1>4, FiniteNext
    <2>4. CASE q = p
      <3>1. Launching(q)' = Launching(q) \ {c} /\ c \in Launching(q)
        BY <1>1, <1>2, <2>4 DEF Launching, TypeOK, Idle
      <3>2. Cardinality(Launching(q)') = Cardinality(Launching(q)) - 1
        BY <2>3, <3>1, OneLess
      <3>3. Unreleased(q)' \subseteq Unreleased(q) \cup {t}
        BY <1>1 DEF Unreleased, Insert
      <3>4. Cardinality(Unreleased(q)') <= Cardinality(Unreleased(q)) + 1
        <4>1. IsFiniteSet(Unreleased(q) \cup {t})
          BY <2>3, FS_AddElement
        <4>2. Cardinality(Unreleased(q) \cup {t}) <= Cardinality(Unreleased(q)) + 1
          <5>1. CASE t \in Unreleased(q)
            <6>1. Unreleased(q) \cup {t} = Unreleased(q)
              BY <5>1
            <6>2. Cardinality(Unreleased(q) \cup {t}) = Cardinality(Unreleased(q))
              BY <6>1
            <6> QED
              BY <2>3, <6>2
          <5>2. CASE t \notin Unreleased(q)
            BY <2>3, <5>2, OneMore
          <5> QED
            BY <5>1, <5>2
        <4>3. Cardinality(Unreleased(q)') <= Cardinality(Unreleased(q) \cup {t})
          BY <3>3, <4>1, FS_Subset
        <4>4. Cardinality(Unreleased(q) \cup {t}) \in Nat
          BY <4>1, FS_CardinalityType
        <4> QED
          BY <2>3, <2>6, <4>2, <4>3, <4>4
      <3>5. Cardinality(Launching(q)') \in Nat
        BY <1>4, FiniteNext
      <3> QED
        BY <2>1, <2>2, <2>3, <2>6, <3>2, <3>4, <3>5
    <2>5. CASE q # p
      <3>1. Launching(q)' = Launching(q)
        BY <1>1, <1>2, <2>5 DEF Launching, TypeOK, Idle
      <3>2. Unreleased(q)' \subseteq Unreleased(q)
        BY <1>1, <2>5 DEF Unreleased, Insert
      <3>3. Cardinality(Unreleased(q)') <= Cardinality(Unreleased(q))
        BY <2>3, <3>2, FS_Subset
      <3> QED
        BY <2>1, <2>2, <2>3, <2>6, <3>1, <3>3
    <2> QED
      BY <2>4, <2>5
  <1> QED
    BY <1>1, <1>2, <1>4, <1>5, <1>6, <1>7 DEF IInv

(* A rollback finds its own slot in the tally, so it does undo both counts. *)
LEMMA UnrecordInv ==
  ASSUME IInv, NEW c \in Call, Unrecord(c)
  PROVE  IInv'
  <1> USE BrokerAssumption
  <1>2. TypeOK /\ RunsNumbered /\ spawned <= Budget /\ LedgerExact /\ SlotsCovered
    BY DEF IInv
  <1>0. PICK p \in Task : p = run[call[c].by].task
    BY <1>2 DEF TypeOK
  <1>1. /\ call[c].pc = "failed" /\ RollBack(p)
        /\ call' = [call EXCEPT ![c] = Idle]
        /\ UNCHANGED <<status, depths, parentOf, released, handles, nruns, run, phase, joining>>
    BY <1>0 DEF Unrecord, tree
  <1>3. children \in [Task -> Nat] /\ spawned \in Nat /\ nruns \in Nat
    BY <1>2 DEF TypeOK, Run
  <1>4. Launching(p)' = Launching(p) \ {c} /\ c \in Launching(p)
    BY <1>0, <1>1, <1>2 DEF Launching, TypeOK, Idle
  <1>5. Reservations' = Reservations \ {c} /\ c \in Reservations
    BY <1>1, <1>2 DEF Reservations, TypeOK, Idle
  <1>6. /\ Cardinality(Reservations') = Cardinality(Reservations) - 1
        /\ Cardinality(Reservations) \in Nat /\ Cardinality(Reservations) > 0
    BY <1>2, <1>5, Finite, OneLess
  <1>7. /\ Cardinality(Launching(p)') = Cardinality(Launching(p)) - 1
        /\ Cardinality(Launching(p)) \in Nat /\ Cardinality(Launching(p)) > 0
    BY <1>2, <1>3, <1>4, Finite, OneLess
  <1>8. children[p] > 0 /\ spawned > 0
    <2>1. children[p] >= Cardinality(Launching(p)) + Cardinality(Unreleased(p))
      BY <1>2, <1>3 DEF SlotsCovered
    <2>2. Cardinality(Unreleased(p)) \in Nat
      BY <1>2, <1>3, Finite
    <2>3. spawned = Cardinality(Reservations) + nruns
      BY <1>2 DEF LedgerExact
    <2> QED
      BY <1>3, <1>6, <1>7, <2>1, <2>2, <2>3
  <1>9. children' = [children EXCEPT ![p] = @ - 1] /\ spawned' = spawned - 1
    BY <1>1, <1>8 DEF RollBack
  <1>10. TypeOK'
    <2>1. call' \in [Call -> [pc : Pc, by : Run, task : Task, depth : Nat]]
      BY <1>1, <1>2 DEF TypeOK, Pc, Idle, Run
    <2>2. children' \in [Task -> Nat] /\ spawned' \in Nat
      BY <1>3, <1>8, <1>9
    <2> QED
      BY <1>1, <1>2, <2>1, <2>2 DEF TypeOK
  <1>11. RunsNumbered'
    <2>1. \A d \in Call : call'[d].by = call[d].by \/ call'[d].by = 0
      BY <1>1, <1>2 DEF TypeOK, Idle
    <2> QED
      BY <1>1, <1>2, <1>3, <2>1 DEF RunsNumbered
  <1>12. LedgerExact'
    <2>1. spawned = Cardinality(Reservations) + nruns
      BY <1>2 DEF LedgerExact
    <2>2. spawned' = Cardinality(Reservations') + nruns'
      BY <1>1, <1>3, <1>6, <1>9, <2>1
    <2> QED
      BY <2>2 DEF LedgerExact
  <1>13. SlotsCovered'
    <2> SUFFICES ASSUME NEW q \in Task
                 PROVE  children'[q] >= Cardinality(Launching(q)') + Cardinality(Unreleased(q)')
      BY DEF SlotsCovered
    <2>1. Unreleased(q)' = Unreleased(q)
      BY <1>1 DEF Unreleased
    <2>2. children[q] >= Cardinality(Launching(q)) + Cardinality(Unreleased(q))
      BY <1>2 DEF SlotsCovered
    <2>3. /\ children[q] \in Nat /\ Cardinality(Launching(q)) \in Nat
          /\ Cardinality(Unreleased(q)) \in Nat
      BY <1>2, <1>3, Finite
    <2>4. CASE q = p
      <3>1. children'[q] = children[q] - 1
        BY <1>3, <1>9, <2>4
      <3>2. /\ Cardinality(Launching(q)') = Cardinality(Launching(q)) - 1
            /\ Cardinality(Launching(q)) > 0
        BY <1>7, <2>4
      <3> QED
        BY <2>1, <2>2, <2>3, <3>1, <3>2
    <2>5. CASE q # p
      <3>1. Launching(q)' = Launching(q)
        BY <1>0, <1>1, <1>2, <2>5 DEF Launching, TypeOK, Idle
      <3>2. children'[q] = children[q]
        BY <1>3, <1>9, <2>5
      <3> QED
        BY <2>1, <2>2, <3>1, <3>2
    <2> QED
      BY <2>4, <2>5
  <1>14. spawned' <= Budget
    BY <1>2, <1>3, <1>9
  <1> QED
    BY <1>10, <1>11, <1>12, <1>13, <1>14 DEF IInv

(* A release takes the slot of a child that still counted.                 *)
LEMMA ReleaseFanoutInv ==
  ASSUME IInv, NEW c \in Call, ReleaseFanout(c)
  PROVE  IInv'
  <1> USE BrokerAssumption
  <1> DEFINE t == call[c].task
  <1>1. /\ call[c].pc = "observed"
        /\ released' = released \cup {t}
        /\ IF ReleaseDue(t) THEN Release(parentOf[t]) ELSE UNCHANGED <<children, spawned>>
        /\ call' = [call EXCEPT ![c] = Idle]
        /\ UNCHANGED <<status, depths, parentOf, handles, nruns, run, phase, joining>>
    BY DEF ReleaseFanout, ledger
  <1>2. TypeOK /\ RunsNumbered /\ spawned <= Budget /\ LedgerExact /\ SlotsCovered
    BY DEF IInv
  <1>3. t \in Task /\ children \in [Task -> Nat] /\ spawned' = spawned
    BY <1>1, <1>2 DEF TypeOK, Release
  <1>4. children' \in [Task -> Nat]
    <2>1. CASE ReleaseDue(t)
      <3>1. parentOf[t] \in Task
        BY <1>2, <2>1 DEF TypeOK, ReleaseDue
      <3> QED
        BY <1>1, <1>3, <2>1, <3>1 DEF Release
    <2>2. CASE ~ReleaseDue(t)
      BY <1>1, <1>3, <2>2
    <2> QED
      BY <2>1, <2>2
  <1>5. TypeOK'
    <2>1. call' \in [Call -> [pc : Pc, by : Run, task : Task, depth : Nat]]
      BY <1>1, <1>2 DEF TypeOK, Pc, Idle, Run
    <2> QED
      BY <1>1, <1>2, <1>3, <1>4, <2>1 DEF TypeOK
  <1>6. RunsNumbered'
    BY <1>1, <1>2 DEF RunsNumbered, TypeOK, Idle, Run
  <1>7. LedgerExact'
    <2>1. Reservations' = Reservations
      BY <1>1, <1>2 DEF Reservations, TypeOK, Idle
    <2> QED
      BY <1>1, <1>2, <1>3, <2>1 DEF LedgerExact
  <1>8. SlotsCovered'
    <2> SUFFICES ASSUME NEW q \in Task
                 PROVE  children'[q] >= Cardinality(Launching(q)') + Cardinality(Unreleased(q)')
      BY DEF SlotsCovered
    <2>1. Launching(q)' = Launching(q)
      BY <1>1, <1>2 DEF Launching, TypeOK, Idle
    <2>2. Unreleased(q)' = Unreleased(q) \ {t}
      BY <1>1 DEF Unreleased
    <2>3. children[q] >= Cardinality(Launching(q)) + Cardinality(Unreleased(q))
      BY <1>2 DEF SlotsCovered
    <2>4. /\ children[q] \in Nat /\ Cardinality(Launching(q)) \in Nat
          /\ IsFiniteSet(Unreleased(q)) /\ Cardinality(Unreleased(q)) \in Nat
      BY <1>2, <1>3, Finite
    <2>5. CASE ReleaseDue(t) /\ q = parentOf[t]
      <3>1. t \in Unreleased(q)
        BY <2>5 DEF ReleaseDue, Unreleased
      <3>2. /\ Cardinality(Unreleased(q)') = Cardinality(Unreleased(q)) - 1
            /\ Cardinality(Unreleased(q)) > 0
        BY <2>2, <2>4, <3>1, OneLess
      <3>3. children[q] > 0
        BY <2>3, <2>4, <3>2
      <3>4. children'[q] = children[q] - 1
        BY <1>1, <1>3, <2>5, <3>3 DEF Release
      <3> QED
        BY <2>1, <2>3, <2>4, <3>2, <3>4
    <2>6. CASE ~(ReleaseDue(t) /\ q = parentOf[t])
      <3>1. children'[q] = children[q]
        BY <1>1, <1>3, <2>6 DEF Release
      <3>2. Cardinality(Unreleased(q)') <= Cardinality(Unreleased(q))
        BY <2>2, <2>4, FS_Subset
      <3>3. Cardinality(Unreleased(q)') \in Nat
        BY <1>5, FiniteNext
      <3> QED
        BY <2>1, <2>3, <2>4, <3>1, <3>2, <3>3
    <2> QED
      BY <2>5, <2>6
  <1> QED
    BY <1>2, <1>3, <1>5, <1>6, <1>7, <1>8 DEF IInv

(* The other steps of calls move them between positions that hold nothing. *)
LEMMA AwaitInv ==
  ASSUME IInv, NEW c \in Call, NEW r \in Run, NEW t \in Task,
         Await(c, r, t) \/ Observe(c) \/ AwaitTimeout(c)
  PROVE  IInv'
  <1> USE BrokerAssumption
  <1>1. TypeOK /\ RunsNumbered
    BY DEF IInv
  <1>2. UNCHANGED <<status, children, spawned, depths, parentOf, released, handles,
                    nruns, run, phase, joining>>
    BY DEF Await, Observe, AwaitTimeout, ledger, tree
  <1>3. PICK new \in {[pc |-> "awaiting", by |-> r, task |-> t, depth |-> 0],
                      [call[c] EXCEPT !.pc = "observed"], Idle} :
          /\ call' = [call EXCEPT ![c] = new]
          /\ new.by <= nruns
    <2>1. CASE Await(c, r, t)
      <3>1. r <= nruns
        BY <1>1, <2>1 DEF Await, InSession, RunsNumbered, TypeOK, Run
      <3> QED
        BY <2>1, <3>1 DEF Await
    <2>2. CASE Observe(c)
      <3>1. call' = [call EXCEPT ![c] = [call[c] EXCEPT !.pc = "observed"]]
        BY <1>1, <2>2 DEF Observe, TypeOK
      <3>2. [call[c] EXCEPT !.pc = "observed"].by <= nruns
        BY <1>1 DEF RunsNumbered, TypeOK
      <3> QED
        BY <3>1, <3>2
    <2>3. CASE AwaitTimeout(c)
      BY <1>1, <2>3 DEF AwaitTimeout, Idle, TypeOK, Run
    <2> QED
      BY <2>1, <2>2, <2>3
  <1>4. call[c].pc \in {"idle", "awaiting"} /\ new.pc \in {"awaiting", "observed", "idle"}
    BY <1>1, <1>3 DEF Await, Observe, AwaitTimeout, Idle, TypeOK
  <1>5. TypeOK'
    <2>1. new \in [pc : Pc, by : Run, task : Task, depth : Nat]
      <3>1. [call[c] EXCEPT !.pc = "observed"] \in [pc : Pc, by : Run, task : Task, depth : Nat]
        BY <1>1 DEF TypeOK, Pc
      <3>2. Idle \in [pc : Pc, by : Run, task : Task, depth : Nat]
        BY DEF Idle, Pc, Run
      <3>3. [pc |-> "awaiting", by |-> r, task |-> t, depth |-> 0]
              \in [pc : Pc, by : Run, task : Task, depth : Nat]
        BY DEF Pc
      <3> QED
        BY <1>3, <3>1, <3>2, <3>3
    <2>2. call' \in [Call -> [pc : Pc, by : Run, task : Task, depth : Nat]]
      BY <1>1, <1>3, <2>1 DEF TypeOK
    <2> QED
      BY <1>1, <1>2, <2>2 DEF TypeOK
  <1>6. RunsNumbered'
    BY <1>1, <1>2, <1>3 DEF RunsNumbered, TypeOK
  <1>7. Reservations' = Reservations /\ \A p \in Task : Launching(p)' = Launching(p)
    BY <1>1, <1>2, <1>3, <1>4 DEF Reservations, Launching, TypeOK
  <1> QED
    BY <1>2, <1>5, <1>6, <1>7, Frame

(* Steps that touch no call and no ledger: they may write files, move runs *)
(* and wrappers that exist, enter a depth, take handles.                   *)
LEMMA QuietInv ==
  ASSUME IInv,
         UNCHANGED <<children, spawned, parentOf, released, nruns, call>>,
         status' \in [Task -> Status],
         DOMAIN depths' \subseteq Task, \A t \in DOMAIN depths' : depths'[t] \in Nat,
         DOMAIN handles' \subseteq Task, \A t \in DOMAIN handles' : handles'[t] \in Run,
         run' \in [Run -> [task : Task, depth : Nat, by : Run, inner : Inner, wrapper : Wrapper]],
         \A r \in Run : /\ run'[r].task = run[r].task
                        /\ (run[r].inner = "none" /\ r # 0) => run'[r].inner = "none",
         phase' \in Phase, joining' \subseteq Run
  PROVE  IInv'
  <1>1. TypeOK /\ RunsNumbered
    BY DEF IInv
  <1>2. TypeOK'
    BY <1>1 DEF TypeOK
  <1>3. RunsNumbered'
    <2>1. \A r \in Run : r > nruns => r # 0
      BY <1>1 DEF TypeOK, Run
    <2> QED
      BY <1>1, <2>1 DEF RunsNumbered
  <1>4. Reservations' = Reservations
    BY DEF Reservations
  <1>5. \A p \in Task : Launching(p)' = Launching(p)
    <2>1. \A c \in Call : call[c].by \in Run
      BY <1>1 DEF TypeOK
    <2> QED
      BY <2>1 DEF Launching
  <1> QED
    BY <1>2, <1>3, <1>4, <1>5, Frame

LEMMA SetTaskStatusInv ==
  ASSUME IInv, NEW r \in Run, NEW t \in Task, NEW s \in Status, SetTaskStatus(r, t, s)
  PROVE  IInv'
  <1>1. TypeOK
    BY DEF IInv
  <1>2. status' \in [Task -> Status]
    BY <1>1 DEF SetTaskStatus, TypeOK
  <1> QED
    BY <1>1, <1>2, QuietInv DEF SetTaskStatus, TypeOK, ledger, tree

(* The steps of a child run and of its wrapper. *)
LEMMA RunStepInv ==
  ASSUME IInv, NEW r \in Run, RunStep(r) \/ WrapperStep(r)
  PROVE  IInv'
  <1> USE BrokerAssumption
  <1>1. TypeOK
    BY DEF IInv
  <1>2. UNCHANGED <<children, spawned, parentOf, released, nruns, call, handles, phase, joining>>
    BY DEF RunStep, WrapperStep, Start, Break, Settle, WrapperReturns, HardCeiling, ledger, tree
  <1>3. status' \in [Task -> Status]
    BY <1>1 DEF RunStep, WrapperStep, Start, Break, Settle, WrapperReturns, HardCeiling,
                ForceTerminal, TypeOK, Status
  <1>4. DOMAIN depths' \subseteq Task /\ \A t \in DOMAIN depths' : depths'[t] \in Nat
    <2>1. DOMAIN depths \subseteq Task /\ \A t \in DOMAIN depths : depths[t] \in Nat
      BY <1>1 DEF TypeOK
    <2>2. run[r].task \in Task /\ run[r].depth \in Nat
      BY <1>1 DEF TypeOK
    <2>3. depths' = depths \/ depths' = Insert(depths, run[r].task, run[r].depth)
      BY DEF RunStep, WrapperStep, Start, Break, Settle, WrapperReturns, HardCeiling, tree
    <2> QED
      BY <2>1, <2>2, <2>3 DEF Insert
  <1>5. PICK i \in Inner, w \in Wrapper :
          /\ run' = [run EXCEPT ![r] = [task |-> run[r].task, depth |-> run[r].depth,
                                         by |-> run[r].by, inner |-> i, wrapper |-> w]]
          /\ run[r].inner # "none" \/ i = run[r].inner
    <2>1. run[r] = [task |-> run[r].task, depth |-> run[r].depth, by |-> run[r].by,
                    inner |-> run[r].inner, wrapper |-> run[r].wrapper]
      BY <1>1 DEF TypeOK
    <2>2. run[r].inner \in Inner /\ run[r].wrapper \in Wrapper
      BY <1>1 DEF TypeOK
    <2>3. CASE Start(r)
      <3>1. run' = [run EXCEPT ![r] = [task |-> run[r].task, depth |-> run[r].depth,
                                       by |-> run[r].by, inner |-> "session",
                                       wrapper |-> run[r].wrapper]]
        <4>1. [run[r] EXCEPT !.inner = "session"] =
                [task |-> run[r].task, depth |-> run[r].depth, by |-> run[r].by,
                 inner |-> "session", wrapper |-> run[r].wrapper]
          BY <2>1
        <4> QED
          BY <4>1, <2>3 DEF Start
      <3>2. "session" \in Inner /\ run[r].inner # "none"
        BY <2>3 DEF Start, Inner
      <3> QED
        BY <2>2, <3>1, <3>2, Zenon
    <2>4. CASE Break(r)
      <3>1. run' = [run EXCEPT ![r] = [task |-> run[r].task, depth |-> run[r].depth,
                                       by |-> run[r].by, inner |-> "error",
                                       wrapper |-> run[r].wrapper]]
        <4>1. [run[r] EXCEPT !.inner = "error"] =
                [task |-> run[r].task, depth |-> run[r].depth, by |-> run[r].by,
                 inner |-> "error", wrapper |-> run[r].wrapper]
          BY <2>1
        <4> QED
          BY <4>1, <2>4 DEF Break
      <3>2. "error" \in Inner /\ run[r].inner # "none"
        BY <2>4 DEF Break, Unsettled, Inner
      <3> QED
        BY <2>2, <3>1, <3>2, Zenon
    <2>5. CASE \E s \in Status : Settle(r, s)
      <3>1. run' = [run EXCEPT ![r] = [task |-> run[r].task, depth |-> run[r].depth,
                                       by |-> run[r].by, inner |-> "ok",
                                       wrapper |-> run[r].wrapper]]
        <4>1. [run[r] EXCEPT !.inner = "ok"] =
                [task |-> run[r].task, depth |-> run[r].depth, by |-> run[r].by,
                 inner |-> "ok", wrapper |-> run[r].wrapper]
          BY <2>1
        <4> QED
          BY <4>1, <2>5 DEF Settle
      <3>2. "ok" \in Inner /\ run[r].inner # "none"
        BY <2>5 DEF Settle, InSession, Inner
      <3> QED
        BY <2>2, <3>1, <3>2, Zenon
    <2>6. CASE WrapperReturns(r)
      <3>1. run' = [run EXCEPT ![r] = [task |-> run[r].task, depth |-> run[r].depth,
                                       by |-> run[r].by, inner |-> run[r].inner,
                                       wrapper |-> "done"]]
        <4>1. [run[r] EXCEPT !.wrapper = "done"] =
                [task |-> run[r].task, depth |-> run[r].depth, by |-> run[r].by,
                 inner |-> run[r].inner, wrapper |-> "done"]
          BY <2>1
        <4> QED
          BY <4>1, <2>6 DEF WrapperReturns
      <3>2. "done" \in Wrapper
        BY DEF Wrapper
      <3> QED
        BY <2>2, <3>1, <3>2, Zenon
    <2>7. CASE HardCeiling(r)
      <3>1. run' = [run EXCEPT ![r] = [task |-> run[r].task, depth |-> run[r].depth,
                                       by |-> run[r].by, inner |-> "killed",
                                       wrapper |-> "done"]]
        BY <1>1, <2>1, <2>7 DEF HardCeiling, TypeOK
      <3>2. "killed" \in Inner /\ "done" \in Wrapper /\ run[r].inner # "none"
        BY <2>7 DEF HardCeiling, Unsettled, Inner, Wrapper
      <3> QED
        BY <3>1, <3>2
    <2> QED
      BY <2>3, <2>4, <2>5, <2>6, <2>7 DEF RunStep, WrapperStep
  <1>6. [task |-> run[r].task, depth |-> run[r].depth, by |-> run[r].by, inner |-> i, wrapper |-> w]
          \in [task : Task, depth : Nat, by : Run, inner : Inner, wrapper : Wrapper]
    BY <1>1 DEF TypeOK
  <1>7. run' \in [Run -> [task : Task, depth : Nat, by : Run, inner : Inner, wrapper : Wrapper]]
    BY <1>1, <1>5, <1>6 DEF TypeOK
  <1>8. \A x \in Run : /\ run'[x].task = run[x].task
                       /\ (run[x].inner = "none" /\ x # 0) => run'[x].inner = "none"
    <2>1. \A x \in Run : x # r => run'[x] = run[x]
      BY <1>1, <1>5 DEF TypeOK
    <2>2. run'[r].task = run[r].task /\ run'[r].inner = i
      BY <1>1, <1>5 DEF TypeOK
    <2> QED
      BY <1>5, <2>1, <2>2
  <1>9. /\ DOMAIN handles' \subseteq Task /\ \A t \in DOMAIN handles' : handles'[t] \in Run
        /\ phase' \in Phase /\ joining' \subseteq Run
    BY <1>1, <1>2 DEF TypeOK
  <1> QED
    BY <1>2, <1>3, <1>4, <1>7, <1>8, <1>9, QuietInv

(* The steps of the root session and of its teardown. *)
LEMMA RootStepInv ==
  ASSUME IInv, RootReturns \/ Drain \/ RootErrs \/ RootStalls \/ RuntimeStops
  PROVE  IInv'
  <1> USE BrokerAssumption
  <1>1. TypeOK
    BY DEF IInv
  <1>2. UNCHANGED <<status, children, spawned, depths, parentOf, released, nruns, call>>
    BY DEF RootReturns, Drain, RootErrs, RootStalls, RuntimeStops, ledger, tree
  <1>3. /\ DOMAIN handles' \subseteq Task /\ \A t \in DOMAIN handles' : handles'[t] \in Run
        /\ phase' \in Phase /\ joining' \subseteq Run
    <2>1. /\ DOMAIN handles \subseteq Task /\ \A t \in DOMAIN handles : handles[t] \in Run
          /\ phase \in Phase /\ joining \subseteq Run
      BY <1>1 DEF TypeOK
    <2>2. handles' = handles \/ handles' = [t \in {} |-> 0]
      BY DEF RootReturns, Drain, RootErrs, RootStalls, RuntimeStops
    <2>3. joining' = joining \/ joining' = {handles[t] : t \in DOMAIN handles}
      BY DEF RootReturns, Drain, RootErrs, RootStalls, RuntimeStops
    <2>4. phase' \in Phase
      BY DEF RootReturns, Drain, RootErrs, RootStalls, RuntimeStops, Phase
    <2> QED
      BY <2>1, <2>2, <2>3, <2>4
  <1>4. ASSUME NEW r \in Run
        PROVE  /\ run'[r] \in [task : Task, depth : Nat, by : Run, inner : Inner, wrapper : Wrapper]
               /\ run'[r].task = run[r].task
               /\ (run[r].inner = "none" /\ r # 0) => run'[r].inner = "none"
    <2> DEFINE With(i, w) == [task |-> run[r].task, depth |-> run[r].depth, by |-> run[r].by,
                              inner |-> i, wrapper |-> w]
    <2>1. /\ run[r] = With(run[r].inner, run[r].wrapper)
          /\ run[r].inner \in Inner /\ run[r].wrapper \in Wrapper
      BY <1>1 DEF TypeOK
    <2>2. \E i \in Inner, w \in Wrapper :
            /\ run'[r] = With(i, w)
            /\ (run[r].inner = "none" /\ r # 0) => i = "none"
      <3>1. CASE RootReturns
        <4>1. run'[r] = IF r = 0 THEN With("ok", run[r].wrapper) ELSE run[r]
          BY <1>1, <2>1, <3>1 DEF RootReturns, TypeOK
        <4> QED
          BY <2>1, <4>1 DEF Inner
      <3>2. CASE RootStalls
        <4>1. run'[r] = IF r = 0 THEN With("killed", run[r].wrapper) ELSE run[r]
          BY <1>1, <2>1, <3>2 DEF RootStalls, TypeOK
        <4> QED
          BY <2>1, <4>1 DEF Inner
      <3>3. CASE Drain
        <4>1. run'[r] = run[r]
          BY <3>3 DEF Drain
        <4> QED
          BY <2>1, <4>1
      <3>4. CASE RootErrs
        <4>1. \/ r = 0 /\ run'[r] = [run[r] EXCEPT !.inner = "error"]
              \/ run'[r] = [run[r] EXCEPT !.wrapper = "aborted"]
              \/ run'[r] = run[r]
          BY <3>4 DEF RootErrs
        <4>2. /\ [run[r] EXCEPT !.inner = "error"] = With("error", run[r].wrapper)
              /\ [run[r] EXCEPT !.wrapper = "aborted"] = With(run[r].inner, "aborted")
          BY <2>1
        <4> QED
          BY <2>1, <4>1, <4>2 DEF Inner, Wrapper
      <3>5. CASE RuntimeStops
        <4>1. run'[r] = [run[r] EXCEPT !.inner = IF Unsettled(r) THEN "killed" ELSE @,
                                       !.wrapper = IF @ = "live" THEN "aborted" ELSE @]
          BY <3>5 DEF RuntimeStops
        <4>2. run'[r] = With(IF Unsettled(r) THEN "killed" ELSE run[r].inner,
                             IF run[r].wrapper = "live" THEN "aborted" ELSE run[r].wrapper)
          BY <2>1, <4>1
        <4> QED
          BY <2>1, <4>2 DEF Inner, Wrapper, Unsettled
      <3> QED
        BY <3>1, <3>2, <3>3, <3>4, <3>5
    <2>3. \A i \in Inner, w \in Wrapper :
            With(i, w) \in [task : Task, depth : Nat, by : Run, inner : Inner, wrapper : Wrapper]
      BY <1>1 DEF TypeOK
    <2> QED
      BY <2>2, <2>3
  <1>5. run' \in [Run -> [task : Task, depth : Nat, by : Run, inner : Inner, wrapper : Wrapper]]
    <2>1. run' = [r \in Run |-> run'[r]]
      BY <1>1 DEF TypeOK, RootReturns, Drain, RootErrs, RootStalls, RuntimeStops
    <2> QED
      BY <1>4, <2>1
  <1> QED
    BY <1>1, <1>2, <1>3, <1>4, <1>5, QuietInv DEF TypeOK

(* Every step of the specification keeps the invariant. *)
LEMMA NextInv == IInv /\ [Next]_vars => IInv'
  <1> SUFFICES ASSUME IInv, [Next]_vars PROVE IInv'
    OBVIOUS
  <1>1. ASSUME NEW c \in Call, NEW r \in Run, NEW t \in Task, Reserve(c, r, t) \/ Await(c, r, t)
        PROVE  IInv'
    BY <1>1, ReserveInv, AwaitInv
  <1>2. ASSUME NEW r \in Run, NEW t \in Task, NEW s \in Status, SetTaskStatus(r, t, s)
        PROVE  IInv'
    BY <1>2, SetTaskStatusInv
  <1>3. ASSUME NEW c \in Call, CallStep(c)
        PROVE  IInv'
    <2>1. CASE Observe(c) \/ AwaitTimeout(c)
      <3>1. Root \in Task /\ 0 \in Run
        BY BrokerAssumption DEF Run
      <3> QED
        BY <2>1, <3>1, AwaitInv
    <2>2. CASE Check(c) \/ WriteReady(c) \/ Spawn(c) \/ Register(c) \/ Unrecord(c) \/ ReleaseFanout(c)
      BY <2>2, CheckInv, WriteReadyInv, SpawnInv, RegisterInv, UnrecordInv, ReleaseFanoutInv
    <2> QED
      BY <1>3, <2>1, <2>2 DEF CallStep
  <1>4. ASSUME NEW r \in Run, RunStep(r) \/ WrapperStep(r)
        PROVE  IInv'
    BY <1>4, RunStepInv
  <1>5. CASE RootReturns \/ Drain \/ RootErrs \/ RootStalls \/ RuntimeStops
    BY <1>5, RootStepInv
  <1>6. CASE UNCHANGED vars
    <2>1. TypeOK' /\ RunsNumbered'
      BY <1>6 DEF IInv, vars, ledger, tree, TypeOK, RunsNumbered
    <2>2. Reservations' = Reservations /\ \A p \in Task : Launching(p)' = Launching(p)
      BY <1>6 DEF vars, Reservations, Launching
    <2> QED
      BY <1>6, <2>1, <2>2, Frame DEF vars, ledger, tree
  <1>7. CASE Exited
    BY <1>6, <1>7 DEF Exited
  <1> QED
    BY <1>1, <1>2, <1>3, <1>4, <1>5, <1>6, <1>7 DEF Next, AgentStep

THEOREM Inductive == Spec => []IInv
  BY InitInv, NextInv, PTL DEF Spec

(* Types, for every instance. *)
THEOREM TypeCorrect == Spec => []TypeOK
  <1>1. IInv => TypeOK
    BY DEF IInv
  <1> QED
    BY <1>1, Inductive, PTL

(* The budget counter counts exactly the runs spawned and the reservations *)
(* in flight, whatever the calls, the runs and the teardown do.            *)
THEOREM BudgetExact == Spec => []LedgerExact
  <1>1. IInv => LedgerExact
    BY DEF IInv
  <1> QED
    BY <1>1, Inductive, PTL

(* Hence no run of the tree is ever spawned past the budget. *)
THEOREM LaunchBudget == Spec => []LaunchesWithinBudget
  <1>1. IInv => LaunchesWithinBudget
    <2> SUFFICES ASSUME IInv PROVE nruns <= Budget
      BY DEF LaunchesWithinBudget
    <2>1. Cardinality(Reservations) \in Nat
      BY Finite DEF IInv
    <2>2. nruns \in Nat /\ spawned \in Nat /\ Budget \in Nat
      BY BrokerAssumption DEF IInv, TypeOK, Run
    <2> QED
      BY <2>1, <2>2 DEF IInv, LedgerExact
  <1> QED
    BY <1>1, Inductive, PTL

(* Every decrement of the ledger finds something to decrement. *)
THEOREM SlotsNeverSaturate == Spec => []SlotsCovered
  <1>1. IInv => SlotsCovered
    BY DEF IInv
  <1> QED
    BY <1>1, Inductive, PTL
-----------------------------------------------------------------------------
(* How a step moves the two counters, whichever it is.                     *)
LEMMA CounterSteps ==
  ASSUME IInv, [Next]_vars
  PROVE  \/ spawned' = spawned /\ nruns' = nruns
         \/ spawned + 1 <= Budget /\ spawned' = spawned + 1 /\ nruns' = nruns
         \/ spawned' = spawned /\ nruns' = nruns + 1
         \/ spawned > 0 /\ spawned' = spawned - 1 /\ nruns' = nruns
  <1>1. ASSUME NEW c \in Call, NEW r \in Run, NEW t \in Task, Reserve(c, r, t)
        PROVE  spawned + 1 <= Budget /\ spawned' = spawned + 1 /\ nruns' = nruns
    BY <1>1 DEF Reserve, Authorized, Record
  <1>2. ASSUME NEW c \in Call, Spawn(c)
        PROVE  spawned' = spawned /\ nruns' = nruns + 1
    BY <1>2 DEF Spawn, ledger
  <1>3. ASSUME NEW c \in Call, Unrecord(c)
        PROVE  /\ nruns' = nruns
               /\ spawned' = spawned \/ (spawned > 0 /\ spawned' = spawned - 1)
    <2>1. spawned \in Nat
      BY DEF IInv, TypeOK
    <2> QED
      BY <1>3, <2>1 DEF Unrecord, RollBack, ledger
  <1>4. ASSUME NEW c \in Call, CallStep(c), ~Spawn(c), ~Unrecord(c)
        PROVE  spawned' = spawned /\ nruns' = nruns
    BY <1>4 DEF CallStep, Check, WriteReady, Register, Observe, ReleaseFanout, Release,
                AwaitTimeout, ledger, tree
  <1>5. ASSUME NEW c \in Call, NEW r \in Run, NEW t \in Task, Await(c, r, t)
        PROVE  spawned' = spawned /\ nruns' = nruns
    BY <1>5 DEF Await, ledger
  <1>6. ASSUME NEW r \in Run, NEW t \in Task, NEW s \in Status, SetTaskStatus(r, t, s)
        PROVE  spawned' = spawned /\ nruns' = nruns
    BY <1>6 DEF SetTaskStatus, ledger
  <1>7. ASSUME NEW r \in Run, RunStep(r) \/ WrapperStep(r)
        PROVE  spawned' = spawned /\ nruns' = nruns
    BY <1>7 DEF RunStep, WrapperStep, Start, Break, Settle, WrapperReturns, HardCeiling, ledger
  <1>8. CASE RootReturns \/ Drain \/ RootErrs \/ RootStalls \/ RuntimeStops \/ Exited
               \/ UNCHANGED vars
    BY <1>8 DEF RootReturns, Drain, RootErrs, RootStalls, RuntimeStops, Exited, vars, ledger
  <1> QED
    BY <1>1, <1>2, <1>3, <1>4, <1>5, <1>6, <1>7, <1>8 DEF Next, AgentStep

(* The ledger implements the budget promise: seen through the calls that   *)
(* hold a reservation and the runs spawned, each step reserves, launches,  *)
(* cancels or changes nothing. The counters are exact before and after the *)
(* step, so how the counters move says how the reservations move.          *)
LEMMA PromiseStep ==
  ASSUME IInv, IInv', [Next]_vars
  PROVE  [Promise!Next]_(Promise!vars)
  <1>1. PICK n \in Nat : n = Cardinality(Reservations)
    BY Finite DEF IInv
  <1>2. PICK m \in Nat : m = Cardinality(Reservations')
    BY FiniteNext DEF IInv
  <1>3. /\ nruns \in Nat /\ nruns' \in Nat /\ spawned \in Nat /\ spawned' \in Nat
        /\ Budget \in Nat
    BY BrokerAssumption DEF IInv, TypeOK, Run
  <1>4. spawned = n + nruns /\ spawned' = m + nruns'
    BY <1>1, <1>2 DEF IInv, LedgerExact
  <1>5. \/ m = n /\ nruns' = nruns
        \/ n + nruns < Budget /\ m = n + 1 /\ nruns' = nruns
        \/ n > 0 /\ m = n - 1 /\ nruns' = nruns + 1
        \/ n > 0 /\ m = n - 1 /\ nruns' = nruns
    <2>1. \/ spawned' = spawned /\ nruns' = nruns
          \/ spawned + 1 <= Budget /\ spawned' = spawned + 1 /\ nruns' = nruns
          \/ spawned' = spawned /\ nruns' = nruns + 1
          \/ spawned > 0 /\ spawned' = spawned - 1 /\ nruns' = nruns
      BY CounterSteps
    <2>2. n \in Nat /\ m \in Nat
      OBVIOUS
    <2>3. CASE spawned' = spawned /\ nruns' = nruns
      BY <1>3, <1>4, <2>2, <2>3
    <2>4. CASE spawned + 1 <= Budget /\ spawned' = spawned + 1 /\ nruns' = nruns
      BY <1>3, <1>4, <2>2, <2>4
    <2>5. CASE spawned' = spawned /\ nruns' = nruns + 1
      BY <1>3, <1>4, <2>2, <2>5
    <2>6. CASE spawned > 0 /\ spawned' = spawned - 1 /\ nruns' = nruns
      BY <1>3, <1>4, <2>2, <2>6
    <2> QED
      BY <2>1, <2>3, <2>4, <2>5, <2>6
  <1> QED
    BY <1>1, <1>2, <1>5
    DEF Promise!Next, Promise!Reserve, Promise!Cancel, Promise!Launch, Promise!vars

(* The detailed broker implements the abstract budget, for every policy,   *)
(* every set of tasks and calls, and every habit of the agents.            *)
THEOREM BrokerImplementsBudget == Spec => BudgetKept
  <1>1. Init => Promise!Init
    <2> SUFFICES ASSUME Init PROVE Promise!Init
      OBVIOUS
    <2>1. Reservations = {}
      BY DEF Init, Reservations, Idle
    <2>2. Cardinality(Reservations) = 0
      BY <2>1, FS_EmptySet
    <2> QED
      BY <2>2 DEF Init, Promise!Init
  <1>2. IInv /\ IInv' /\ [Next]_vars => [Promise!Next]_(Promise!vars)
    BY PromiseStep
  <1> QED
    BY <1>1, <1>2, Inductive, PTL DEF Spec, BudgetKept, Promise!Spec

-----------------------------------------------------------------------------
(* Depth: whatever entry of the lineage a reservation was computed from,   *)
(* that entry was itself within the caps, and so is everything derived.    *)
Allowed(d) == d <= MaxDepth /\ (ApprovalDepth > 0 => d < ApprovalDepth)

DepthInv ==
  /\ \A t \in DOMAIN depths : Allowed(depths[t])
  /\ \A c \in Call : Allowed(call[c].depth)
  /\ \A r \in Run : Allowed(run[r].depth)

LEMMA DepthInit == Init => DepthInv
  <1>1. Allowed(0)
    BY BrokerAssumption DEF Allowed
  <1> QED
    BY <1>1 DEF Init, DepthInv, Idle, NoRun

(* Only a reservation computes a depth; everything else copies one.        *)
LEMMA DepthNext ==
  ASSUME TypeOK, DepthInv, [Next]_vars
  PROVE  DepthInv'
  <1> USE BrokerAssumption
  <1>0. Allowed(0) /\ 0 \in Run
    BY DEF Allowed, Run
  <1>1. ASSUME NEW c \in Call, NEW r \in Run, NEW t \in Task, Reserve(c, r, t)
        PROVE  DepthInv'
    <2> DEFINE d == depths[run[r].task]
    <2>1. /\ d \in Nat /\ Allowed(d) /\ d + 1 <= MaxDepth /\ d + 1 # ApprovalDepth
      BY <1>1 DEF Reserve, Authorized, TypeOK, DepthInv
    <2>2. Allowed(d + 1)
      BY <2>1 DEF Allowed
    <2>3. /\ call' = [call EXCEPT ![c] = [pc |-> "reserved", by |-> r, task |-> t, depth |-> d + 1]]
          /\ UNCHANGED <<depths, run>>
      BY <1>1 DEF Reserve, tree
    <2>4. \A x \in Call : call'[x].depth = call[x].depth \/ call'[x].depth = d + 1
      BY <2>3 DEF TypeOK
    <2> QED
      BY <2>2, <2>3, <2>4 DEF DepthInv, Allowed
  <1>2. ASSUME NEW c \in Call, Spawn(c)
        PROVE  DepthInv'
    <2>1. \A x \in Run : \/ run'[x].depth = run[x].depth
                         \/ run'[x].depth = call[c].depth
      BY <1>2 DEF Spawn, TypeOK
    <2>2. \A x \in Call : call'[x].depth = call[x].depth
      BY <1>2 DEF Spawn, TypeOK
    <2>3. depths' = depths
      BY <1>2 DEF Spawn, tree
    <2> QED
      BY <2>1, <2>2, <2>3 DEF DepthInv, Allowed
  <1>3. ASSUME NEW c \in Call, CallStep(c), ~Spawn(c)
        PROVE  DepthInv'
    <2>1. \/ depths' = depths
          \/ depths' = Insert(depths, call[c].task, call[c].depth)
      BY <1>3 DEF CallStep, Check, WriteReady, Register, Unrecord, Observe, ReleaseFanout,
                  AwaitTimeout, tree
    <2>2. \A x \in Call : call'[x].depth = call[x].depth \/ call'[x].depth = 0
      BY <1>3 DEF CallStep, Check, WriteReady, Register, Unrecord, Observe, ReleaseFanout,
                  AwaitTimeout, Idle, TypeOK
    <2>3. run' = run
      BY <1>3 DEF CallStep, Check, WriteReady, Register, Unrecord, Observe, ReleaseFanout,
                  AwaitTimeout
    <2>4. \A t \in DOMAIN depths' : Allowed(depths'[t])
      BY <2>1 DEF DepthInv, Insert
    <2> QED
      BY <1>0, <2>2, <2>3, <2>4 DEF DepthInv, Allowed
  <1>4. ASSUME NEW c \in Call, NEW r \in Run, NEW t \in Task, Await(c, r, t)
        PROVE  DepthInv'
    <2>1. \A x \in Call : call'[x].depth = call[x].depth \/ call'[x].depth = 0
      BY <1>4 DEF Await, TypeOK
    <2> QED
      BY <1>0, <1>4, <2>1 DEF Await, tree, DepthInv, Allowed
  <1>5. ASSUME NEW r \in Run, NEW t \in Task, NEW s \in Status, SetTaskStatus(r, t, s)
        PROVE  DepthInv'
    BY <1>5 DEF SetTaskStatus, tree, DepthInv, Allowed
  <1>6. ASSUME NEW r \in Run, RunStep(r) \/ WrapperStep(r)
        PROVE  DepthInv'
    <2>1. depths' = depths \/ depths' = Insert(depths, run[r].task, run[r].depth)
      BY <1>6 DEF RunStep, WrapperStep, Start, Break, Settle, WrapperReturns, HardCeiling, tree
    <2>2. \A x \in Run : run'[x].depth = run[x].depth
      BY <1>6 DEF RunStep, WrapperStep, Start, Break, Settle, WrapperReturns, HardCeiling, TypeOK
    <2>3. call' = call
      BY <1>6 DEF RunStep, WrapperStep, Start, Break, Settle, WrapperReturns, HardCeiling
    <2>4. \A t \in DOMAIN depths' : Allowed(depths'[t])
      BY <2>1 DEF DepthInv, Insert
    <2> QED
      BY <2>2, <2>3, <2>4 DEF DepthInv, Allowed
  <1>7. CASE RootReturns \/ Drain \/ RootErrs \/ RootStalls \/ RuntimeStops \/ Exited
               \/ UNCHANGED vars
    <2>1. depths' = depths /\ call' = call
      BY <1>7 DEF RootReturns, Drain, RootErrs, RootStalls, RuntimeStops, Exited, vars, tree
    <2>2. ASSUME NEW x \in Run PROVE run'[x].depth = run[x].depth
      <3>1. CASE RootReturns \/ RootStalls
        BY <3>1 DEF RootReturns, RootStalls, TypeOK
      <3>2. CASE RootErrs
        BY <3>2 DEF RootErrs, TypeOK
      <3>3. CASE RuntimeStops
        <4>1. run'[x] = [run[x] EXCEPT !.inner = IF Unsettled(x) THEN "killed" ELSE @,
                                       !.wrapper = IF @ = "live" THEN "aborted" ELSE @]
          BY <3>3 DEF RuntimeStops
        <4> QED
          BY <4>1 DEF TypeOK
      <3>4. CASE Drain \/ Exited \/ UNCHANGED vars
        BY <3>4 DEF Drain, Exited, vars
      <3> QED
        BY <1>7, <3>1, <3>2, <3>3, <3>4
    <2> QED
      BY <2>1, <2>2 DEF DepthInv, Allowed
  <1> QED
    BY <1>1, <1>2, <1>3, <1>4, <1>5, <1>6, <1>7 DEF Next, AgentStep

(* No run is ever deeper than the policy allows, whatever order parents,   *)
(* children and re-runs write their lineage entries in.                    *)
THEOREM DepthNeverExceeded == Spec => []DepthCap
  <1>1. IInv /\ DepthInv /\ [Next]_vars => DepthInv'
    BY DepthNext DEF IInv
  <1>2. DepthInv => DepthCap
    BY DEF DepthInv, DepthCap, Allowed
  <1> QED
    BY <1>1, <1>2, DepthInit, Inductive, PTL DEF Spec
=============================================================================
