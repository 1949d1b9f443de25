------------------------ MODULE BackgroundLaunchProofs ------------------------
(***************************************************************************)
(* For every set of launchers of one task and every number of looks: a     *)
(* launch that is an error leaves no child, a task all of whose launches   *)
(* were errors has an outcome, and the outcome of a child stands against   *)
(* its own launcher.                                                       *)
(*                                                                         *)
(* The argument: a launcher that gave up has waited for its child to go    *)
(* (GivenUp), so that from its look on nobody writes in the name of that   *)
(* launch but the launcher (Unsettled); and whoever wrote that the task    *)
(* runs has not been told of an error yet (SomebodyRuns).  That the lists  *)
(* of sessions stay free of repetitions, although they are written over    *)
(* one another, is because a session that nobody opened yet is in none of  *)
(* the lists, the stale ones included (RunsToCome, FailuresToCome).        *)
(***************************************************************************)
EXTENDS BackgroundLaunch, TLAPS

\* A list of sessions without repetitions.
Distinct(list) ==
    /\ list \in Seq(Session)
    /\ \A i, j \in 1..Len(list) : list[i] = list[j] => i = j

Has(list, session) == \E i \in 1..Len(list) : list[i] = session

\* Somebody holds a list with that session.
Known(session) ==
    \/ Has(file.sessions, session)
    \/ \E l \in Launcher : Has(own[l], session) \/ Has(doc[l], session)

Types ==
    /\ file \in [status : Status, sessions : Seq(Session), by : Launcher \cup {"nobody"}]
    /\ logs \subseteq Session
    /\ phase \in [Launcher -> LauncherPhase]
    /\ child \in [Launcher -> ChildPhase]
    /\ seen \in [Launcher -> 0..1]
    /\ recorded \in [Launcher -> BOOLEAN]
    /\ polls \in [Launcher -> 0..MaxPolls]
    /\ doc \in [Launcher -> Seq(Session)]
    /\ own \in [Launcher -> Seq(Session)]
    /\ reason \in [Launcher -> {"none"} \cup Errors]

Lists ==
    /\ Distinct(file.sessions)
    /\ \A l \in Launcher : Distinct(own[l]) /\ Distinct(doc[l])

\* The session of a run is in no list before its child opened it.
RunsToCome ==
    \A l \in Launcher : child[l] \in {"none", "start", "mark"} => ~Known(<<l, "run">>)

\* Nor is that of a failure before its launcher recorded it.
FailuresToCome ==
    \A l \in Launcher :
        phase[l] \in {"off", "poll", "check", "load", "write"} => ~Known(<<l, "failure">>)

\* A ready task is as it was found: no launch was answered with an error.
ReadyIsUntouched ==
    file.status = "ready" =>
        /\ Len(file.sessions) <= 1
        /\ \A l \in Launcher : phase[l] \notin Errors

LookLeft == \A l \in Launcher : phase[l] \in {"off", "poll"} => polls[l] < MaxPolls

NotLaunched == \A l \in Launcher : phase[l] = "off" <=> child[l] = "none"

\* A launcher that gives up knows why, and its child is gone.
GivenUp ==
    \A l \in Launcher :
        /\ phase[l] \in {"load", "write"} => reason[l] \in Errors
        /\ phase[l] \in {"load", "write"} \cup Errors => child[l] = "over"

\* Who wrote last that the task runs has launched it and knows of no error.
SomebodyRuns ==
    file.status = "running" =>
        file.by \in Launcher /\ phase[file.by] \notin Errors \cup {"off"}

\* Between the two steps of a failure the launch gets no outcome of its own.
Unsettled ==
    \A l \in Launcher :
        phase[l] = "write" => ~(file.by = l /\ file.status \in Settled)

IInv ==
    /\ Types /\ Lists /\ RunsToCome /\ FailuresToCome /\ ReadyIsUntouched /\ LookLeft
    /\ NotLaunched /\ GivenUp /\ SomebodyRuns /\ Unsettled

-----------------------------------------------------------------------------
\* A list with a session that it does not have yet.
LEMMA AppendDistinct ==
    ASSUME NEW list, Distinct(list), NEW session \in Session, ~Has(list, session)
    PROVE  /\ Distinct(Append(list, session))
           /\ \A s : Has(Append(list, session), s) <=> Has(list, s) \/ s = session
<1> DEFINE longer == Append(list, session)
<1>1. list \in Seq(Session) /\ Len(list) \in Nat
  BY DEF Distinct
<1>2. /\ longer \in Seq(Session) /\ Len(longer) = Len(list) + 1
      /\ \A i \in 1..Len(list) : longer[i] = list[i]
      /\ longer[Len(list) + 1] = session
  BY <1>1
<1>3. \A i \in 1..Len(longer) : i \in 1..Len(list) \/ i = Len(list) + 1
  BY <1>1, <1>2
<1>4. \A i \in 1..Len(list) : i \in 1..Len(longer) /\ list[i] # session
  BY <1>1, <1>2 DEF Has
<1>5. Len(list) + 1 \in 1..Len(longer)
  BY <1>1, <1>2
<1> HIDE DEF longer
<1>6. Distinct(longer)
  BY <1>1, <1>2, <1>3, <1>4 DEF Distinct
<1>7. \A s : Has(longer, s) <=> Has(list, s) \/ s = session
  BY <1>2, <1>3, <1>4, <1>5 DEF Has
<1> QED BY <1>6, <1>7 DEF longer

\* The openers' sessions are sessions, and all of them differ.
LEMMA SessionTypes ==
    ASSUME NEW l \in Launcher
    PROVE  /\ <<l, "run">> \in Session /\ <<l, "failure">> \in Session
           /\ \A m \in Launcher : /\ <<m, "run">> = <<l, "run">> => m = l
                                  /\ <<m, "failure">> = <<l, "failure">> => m = l
                                  /\ <<m, "run">> # <<l, "failure">>
<1>1. <<l, "run">> \in Launcher \X {"run", "failure"}
  OBVIOUS
<1>2. <<l, "failure">> \in Launcher \X {"run", "failure"}
  OBVIOUS
<1>3. \A m \in Launcher : <<m, "run">> # <<l, "failure">>
  OBVIOUS
<1> QED BY <1>1, <1>2, <1>3 DEF Session

\* A step that writes no list, and moves launchers and children onwards only,
\* leaves what is known of the lists as it was.
LEMMA ListsKept ==
    ASSUME IInv, UNCHANGED <<file, own, doc>>,
           \A l \in Launcher :
              /\ child'[l] \in {"none", "start", "mark"} =>
                    child[l] \in {"none", "start", "mark"}
              /\ phase'[l] \in {"off", "poll", "check", "load", "write"} =>
                    phase[l] \in {"off", "poll", "check", "load", "write"}
    PROVE  Lists' /\ RunsToCome' /\ FailuresToCome'
<1>1. Lists'
  BY DEF IInv, Lists, Distinct
<1>2. \A s : Known(s)' <=> Known(s)
  BY DEF Known, Has
<1>3. RunsToCome'
  BY <1>2 DEF IInv, RunsToCome
<1>4. FailuresToCome'
  BY <1>2 DEF IInv, FailuresToCome
<1> QED BY <1>1, <1>3, <1>4

LEMMA InitHolds == Init => IInv
<1> SUFFICES ASSUME Init PROVE IInv
  OBVIOUS
<1>1. file.sessions = <<>> \/ file.sessions = <<<<Before, "run">>>>
  BY DEF Init
<1>2. /\ <<>> \in Seq(Session) /\ <<<<Before, "run">>>> \in Seq(Session)
      /\ Len(<<>>) = 0 /\ Len(<<<<Before, "run">>>>) = 1
  BY DEF Session
<1>3. Types
  <2>1. file \in [status : Status, sessions : Seq(Session), by : Launcher \cup {"nobody"}]
    BY <1>1, <1>2 DEF Init, Status
  <2>2. /\ phase \in [Launcher -> LauncherPhase]
        /\ child \in [Launcher -> ChildPhase]
        /\ reason \in [Launcher -> {"none"} \cup Errors]
    BY DEF Init, LauncherPhase, ChildPhase
  <2>3. /\ seen \in [Launcher -> 0..1] /\ polls \in [Launcher -> 0..MaxPolls]
        /\ recorded \in [Launcher -> BOOLEAN]
    BY PollsAssumption DEF Init
  <2>4. doc \in [Launcher -> Seq(Session)] /\ own \in [Launcher -> Seq(Session)]
    BY <1>2 DEF Init
  <2>5. logs \subseteq Session
    BY DEF Init, Session
  <2> QED BY <2>1, <2>2, <2>3, <2>4, <2>5 DEF Types
<1>4. Lists
  <2>1. Distinct(<<>>)
    BY <1>2 DEF Distinct
  <2>2. Distinct(<<<<Before, "run">>>>)
    BY <1>2 DEF Distinct
  <2> QED BY <1>1, <2>1, <2>2 DEF Init, Lists
<1>5. \A s : Known(s) => s = <<Before, "run">>
  <2>1. \A s : ~Has(<<>>, s)
    BY <1>2 DEF Has
  <2>2. \A s : Has(<<<<Before, "run">>>>, s) => s = <<Before, "run">>
    BY <1>2 DEF Has
  <2> QED BY <1>1, <2>1, <2>2 DEF Init, Known
<1>6. \A l \in Launcher : <<l, "run">> # <<Before, "run">> /\ <<l, "failure">> # <<Before, "run">>
  BY LauncherAssumption
<1>7. RunsToCome /\ FailuresToCome
  BY <1>5, <1>6 DEF RunsToCome, FailuresToCome
<1>8. ReadyIsUntouched
  <2>1. Len(file.sessions) <= 1
    BY <1>1, <1>2
  <2> QED BY <2>1 DEF Init, ReadyIsUntouched, Errors
<1>9. LookLeft /\ NotLaunched /\ GivenUp /\ SomebodyRuns /\ Unsettled
  BY PollsAssumption DEF Init, LookLeft, NotLaunched, GivenUp, SomebodyRuns, Unsettled, Errors
<1> QED BY <1>3, <1>4, <1>7, <1>8, <1>9 DEF IInv

-----------------------------------------------------------------------------
(* The child.                                                              *)

LEMMA ReadStep ==
    ASSUME IInv, NEW l \in Launcher, Read(l)
    PROVE  IInv'
<1> USE DEF Read, ChildGoes, launcher
<1>1. CASE file.status # "ready"
  <2>1. Types'
    BY <1>1 DEF IInv, Types, ChildPhase
  <2>2. Lists' /\ RunsToCome' /\ FailuresToCome'
    BY <1>1, ListsKept DEF IInv, Types
  <2>3. ReadyIsUntouched' /\ LookLeft' /\ SomebodyRuns' /\ Unsettled'
    BY <1>1 DEF IInv, ReadyIsUntouched, LookLeft, SomebodyRuns, Unsettled
  <2>4. NotLaunched' /\ GivenUp'
    BY <1>1 DEF IInv, NotLaunched, GivenUp, Types
  <2> QED BY <2>1, <2>2, <2>3, <2>4 DEF IInv
<1>2. CASE file.status = "ready"
  <2>1. Types'
    BY <1>2 DEF IInv, Types, ChildPhase
  <2>2. /\ own' = [own EXCEPT ![l] = file.sessions] /\ UNCHANGED <<file, doc>>
        /\ own \in [Launcher -> Seq(Session)]
    BY <1>2 DEF IInv, Types
  <2>3. Lists'
    BY <2>2 DEF IInv, Lists, Distinct
  <2>4. \A s : Known(s)' => Known(s)
    BY <2>2 DEF Known, Has
  <2>5. RunsToCome' /\ FailuresToCome'
    BY <1>2, <2>4 DEF IInv, RunsToCome, FailuresToCome, Types
  <2>6. ReadyIsUntouched' /\ LookLeft' /\ SomebodyRuns' /\ Unsettled'
    BY <1>2 DEF IInv, ReadyIsUntouched, LookLeft, SomebodyRuns, Unsettled
  <2>7. NotLaunched' /\ GivenUp'
    BY <1>2 DEF IInv, NotLaunched, GivenUp, Types
  <2> QED BY <2>1, <2>3, <2>5, <2>6, <2>7 DEF IInv
<1> QED BY <1>1, <1>2

LEMMA MarkStep ==
    ASSUME IInv, NEW l \in Launcher, Mark(l)
    PROVE  IInv'
<1> USE DEF Mark, ChildGoes, launcher
<1> DEFINE list == Append(own[l], <<l, "run">>)
<1>1. ~Known(<<l, "run">>) /\ ~Has(own[l], <<l, "run">>)
  BY DEF IInv, RunsToCome, Known
<1>2. Distinct(list) /\ \A s : Has(list, s) <=> Has(own[l], s) \/ s = <<l, "run">>
  BY <1>1, AppendDistinct, SessionTypes DEF IInv, Lists
<1>3. /\ own' = [own EXCEPT ![l] = list] /\ doc' = doc /\ own \in [Launcher -> Seq(Session)]
      /\ file' = [status |-> "running", sessions |-> list, by |-> l]
      /\ file'.status = "running" /\ file'.sessions = list /\ file'.by = l
      /\ list \in Seq(Session)
  BY <1>2 DEF IInv, Types, Distinct
<1>4. child[l] = "mark" /\ child' = [child EXCEPT ![l] = "log"]
  OBVIOUS
<1> HIDE DEF list
<1>5. phase[l] \notin Errors \cup {"off", "write"}
  BY <1>4 DEF IInv, NotLaunched, GivenUp
<1>6. Types'
  <2>1. file' \in [status : Status, sessions : Seq(Session), by : Launcher \cup {"nobody"}]
    BY <1>3 DEF Status
  <2>2. own' \in [Launcher -> Seq(Session)]
    BY <1>3
  <2>3. child' \in [Launcher -> ChildPhase]
    BY <1>4 DEF IInv, Types, ChildPhase
  <2> QED BY <2>1, <2>2, <2>3 DEF IInv, Types
<1>7. Lists'
  <2>1. Distinct(file'.sessions)
    BY <1>2, <1>3
  <2>2. \A m \in Launcher : Distinct(own'[m]) /\ Distinct(doc'[m])
    BY <1>2, <1>3 DEF IInv, Lists
  <2> QED BY <2>1, <2>2 DEF Lists, Distinct
<1>8. \A s : Known(s)' => Known(s) \/ s = <<l, "run">>
  BY <1>2, <1>3 DEF Known, Has
<1>9. RunsToCome' /\ FailuresToCome'
  BY <1>4, <1>8, SessionTypes DEF IInv, RunsToCome, FailuresToCome, Types
<1>10. ReadyIsUntouched' /\ LookLeft' /\ SomebodyRuns'
  BY <1>3, <1>5 DEF IInv, ReadyIsUntouched, LookLeft, SomebodyRuns
<1>11. NotLaunched' /\ GivenUp'
  BY <1>4, <1>5 DEF IInv, NotLaunched, GivenUp, Types
<1>12. Unsettled'
  BY <1>3 DEF Unsettled, Settled
<1> QED BY <1>6, <1>7, <1>9, <1>10, <1>11, <1>12 DEF IInv

LEMMA LogStep ==
    ASSUME IInv, NEW l \in Launcher, Log(l)
    PROVE  IInv'
<1> USE DEF Log, ChildGoes, launcher
<1>1. Types'
  <2>1. logs' \subseteq Session
    BY SessionTypes DEF IInv, Types
  <2>2. child' \in [Launcher -> ChildPhase]
    BY DEF IInv, Types, ChildPhase
  <2> QED BY <2>1, <2>2 DEF IInv, Types
<1>2. Lists' /\ RunsToCome' /\ FailuresToCome'
  BY ListsKept DEF IInv, Types
<1>3. ReadyIsUntouched' /\ LookLeft' /\ SomebodyRuns' /\ Unsettled'
  BY DEF IInv, ReadyIsUntouched, LookLeft, SomebodyRuns, Unsettled
<1>4. NotLaunched' /\ GivenUp'
  BY DEF IInv, NotLaunched, GivenUp, Types
<1> QED BY <1>1, <1>2, <1>3, <1>4 DEF IInv

LEMMA SettleStep ==
    ASSUME IInv, NEW l \in Launcher, Settle(l)
    PROVE  IInv'
<1> USE DEF Settle, ChildGoes, launcher
<1>1. PICK s \in Settled : file' = [status |-> s, sessions |-> own[l], by |-> l]
  OBVIOUS
<1>2. s \in Status \ {"ready", "running"}
  BY DEF Status, Settled
<1>3. phase[l] \notin {"load", "write"} \cup Errors \cup {"off"}
  BY DEF IInv, NotLaunched, GivenUp
<1>4. Types'
  BY <1>1, <1>2 DEF IInv, Types, ChildPhase
<1>5. Lists'
  BY <1>1 DEF IInv, Lists
<1>6. \A x : Known(x)' => Known(x)
  BY <1>1 DEF Known
<1>7. RunsToCome' /\ FailuresToCome'
  BY <1>6 DEF IInv, RunsToCome, FailuresToCome, Types
<1>8. ReadyIsUntouched' /\ LookLeft' /\ SomebodyRuns'
  BY <1>1, <1>2 DEF IInv, ReadyIsUntouched, LookLeft, SomebodyRuns
<1>9. NotLaunched' /\ GivenUp' /\ Unsettled'
  BY <1>1, <1>3 DEF IInv, NotLaunched, GivenUp, Unsettled, Types
<1> QED BY <1>4, <1>5, <1>7, <1>8, <1>9 DEF IInv

LEMMA ExitStep ==
    ASSUME IInv, NEW l \in Launcher, Exit(l)
    PROVE  IInv'
<1> USE DEF Exit, ChildGoes, launcher
<1>1. Types'
  BY DEF IInv, Types, ChildPhase
<1>2. Lists' /\ RunsToCome' /\ FailuresToCome'
  BY ListsKept DEF IInv, Types
<1>3. ReadyIsUntouched' /\ LookLeft' /\ SomebodyRuns' /\ Unsettled'
  BY DEF IInv, ReadyIsUntouched, LookLeft, SomebodyRuns, Unsettled
<1>4. NotLaunched' /\ GivenUp'
  BY DEF IInv, NotLaunched, GivenUp, Types
<1> QED BY <1>1, <1>2, <1>3, <1>4 DEF IInv

-----------------------------------------------------------------------------
(* The launcher.                                                           *)

LEMMA LaunchStep ==
    ASSUME IInv, NEW l \in Launcher, Launch(l)
    PROVE  IInv'
<1> USE DEF Launch, Goes, ChildGoes
<1>1. Len(file.sessions) \in 0..1
  <2>1. file.sessions \in Seq(Session)
    BY DEF IInv, Types
  <2>2. Len(file.sessions) \in Nat
    BY <2>1
  <2>3. Len(file.sessions) <= 1
    BY DEF IInv, ReadyIsUntouched
  <2>4. \A n \in Nat : n <= 1 => n \in 0..1
    OBVIOUS
  <2> QED BY <2>2, <2>3, <2>4, Zenon
<1>2. Types'
  BY <1>1 DEF IInv, Types, ChildPhase, LauncherPhase
<1>3. child[l] = "none"
  BY DEF IInv, NotLaunched
<1>4. Lists' /\ RunsToCome' /\ FailuresToCome'
  BY <1>3, ListsKept DEF IInv, Types
<1>5. ReadyIsUntouched' /\ LookLeft' /\ NotLaunched' /\ GivenUp'
  BY <1>3 DEF IInv, ReadyIsUntouched, LookLeft, NotLaunched, GivenUp, Types, Errors
<1>6. SomebodyRuns' /\ Unsettled'
  BY DEF IInv, SomebodyRuns, Unsettled, Types, Errors
<1> QED BY <1>2, <1>4, <1>5, <1>6 DEF IInv

\* The looks at the file and at the child write nothing.
LEMMA LookStep ==
    ASSUME IInv, NEW l \in Launcher, Poll(l) \/ FindExited(l) \/ TimeOut(l) \/ Again(l)
    PROVE  IInv'
<1>1. /\ UNCHANGED <<file, own, doc, logs>>
      /\ \E p \in {"ok", "check", "load", "poll"} : phase' = [phase EXCEPT ![l] = p]
      /\ phase[l] \in {"poll", "check"}
      /\ child' = child \/ child' = [child EXCEPT ![l] = "over"]
  BY DEF Poll, FindExited, TimeOut, Again, Goes, Kill, ChildGoes
<1>2. child[l] # "none"
  BY <1>1 DEF IInv, NotLaunched
<1>3. Types'
  <2>1. polls' \in [Launcher -> 0..MaxPolls]
    <3>1. CASE Poll(l)
      <4>1. polls[l] < MaxPolls
        BY <3>1 DEF Poll, IInv, LookLeft
      <4>2. polls' = [polls EXCEPT ![l] = polls[l] + 1] /\ polls \in [Launcher -> 0..MaxPolls]
        BY <3>1 DEF Poll, Elapsed, IInv, Types
      <4> QED BY <4>1, <4>2, PollsAssumption
    <3>2. CASE ~Poll(l)
      BY <3>2 DEF FindExited, TimeOut, Again, IInv, Types
    <3> QED BY <3>1, <3>2
  <2>2. recorded' \in [Launcher -> BOOLEAN]
    <3>1. IsRecorded(l) \in BOOLEAN
      BY DEF IsRecorded
    <3> QED BY <3>1 DEF Poll, FindExited, TimeOut, Again, IInv, Types
  <2>3. reason' \in [Launcher -> {"none"} \cup Errors]
    BY DEF Poll, FindExited, TimeOut, Again, IInv, Types, Errors
  <2>4. seen' = seen
    BY DEF Poll, FindExited, TimeOut, Again
  <2>5. phase' \in [Launcher -> LauncherPhase] /\ child' \in [Launcher -> ChildPhase]
    <3>1. phase \in [Launcher -> LauncherPhase] /\ child \in [Launcher -> ChildPhase]
      BY DEF IInv, Types
    <3>2. {"ok", "check", "load", "poll"} \subseteq LauncherPhase /\ "over" \in ChildPhase
      BY DEF LauncherPhase, ChildPhase
    <3> QED BY <1>1, <3>1, <3>2
  <2> QED BY <1>1, <2>1, <2>2, <2>3, <2>4, <2>5 DEF IInv, Types
<1>4. Lists' /\ RunsToCome' /\ FailuresToCome'
  BY <1>1, ListsKept DEF IInv, Types
<1>5. ReadyIsUntouched' /\ SomebodyRuns' /\ Unsettled' /\ NotLaunched'
  BY <1>1, <1>2 DEF IInv, ReadyIsUntouched, SomebodyRuns, Unsettled, NotLaunched, Types, Errors
<1>6. LookLeft'
  <2>1. CASE Again(l)
    BY <2>1 DEF Again, Goes, IInv, LookLeft, Types
  <2>2. CASE Poll(l)
    BY <2>2 DEF Poll, Goes, IInv, LookLeft, Types
  <2>3. CASE FindExited(l) \/ TimeOut(l)
    BY <2>3 DEF FindExited, TimeOut, Goes, IInv, LookLeft, Types
  <2> QED BY <2>1, <2>2, <2>3
<1>7. GivenUp'
  <2>1. CASE Poll(l)
    BY <2>1 DEF Poll, Goes, IInv, GivenUp, Types, Errors
  <2>2. CASE Again(l)
    BY <2>2 DEF Again, Goes, IInv, GivenUp, Types, Errors
  <2>3. CASE FindExited(l)
    BY <2>3 DEF FindExited, Goes, IInv, GivenUp, Types, Errors
  <2>4. CASE TimeOut(l)
    BY <2>4 DEF TimeOut, Goes, Kill, ChildGoes, IInv, GivenUp, Types, Errors
  <2> QED BY <2>1, <2>2, <2>3, <2>4
<1> QED BY <1>3, <1>4, <1>5, <1>6, <1>7 DEF IInv

LEMMA LoadStep ==
    ASSUME IInv, NEW l \in Launcher, LoadForFailure(l)
    PROVE  IInv'
<1> USE DEF LoadForFailure, Goes
<1>1. reason[l] \in Errors /\ child[l] = "over" /\ child' = child
  BY DEF IInv, GivenUp
<1>2. CASE IsOpen
  <2>1. Types'
    BY <1>2 DEF IInv, Types, LauncherPhase
  <2>2. /\ doc' = [doc EXCEPT ![l] = file.sessions] /\ UNCHANGED <<file, own>>
        /\ doc \in [Launcher -> Seq(Session)] /\ phase' = [phase EXCEPT ![l] = "write"]
    BY <1>2 DEF IInv, Types
  <2>3. Lists'
    BY <2>2 DEF IInv, Lists, Distinct
  <2>4. \A s : Known(s)' => Known(s)
    BY <2>2 DEF Known, Has
  <2>5. RunsToCome' /\ FailuresToCome'
    BY <1>1, <2>2, <2>4 DEF IInv, RunsToCome, FailuresToCome, Types
  <2>6. ReadyIsUntouched' /\ SomebodyRuns'
    BY <2>2 DEF IInv, ReadyIsUntouched, SomebodyRuns, Types, Errors
  <2>7. Unsettled'
    BY <1>2, <2>2 DEF IInv, Unsettled, IsOpen, Settled, Types
  <2>8. LookLeft' /\ NotLaunched' /\ GivenUp'
    BY <1>1, <2>2 DEF IInv, LookLeft, NotLaunched, GivenUp, Types
  <2> QED BY <2>1, <2>3, <2>5, <2>6, <2>7, <2>8 DEF IInv
<1>3. CASE ~IsOpen
  <2>1. phase' = [phase EXCEPT ![l] = reason[l]] /\ UNCHANGED <<file, own, doc>>
    BY <1>3
  <2>2. file.status \notin {"ready", "running"}
    BY <1>3 DEF IsOpen
  <2>3. reason[l] \in LauncherPhase \ {"off", "poll", "check", "load", "write"}
    BY <1>1 DEF Errors, LauncherPhase
  <2>4. Types'
    BY <2>1, <2>3 DEF IInv, Types
  <2>5. Lists' /\ RunsToCome' /\ FailuresToCome'
    BY <1>1, <2>1, <2>3, ListsKept DEF IInv, Types
  <2>6. ReadyIsUntouched' /\ SomebodyRuns' /\ Unsettled'
    BY <2>1, <2>2, <2>3 DEF IInv, ReadyIsUntouched, SomebodyRuns, Unsettled, Types
  <2>7. LookLeft' /\ NotLaunched' /\ GivenUp'
    BY <1>1, <2>1, <2>3 DEF IInv, LookLeft, NotLaunched, GivenUp, Types
  <2> QED BY <2>4, <2>5, <2>6, <2>7 DEF IInv
<1> QED BY <1>2, <1>3

LEMMA WriteStep ==
    ASSUME IInv, NEW l \in Launcher, WriteFailure(l)
    PROVE  IInv'
<1> USE DEF WriteFailure, Goes, FailureSession
<1> DEFINE list == Append(doc[l], <<l, "failure">>)
<1>1. reason[l] \in Errors /\ child[l] = "over" /\ child' = child
  BY DEF IInv, GivenUp
<1>2. ~Known(<<l, "failure">>) /\ ~Has(doc[l], <<l, "failure">>)
  BY DEF IInv, FailuresToCome, Known
<1>3. Distinct(list) /\ \A s : Has(list, s) <=> Has(doc[l], s) \/ s = <<l, "failure">>
  BY <1>2, AppendDistinct, SessionTypes DEF IInv, Lists
<1>4. /\ file' = [status |-> "failed", sessions |-> list, by |-> l]
      /\ file'.status = "failed" /\ file'.sessions = list /\ file'.by = l
      /\ list \in Seq(Session) /\ UNCHANGED <<own, doc, polls>>
      /\ phase' = [phase EXCEPT ![l] = reason[l]]
  BY <1>3 DEF Distinct
<1> HIDE DEF list
<1>5. reason[l] \in LauncherPhase \ {"off", "poll", "check", "load", "write"}
  BY <1>1 DEF Errors, LauncherPhase
<1>6. Types'
  <2>1. file' \in [status : Status, sessions : Seq(Session), by : Launcher \cup {"nobody"}]
    BY <1>4 DEF Status, Settled
  <2>2. phase' \in [Launcher -> LauncherPhase]
    BY <1>4, <1>5 DEF IInv, Types
  <2>3. logs' \subseteq Session
    BY SessionTypes DEF IInv, Types
  <2> QED BY <1>1, <1>4, <2>1, <2>2, <2>3 DEF IInv, Types
<1>7. Lists'
  <2>1. Distinct(file'.sessions)
    BY <1>3, <1>4
  <2>2. \A m \in Launcher : Distinct(own'[m]) /\ Distinct(doc'[m])
    BY <1>4 DEF IInv, Lists
  <2> QED BY <2>1, <2>2 DEF Lists, Distinct
<1>8. \A s : Known(s)' => Known(s) \/ s = <<l, "failure">>
  BY <1>3, <1>4 DEF Known, Has
<1>9. RunsToCome'
  BY <1>1, <1>8, SessionTypes DEF IInv, RunsToCome
<1>10. FailuresToCome'
  BY <1>4, <1>5, <1>8, SessionTypes DEF IInv, FailuresToCome, Types
<1>11. ReadyIsUntouched' /\ SomebodyRuns' /\ Unsettled'
  BY <1>4, <1>5 DEF IInv, ReadyIsUntouched, SomebodyRuns, Unsettled, Types
<1>12. LookLeft' /\ NotLaunched' /\ GivenUp'
  BY <1>1, <1>4, <1>5 DEF IInv, LookLeft, NotLaunched, GivenUp, Types
<1> QED BY <1>6, <1>7, <1>9, <1>10, <1>11, <1>12 DEF IInv

-----------------------------------------------------------------------------
\* The invariant is inductive.
LEMMA StepHolds == IInv /\ [Next]_vars => IInv'
<1> SUFFICES ASSUME IInv, [Next]_vars PROVE IInv'
  OBVIOUS
<1>1. ASSUME NEW l \in Launcher, Launch(l) PROVE IInv'
  BY <1>1, LaunchStep
<1>2. ASSUME NEW l \in Launcher, Waits(l) PROVE IInv'
  BY <1>2, LookStep, LoadStep, WriteStep DEF Waits
<1>3. ASSUME NEW l \in Launcher, Runs(l) PROVE IInv'
  BY <1>3, ReadStep, MarkStep, LogStep, SettleStep, ExitStep DEF Runs
<1>4. CASE UNCHANGED vars
  <2>1. Types' /\ ReadyIsUntouched' /\ LookLeft' /\ NotLaunched'
    BY <1>4 DEF IInv, vars, Types, ReadyIsUntouched, LookLeft, NotLaunched
  <2>2. GivenUp' /\ SomebodyRuns' /\ Unsettled'
    BY <1>4 DEF IInv, vars, GivenUp, SomebodyRuns, Unsettled
  <2>3. Lists' /\ RunsToCome' /\ FailuresToCome'
    BY <1>4, ListsKept DEF vars
  <2> QED BY <2>1, <2>2, <2>3 DEF IInv
<1> QED BY <1>1, <1>2, <1>3, <1>4 DEF Next

\* The invariant holds of every run of the launches.
LEMMA Invariant == Spec => []IInv
BY InitHolds, StepHolds, PTL DEF Spec

\* The types, and no session twice in the file, however many launchers and
\* children write over one another what they read before.
THEOREM TypesHold == Spec => []TypeOK
<1>1. IInv => TypeOK
  <2> SUFFICES ASSUME IInv PROVE TypeOK
    OBVIOUS
  <2>1. file.sessions \in Seq(Session) /\ DOMAIN file.sessions = 1..Len(file.sessions)
    BY DEF IInv, Types
  <2>2. \A i, j \in DOMAIN file.sessions :
           /\ file.sessions[i] \in Session
           /\ file.sessions[i] = file.sessions[j] => i = j
    BY <2>1 DEF IInv, Lists, Distinct
  <2> QED BY <2>2 DEF IInv, Types, TypeOK
<1> QED BY <1>1, Invariant, PTL

\* A launch that ends in an error leaves no child that goes on to write the
\* file, and a task all of whose launches were errors has an outcome
\* (spawn_task_in_background, record_background_launch_failure).
THEOREM ErrorsAreOver == Spec => []ErrorMeansOver
<1>1. IInv => ErrorMeansOver
  <2> SUFFICES ASSUME IInv PROVE ErrorMeansOver
    OBVIOUS
  <2>1. \A l \in Launcher : phase[l] \in Errors => child[l] = "over"
    BY DEF IInv, GivenUp
  <2>2. ASSUME \A l \in Launcher : phase[l] \in Errors \cup {"off"},
               \E l \in Launcher : phase[l] \in Errors
        PROVE  file.status \in Settled
    BY <2>2 DEF IInv, ReadyIsUntouched, SomebodyRuns, Types, Status
  <2> QED BY <2>1, <2>2 DEF ErrorMeansOver
<1> QED BY <1>1, Invariant, PTL

\* The outcome that a child wrote is never replaced by the failure that its
\* own launcher records (record_background_launch_failure).
THEOREM OutcomesStand == Spec => OutcomeStands
<1> DEFINE Stands == \A l \in Launcher :
              (phase[l] = "write" /\ phase'[l] # "write")
              => ~(file.by = l /\ file.status \in Settled)
<1>1. IInv => Stands
  BY DEF IInv, Unsettled
<1>2. []IInv => [][Stands]_vars
  BY <1>1, PTL
<1> QED BY <1>2, Invariant DEF OutcomeStands
===============================================================================
