----------------------------- MODULE TaskRunProofs -----------------------------
(***************************************************************************)
(* For every poll rate, idle timeout, budget, number of continuations,     *)
(* verdict and set of messages: a run stays within its bounds, a message   *)
(* taken off the inbox reaches one agent, and what a run ends with agrees  *)
(* with what its sessions and the checks found.                            *)
(*                                                                         *)
(* The argument: a deadline is at most a second's worth of polls beyond    *)
(* the budget, or it is the time of the dispatch (DeadlineBound), so each  *)
(* session adds one poll at most (Clocked); a hop has two sessions and a   *)
(* failed resume one (Counted); a message is with the session that runs    *)
(* until an agent has seen it, and a retry is due only when none has       *)
(* (Steered); what stands against a review is a question, or is in the     *)
(* report, from the end of the last session on (Judged, Reviewed).         *)
(***************************************************************************)
EXTENDS TaskRun, TLAPS

\* The loop around the sessions, and what comes before a verdict is written.
InLoop == {"session", "ended", "clearing"}
Undecided == InLoop \cup {"interpret", "verdict"}

\* The file says running from the start to the verdict.
Phased ==
  /\ pc = "ready" => status \in {"ready", "running"}
  /\ pc \in Undecided => status = "running"

\* A resumed run is interactive; an interactive run has one session, without
\* continuations, retries or messages, and nobody counts its time.
Attended ==
  /\ setup.entry = "resume" => setup.interactive
  /\ setup.interactive => pc \notin {"ended", "clearing"}
  /\ setup.interactive \/ pc = "ready" => hop = 0 /\ ~retried /\ clock = 0 /\ sent = {}
  /\ ~setup.slot => sent = {}

\* The budget, with the time of the dispatches.
Budget == (setup.ceiling + 1) * SecondTicks + sessions

Clocked ==
  HasCeiling =>
    /\ pc = "session" => clock < Budget /\ (Watched => deadline <= Budget)
    /\ pc \in {"ended", "clearing"} => clock <= Budget

\* A hop has a session and one retry; the failed resume is one more.
Counted ==
  /\ pc = "ready" => sessions <= 1
  /\ setup.entry = "resume" => sessions <= (IF pc = "ready" THEN 0 ELSE 1)
  /\ pc \in InLoop => sessions <= 2 * hop + 2 + (IF retried THEN 1 ELSE 0)
  /\ hop <= setup.conts
  /\ pc = "clearing" => hop < setup.conts
  /\ sessions <= 2 * setup.conts + 3

\* A message is with the session that runs or was seen by one agent.
InHand == \A m \in taken : m \in request <=> seen[m] = 0

Steered ==
  /\ request \subseteq taken /\ taken \subseteq sent /\ inbox \subseteq sent
  /\ \A m \in Mail : seen[m] <= 1 /\ (seen[m] > 0 => m \in taken)
  /\ pc \in {"session", "ended"} => inbox \cap taken = {}
  /\ pc \in {"session", "clearing"} => InHand
  /\ pc = "ended" =>
       IF last.boot = "never" THEN InHand ELSE \A m \in taken : seen[m] = 1

\* Every end but a report, an error and silence is a question to the user.
Judged ==
  /\ pc \in {"ended", "clearing", "verdict"} =>
       /\ last.end # "none"
       /\ last.end \in {"budget", "limit", "unread"} => last.user
  /\ pc = "ended" /\ last.boot = "never" => last.end # "report"
  /\ pc = "verdict" /\ ~setup.interactive /\ setup.conts > 0 =>
       last.end # "report" \/ last.user \/ ~last.resume

\* What a review means after each of the steps that follow a run.
Reviewed ==
  /\ pc \in {"settled", "gated", "checked", "finished"} /\ status = "review" =>
       /\ last.end = "report" /\ ~last.user /\ ~pending
       /\ ~setup.interactive /\ setup.conts > 0 => ~last.resume
  /\ pc \in {"gated", "checked", "finished"} /\ status = "review" => verified # "failed"
  /\ pc \in {"checked", "finished"} /\ status = "review" => (Checked => ~unreported)

\* What the checks leave behind is there when they are over.
Kept ==
  /\ pc \in {"ready", "settled"} \cup Undecided => verified = "none"
  /\ pc \in {"gated", "checked", "finished"} /\ Gated =>
       verified \in {"skipped", "passed", "failed"}
  /\ pc # "finished" => ~committed
  /\ AftermathAgrees

IInv ==
  /\ TypeOK /\ Phased /\ Attended /\ Clocked /\ Counted /\ Steered
  /\ Judged /\ Reviewed /\ Kept

-----------------------------------------------------------------------------
(* Lemmas on the budget.                                                   *)

\* The whole seconds in a number of polls.
LEMMA SecondsFacts ==
  ASSUME NEW t \in Nat, NEW S \in Nat \ {0}
  PROVE  /\ t \div S \in Nat
         /\ (t \div S) * S <= t /\ t < (t \div S) * S + S
OBVIOUS

\* The polls in a number of seconds.
LEMMA PollsFacts ==
  ASSUME NEW a \in Nat, NEW b \in Nat, NEW S \in Nat \ {0}
  PROVE  /\ a * S \in Nat /\ b * S \in Nat
         /\ (a + 1) * S = a * S + S /\ (a + 1) * S \in Nat
         /\ a > b => (a - b) * S = a * S - b * S /\ (a - b) * S \in Nat
OBVIOUS

\* A session's share of the budget ends with the budget, or at once.
LEMMA DeadlineBound ==
  ASSUME NEW C \in Nat, NEW t \in Nat, NEW S \in Nat \ {0},
         NEW left, left = IF C > t \div S THEN C - (t \div S) ELSE 0
  PROVE  /\ left \in Nat /\ left * S \in Nat
         /\ t + left * S <= (C + 1) * S \/ left * S = 0
<1>1. CASE C > t \div S
  <2>1. left = C - (t \div S) /\ left \in Nat
    BY <1>1, SecondsFacts
  <2>2. (C - (t \div S)) * S = C * S - (t \div S) * S /\ (C - (t \div S)) * S \in Nat
    BY <1>1, SecondsFacts, PollsFacts
  <2>3. (C + 1) * S = C * S + S /\ C * S \in Nat
    BY PollsFacts
  <2>4. (t \div S) * S <= t /\ t < (t \div S) * S + S /\ (t \div S) * S \in Nat
    BY SecondsFacts, PollsFacts
  <2>5. \A x, y, z \in Nat : x <= t /\ t < x + S /\ z = y - x => t + z <= y + S
    OBVIOUS
  <2>6. t + (C * S - (t \div S) * S) <= C * S + S
    BY <2>2, <2>3, <2>4, <2>5
  <2> QED BY <2>1, <2>2, <2>3, <2>6
<1>2. CASE ~(C > t \div S)
  BY <1>2
<1> QED BY <1>1, <1>2

\* The budget is a number of polls, one more for each session.
LEMMA BudgetFacts ==
  ASSUME TypeOK, HasCeiling
  PROVE  /\ setup.ceiling \in Nat /\ SecondTicks \in Nat \ {0}
         /\ (setup.ceiling + 1) * SecondTicks \in Nat \ {0}
         /\ Budget = (setup.ceiling + 1) * SecondTicks + sessions
         /\ Budget \in Nat
<1>1. setup.ceiling \in Nat /\ SecondTicks \in Nat \ {0}
  BY RunAssumption DEF TypeOK, HasCeiling, NoCeiling, Setup
<1>2. (setup.ceiling + 1) * SecondTicks \in Nat \ {0}
  BY <1>1, PollsFacts
<1> QED BY <1>1, <1>2 DEF Budget, TypeOK

\* A session is dispatched with what is left of the budget.
LEMMA DispatchFacts ==
  ASSUME TypeOK, NEW messages, Dispatch(messages)
  PROVE  /\ deadline' \in Nat /\ clock' = clock /\ quiet' = 0
         /\ pc' = "session" /\ sessions' = sessions + 1 /\ request' = messages
         /\ (HasCeiling /\ Watched) =>
               \/ deadline' <= (setup.ceiling + 1) * SecondTicks
               \/ deadline' = clock
<1>1. CASE HasCeiling /\ ~setup.interactive
  <2>1. setup.ceiling \in Nat /\ SecondTicks \in Nat \ {0} /\ clock \in Nat
    BY <1>1, BudgetFacts DEF TypeOK
  <2>2. RemainingSeconds = IF setup.ceiling > clock \div SecondTicks
                           THEN setup.ceiling - (clock \div SecondTicks) ELSE 0
    BY DEF RemainingSeconds
  <2>3. /\ RemainingSeconds * SecondTicks \in Nat
        /\ \/ clock + RemainingSeconds * SecondTicks <= (setup.ceiling + 1) * SecondTicks
           \/ RemainingSeconds * SecondTicks = 0
    BY <2>1, <2>2, DeadlineBound
  <2>4. deadline' = clock + RemainingSeconds * SecondTicks
    BY <1>1 DEF Dispatch
  <2>5. deadline' \in Nat /\ (RemainingSeconds * SecondTicks = 0 => deadline' = clock)
    BY <2>1, <2>3, <2>4
  <2>6. \/ deadline' <= (setup.ceiling + 1) * SecondTicks
        \/ deadline' = clock
    BY <2>3, <2>4, <2>5
  <2> QED BY <2>5, <2>6 DEF Dispatch
<1>2. CASE ~(HasCeiling /\ ~setup.interactive)
  BY <1>2 DEF Dispatch, Watched
<1> QED BY <1>1, <1>2

\* So it starts within the bound that one session more allows for.
LEMMA DispatchClocked ==
  ASSUME TypeOK, NEW messages, Dispatch(messages), UNCHANGED setup,
         HasCeiling => clock <= Budget
  PROVE  Clocked'
<1> SUFFICES ASSUME HasCeiling' PROVE clock' < Budget' /\ (Watched' => deadline' <= Budget')
  BY DispatchFacts DEF Clocked
<1> DEFINE K == (setup.ceiling + 1) * SecondTicks
<1>1. HasCeiling /\ (Watched' <=> Watched)
  BY DEF HasCeiling, Watched
<1>2. K \in Nat \ {0} /\ Budget = K + sessions
  BY <1>1, BudgetFacts
<1>3. Budget' = K + sessions'
  BY DEF Budget
<1>4. sessions \in Nat /\ clock \in Nat /\ deadline' \in Nat
  BY DispatchFacts DEF TypeOK
<1>5. /\ clock' = clock /\ sessions' = sessions + 1
      /\ Watched => deadline' <= K \/ deadline' = clock
  BY <1>1, DispatchFacts
<1> HIDE DEF K
<1>6. clock <= K + sessions
  BY <1>1, <1>2
<1>7. clock' < Budget'
  BY <1>2, <1>3, <1>4, <1>5, <1>6
<1>8. Watched => deadline' <= Budget'
  BY <1>2, <1>3, <1>4, <1>5, <1>6
<1> QED BY <1>1, <1>7, <1>8

\* A step that leaves the clock and the sessions alone, and dispatches nothing.
LEMMA ClockKept ==
  ASSUME Clocked, UNCHANGED <<setup, sessions, clock, deadline>>,
         pc' = "session" => pc = "session",
         pc' \in {"ended", "clearing"} => pc \in {"ended", "clearing"}
  PROVE  Clocked'
<1>1. (HasCeiling' <=> HasCeiling) /\ Budget' = Budget /\ (Watched' <=> Watched)
  BY DEF HasCeiling, Budget, Watched
<1> QED BY <1>1 DEF Clocked

-----------------------------------------------------------------------------
LEMMA InitHolds == Init => IInv
<1> SUFFICES ASSUME Init PROVE IInv
  OBVIOUS
<1>1. TypeOK
  BY RunAssumption DEF Init, TypeOK, Setup, Status, Pc, Report, NoReport, End, Boot
<1>2. Phased
  BY DEF Init, Phased, Undecided, InLoop
<1>3. Attended
  BY DEF Init, Attended, Setup
<1>4. Clocked
  BY DEF Init, Clocked
<1>5. Counted
  <2>1. setup.conts \in Nat
    BY <1>1, RunAssumption DEF TypeOK, Setup
  <2> QED BY <2>1 DEF Init, Counted, InLoop
<1>6. Steered
  BY DEF Init, Steered
<1>7. Judged /\ Reviewed
  BY DEF Init, Judged, Reviewed
<1>8. Kept
  BY DEF Init, Kept, AftermathAgrees
<1> QED BY <1>1, <1>2, <1>3, <1>4, <1>5, <1>6, <1>7, <1>8 DEF IInv

-----------------------------------------------------------------------------
(* The steps of a run.                                                     *)

\* The ready task is taken to running, or the run is stranded.
LEMMA StartStep ==
  ASSUME IInv, Start
  PROVE  IInv'
<1> USE DEF IInv
<1>a. /\ status = "ready" => /\ status' = "running" /\ Dispatch({}) /\ pending' = FALSE
                            /\ snapshot' \in BOOLEAN
      /\ status # "ready" => /\ pc' = "stranded"
                            /\ UNCHANGED <<status, sessions, request, deadline, quiet, clock,
                                            pending, snapshot>>
  BY DEF Start
<1>b. /\ pc = "ready"
      /\ UNCHANGED <<setup, hop, retried, last, inbox, sent, taken, seen,
                      unreported, verified, committed, notified>>
  BY DEF Start
<1>1. TypeOK'
  <2>1. CASE status = "ready"
    <3>1. deadline' \in Nat /\ clock' = clock /\ quiet' = 0 /\ pc' = "session"
          /\ sessions' = sessions + 1 /\ request' = {}
      BY <1>a, <2>1, DispatchFacts
    <3>2. status' = "running" /\ pending' = FALSE /\ snapshot' \in BOOLEAN
      BY <1>a, <2>1
    <3>3. sessions' \in Nat /\ clock' \in Nat /\ quiet' \in Nat
      BY <3>1 DEF TypeOK
    <3>4. pc' \in Pc /\ status' \in Status /\ pending' \in BOOLEAN /\ request' \subseteq Mail
      BY <3>1, <3>2 DEF Pc, Status
    <3> QED BY <1>b, <3>1, <3>2, <3>3, <3>4 DEF TypeOK
  <2>2. CASE status # "ready"
    BY <1>a, <1>b, <2>2 DEF TypeOK, Pc
  <2> QED BY <2>1, <2>2
<1>2. Phased'
  BY DEF TypeOK, Phased, Undecided, InLoop, Start, Dispatch, session, steering, work
<1>3. Attended'
  BY DEF TypeOK, Attended, Start, Dispatch, session, steering, work
<1>4. Clocked'
  <2>1. CASE status = "ready"
    <3>1. HasCeiling => clock <= Budget
      BY <1>b, BudgetFacts DEF Attended, TypeOK
    <3> QED BY <1>a, <1>b, <2>1, <3>1, DispatchClocked
  <2>2. CASE status # "ready"
    BY <1>a, <2>2 DEF Clocked
  <2> QED BY <2>1, <2>2
<1>5. Counted'
  <2>1. CASE status = "ready"
    <3>1. pc' = "session" /\ sessions' = sessions + 1
      BY <1>a, <2>1, DispatchFacts
    <3>2. setup.conts \in Nat
      BY RunAssumption DEF TypeOK, Setup
    <3> QED BY <1>b, <3>1, <3>2 DEF TypeOK, Counted, InLoop, Attended
  <2>2. CASE status # "ready"
    BY <1>a, <1>b, <2>2 DEF TypeOK, Counted, InLoop, Attended
  <2> QED BY <2>1, <2>2
<1>6. Steered'
  <2>1. sent = {} /\ taken = {} /\ inbox = {} /\ request = {}
    BY <1>b DEF Attended, Steered
  <2>2. request' = {}
    BY <1>a, <2>1, DispatchFacts
  <2>3. pc' \in {"session", "stranded"}
    BY <1>a, DispatchFacts
  <2> QED BY <1>b, <2>1, <2>2, <2>3 DEF TypeOK, Steered, InHand
<1>7. Judged'
  BY DEF TypeOK, Judged, Start, Dispatch, session, steering, work
<1>8. Reviewed'
  BY DEF TypeOK, Reviewed, Checked, Start, Dispatch, session, steering, work
<1>9. Kept'
  BY RunAssumption DEF TypeOK, Kept, Undecided, InLoop, AftermathAgrees, Gated, Start, Dispatch, session, steering, work
<1> QED BY <1>1, <1>2, <1>3, <1>4, <1>5, <1>6, <1>7, <1>8, <1>9

\* A poll that finds the session going on.
LEMMA PollStep ==
  ASSUME IInv, NEW grown \in BOOLEAN, NEW boot \in Boot, Poll(grown, boot)
  PROVE  IInv'
<1> USE DEF IInv
<1> DEFINE kill == KillAt(clock', quiet')
<1>a. /\ pc = "session" /\ Watched
      /\ UNCHANGED <<setup, status, sessions, hop, retried, deadline, pending,
                      request, inbox, sent, taken, snapshot, unreported, verified,
                      committed, notified>>
  BY DEF Poll, work
<1>b. clock' = Elapsed /\ quiet' \in {0, quiet + 1}
  BY DEF Poll
<1>c. kill \in {"none", "budget", "idle"}
  BY DEF KillAt
<1>d. /\ kill = "none" => UNCHANGED <<pc, last, seen>>
      /\ kill # "none" =>
            /\ last' = [end |-> kill, boot |-> boot, resume |-> FALSE, user |-> kill = "budget"]
            /\ SeenAfter(boot) /\ pc' = "ended"
  BY DEF Poll
<1> HIDE DEF kill
<1>1. TypeOK'
  <2>1. clock' \in Nat /\ quiet' \in Nat
    BY <1>b DEF TypeOK, Elapsed
  <2>2. pc' \in Pc /\ last' \in Report /\ seen' \in [Mail -> Nat]
    <3>1. CASE kill = "none"
      BY <1>d, <3>1 DEF TypeOK
    <3>2. CASE kill # "none"
      <4>1. last' = [end |-> kill, boot |-> boot, resume |-> FALSE, user |-> kill = "budget"]
        BY <1>d, <3>2
      <4>2. (kill = "budget") \in BOOLEAN /\ kill \in End
        BY <1>c DEF End
      <4>3. last' \in Report
        BY <4>1, <4>2 DEF Report
      <4>4. seen' \in [Mail -> Nat]
        BY <1>d, <3>2 DEF SeenAfter, TypeOK
      <4> QED BY <1>d, <3>2, <4>3, <4>4 DEF Pc
    <3> QED BY <3>1, <3>2
  <2> QED BY <1>a, <2>1, <2>2 DEF TypeOK
<1>2. Phased'
  BY DEF TypeOK, Phased, Undecided, InLoop, Poll, Elapsed, KillAt, SeenAfter, Watched, session, steering, work
<1>3. Attended'
  BY DEF TypeOK, Attended, Poll, Elapsed, KillAt, SeenAfter, Watched, session, steering, work
<1>4. Clocked'
  <2> SUFFICES ASSUME HasCeiling
               PROVE  /\ pc' = "session" => clock' < Budget' /\ deadline' <= Budget'
                      /\ pc' = "ended" => clock' <= Budget'
    BY <1>a, <1>c, <1>d DEF Clocked, HasCeiling, Watched
  <2>1. Budget' = Budget /\ Budget \in Nat
    BY <1>a, BudgetFacts DEF Budget
  <2>2. clock' = clock + 1 /\ clock < Budget /\ deadline <= Budget /\ deadline' = deadline
    BY <1>a, <1>b DEF Elapsed, Clocked
  <2>3. clock \in Nat /\ deadline \in Nat
    BY DEF TypeOK
  <2>4. pc' = "session" => clock' < deadline
    <3>1. pc' = "session" => kill = "none"
      BY <1>a, <1>d
    <3>2. kill = "none" => ~(clock' >= deadline)
      BY DEF KillAt, kill
    <3> QED BY <2>2, <2>3, <3>1, <3>2
  <2> QED BY <2>1, <2>2, <2>3, <2>4
<1>5. Counted'
  BY RunAssumption DEF TypeOK, Setup, Counted, InLoop, Poll, Elapsed, KillAt, SeenAfter, Watched, session, steering, work
<1>6. Steered'
  <2>1. CASE pc' = "session"
    BY <1>a, <1>c, <1>d, <2>1 DEF TypeOK, Steered, InHand
  <2>2. CASE pc' = "ended"
    BY <1>a, <1>c, <1>d, <2>2 DEF TypeOK, Steered, InHand, SeenAfter
  <2> QED BY <1>c, <1>d, <1>a, <2>1, <2>2
<1>7. Judged'
  <2>1. CASE kill = "none"
    BY <1>a, <1>d, <2>1 DEF Judged
  <2>2. CASE kill # "none"
    <3>1. last' = [end |-> kill, boot |-> boot, resume |-> FALSE, user |-> kill = "budget"]
          /\ pc' = "ended"
      BY <1>d, <2>2
    <3>2. last'.end = kill /\ last'.user = (kill = "budget")
      BY <3>1
    <3>3. kill = "budget" \/ kill = "idle"
      BY <1>c, <2>2
    <3>4. CASE kill = "budget"
      <4>1. last'.user = TRUE
        BY <3>2, <3>4, Zenon
      <4> QED BY <3>1, <3>2, <3>4, <4>1 DEF Judged
    <3>5. CASE kill = "idle"
      BY <3>1, <3>2, <3>5 DEF Judged
    <3> QED BY <3>3, <3>4, <3>5
  <2> QED BY <2>1, <2>2
<1>8. Reviewed'
  BY DEF TypeOK, Reviewed, Checked, Poll, Elapsed, KillAt, SeenAfter, Watched, session, steering, work
<1>9. Kept'
  BY RunAssumption DEF TypeOK, Kept, Undecided, InLoop, AftermathAgrees, Gated, Poll, Elapsed, KillAt, SeenAfter, Watched, session, steering, work
<1> QED BY <1>1, <1>2, <1>3, <1>4, <1>5, <1>6, <1>7, <1>8, <1>9

\* The session is over.
LEMMA ReturnStep ==
  ASSUME IInv, NEW end \in {"report", "error"}, NEW boot \in Boot, NEW resume \in BOOLEAN,
         NEW user \in BOOLEAN, NEW waits \in BOOLEAN, NEW late \in BOOLEAN,
         Return(end, boot, resume, user, waits, late)
  PROVE  IInv'
<1> USE DEF IInv
<1>a. /\ pc = "session"
      /\ boot = "never" => end = "error" /\ ~user /\ ~waits
      /\ end = "error" => ~resume
      /\ last' = [end |-> end, boot |-> boot, resume |-> resume, user |-> user]
      /\ pending' = (pending \/ waits)
      /\ SeenAfter(boot)
      /\ clock' = IF late /\ HasCeiling /\ ~setup.interactive THEN clock + 1 ELSE clock
      /\ UNCHANGED <<sessions, hop, retried, deadline, quiet, request, inbox, sent, taken,
                      snapshot, unreported, verified, committed, notified>>
  BY DEF Return, work
<1>b. setup.entry = "resume" /\ end = "error" => pc' = "ready" /\ status' = "ready" /\ FallBack
  BY DEF Return
<1>c. ~(setup.entry = "resume" /\ end = "error") =>
         /\ pc' = IF setup.interactive
                  THEN IF end = "report" THEN "interpret" ELSE "verdict"
                  ELSE "ended"
         /\ UNCHANGED <<status, setup>>
  BY DEF Return
<1>1. TypeOK'
  <2>1. clock' \in Nat /\ last' \in Report /\ pending' \in BOOLEAN
    BY <1>a DEF TypeOK, Report, End
  <2>2. seen' \in [Mail -> Nat]
    BY <1>a DEF SeenAfter, TypeOK
  <2>3. setup' \in Setup
    BY <1>b, <1>c DEF FallBack, TypeOK, Setup, Entries
  <2>4. pc' \in Pc /\ status' \in Status
    BY <1>b, <1>c DEF TypeOK, Pc, Status
  <2> QED BY <1>a, <2>1, <2>2, <2>3, <2>4 DEF TypeOK
<1>2. Phased'
  BY DEF TypeOK, Phased, Undecided, InLoop, Return, FallBack, SeenAfter, session, steering, work
<1>3. Attended'
  <2>1. CASE setup.entry = "resume" /\ end = "error"
    <3>1. setup.interactive /\ hop = 0 /\ ~retried /\ clock = 0 /\ sent = {}
      BY <2>1 DEF Attended
    <3>2. clock' = 0
      BY <1>a, <3>1
    <3>3. setup'.entry = "single" /\ setup'.slot = setup.slot
      BY <1>b, <2>1 DEF FallBack, TypeOK, Setup
    <3> QED BY <1>a, <1>b, <2>1, <3>1, <3>2, <3>3 DEF Attended
  <2>2. CASE ~(setup.entry = "resume" /\ end = "error")
    BY <1>a, <1>c, <2>2 DEF Attended
  <2> QED BY <2>1, <2>2
<1>4. Clocked'
  <2> SUFFICES ASSUME HasCeiling', pc' = "ended"
               PROVE  clock' <= Budget'
    BY <1>b, <1>c DEF Clocked
  <2>1. HasCeiling /\ Budget' = Budget /\ Budget \in Nat
    BY <1>a, <1>b, <1>c, BudgetFacts DEF Budget, HasCeiling
  <2>2. clock < Budget /\ clock \in Nat /\ clock' \in {clock, clock + 1}
    BY <1>a, <2>1 DEF Clocked, TypeOK
  <2> QED BY <2>1, <2>2
<1>5. Counted'
  <2>1. CASE setup.entry = "resume" /\ end = "error"
    <3>1. setup.interactive /\ hop = 0 /\ ~retried /\ sessions <= 1
      BY <1>a, <2>1 DEF Attended, Counted
    <3>2. setup'.entry = "single" /\ setup'.conts = setup.conts
      BY <1>b, <2>1 DEF FallBack, TypeOK, Setup
    <3> QED BY <1>a, <1>b, <2>1, <3>1, <3>2 DEF Counted, InLoop
  <2>2. CASE ~(setup.entry = "resume" /\ end = "error")
    BY <1>a, <1>c, <2>2 DEF Counted, InLoop
  <2> QED BY <2>1, <2>2
<1>6. Steered'
  <2>1. /\ request \subseteq taken /\ taken \subseteq sent /\ inbox \subseteq sent
        /\ \A m \in Mail : seen[m] <= 1 /\ (seen[m] > 0 => m \in taken)
        /\ inbox \cap taken = {} /\ InHand
    BY <1>a DEF Steered
  <2>2. taken \subseteq Mail /\ seen \in [Mail -> Nat]
    BY DEF TypeOK
  <2>3. \A m \in Mail : seen'[m] = IF m \in request /\ boot # "never" THEN seen[m] + 1 ELSE seen[m]
    BY <1>a DEF SeenAfter
  <2>4. \A m \in Mail : seen'[m] <= 1 /\ (seen'[m] > 0 => m \in taken)
    BY <2>1, <2>2, <2>3 DEF InHand
  <2>5. IF boot = "never" THEN InHand' ELSE \A m \in taken : seen'[m] = 1
    <3>1. CASE boot = "never"
      BY <1>a, <2>1, <2>2, <2>3, <3>1 DEF InHand
    <3>2. CASE boot # "never"
      <4> SUFFICES ASSUME NEW m \in taken PROVE seen'[m] = 1
        BY <3>2
      <4> QED BY <2>1, <2>2, <2>3, <3>2 DEF InHand
    <3> QED BY <3>1, <3>2
  <2>6. last'.boot = boot /\ pc' \in {"ready", "ended", "interpret", "verdict"}
    BY <1>a, <1>b, <1>c
  <2> QED BY <1>a, <2>1, <2>4, <2>5, <2>6 DEF Steered
<1>7. Judged'
  BY DEF TypeOK, Judged, Return, FallBack, SeenAfter, session, steering, work
<1>8. Reviewed'
  BY DEF TypeOK, Reviewed, Checked, Return, FallBack, SeenAfter, session, steering, work
<1>9. Kept'
  BY RunAssumption DEF TypeOK, Kept, Undecided, InLoop, AftermathAgrees, Gated, Return, FallBack, SeenAfter, session, steering, work
<1> QED BY <1>1, <1>2, <1>3, <1>4, <1>5, <1>6, <1>7, <1>8, <1>9

\* A guest that never came up: once more.
LEMMA RetryStep ==
  ASSUME IInv, RetryNeverBooted
  PROVE  IInv'
<1> USE DEF IInv
<1>a. /\ pc = "ended" /\ last.boot = "never" /\ ~retried /\ retried' = TRUE /\ Dispatch(request)
      /\ UNCHANGED <<setup, status, hop, last, pending, inbox, sent, taken, seen, snapshot,
                      unreported, verified, committed, notified>>
  BY DEF RetryNeverBooted, RetryDue, work
<1>b. /\ deadline' \in Nat /\ clock' = clock /\ quiet' = 0
      /\ pc' = "session" /\ sessions' = sessions + 1 /\ request' = request
  BY <1>a, DispatchFacts
<1>1. TypeOK'
  BY <1>a, <1>b DEF TypeOK, Pc
<1>2. Phased'
  BY DEF TypeOK, Phased, Undecided, InLoop, RetryNeverBooted, RetryDue, Dispatch, session, steering, work
<1>3. Attended'
  BY DEF TypeOK, Attended, RetryNeverBooted, RetryDue, Dispatch, session, steering, work
<1>4. Clocked'
  <2>1. HasCeiling => clock <= Budget
    BY <1>a DEF Clocked
  <2> QED BY <1>a, <2>1, DispatchClocked
<1>5. Counted'
  <2>1. setup.conts \in Nat
    BY RunAssumption DEF TypeOK, Setup
  <2> QED BY <1>a, <1>b, <2>1 DEF TypeOK, Counted, InLoop, Attended
<1>6. Steered'
  BY DEF TypeOK, Steered, InHand, RetryNeverBooted, RetryDue, Dispatch, session, steering, work
<1>7. Judged'
  BY DEF TypeOK, Judged, RetryNeverBooted, RetryDue, Dispatch, session, steering, work
<1>8. Reviewed'
  BY DEF TypeOK, Reviewed, Checked, RetryNeverBooted, RetryDue, Dispatch, session, steering, work
<1>9. Kept'
  BY RunAssumption DEF TypeOK, Kept, Undecided, InLoop, AftermathAgrees, Gated, RetryNeverBooted, RetryDue, Dispatch, session, steering, work
<1> QED BY <1>1, <1>2, <1>3, <1>4, <1>5, <1>6, <1>7, <1>8, <1>9

\* The messages are read.
LEMMA ReadInboxStep ==
  ASSUME IInv, ReadInbox
  PROVE  IInv'
<1> USE DEF IInv
<1>1. TypeOK'
  BY RunAssumption DEF TypeOK, Setup, Entries, Status, Pc, Report, End, Boot, ReadInbox, RetryDue, MoreWork, session, steering, work
<1>2. Phased'
  BY DEF TypeOK, Phased, Undecided, InLoop, ReadInbox, RetryDue, MoreWork, session, steering, work
<1>3. Attended'
  BY DEF TypeOK, Attended, ReadInbox, RetryDue, MoreWork, session, steering, work
<1>4. Clocked'
  BY ClockKept DEF ReadInbox, session, steering, work
<1>5. Counted'
  BY RunAssumption DEF TypeOK, Setup, Counted, InLoop, ReadInbox, RetryDue, MoreWork, session, steering, work
<1>6. Steered'
  <2>1. last.boot # "never"
    BY DEF ReadInbox, RetryDue, MoreWork, Judged, TypeOK
  <2>2. /\ \A m \in taken : seen[m] = 1
        /\ inbox \cap taken = {} /\ taken \subseteq sent /\ inbox \subseteq sent
        /\ \A m \in Mail : seen[m] <= 1 /\ (seen[m] > 0 => m \in taken)
    BY <2>1 DEF ReadInbox, Steered
  <2>3. pc' = "clearing" /\ UNCHANGED <<inbox, sent, seen>>
    BY DEF ReadInbox
  <2>4. inbox \subseteq Mail /\ seen \in [Mail -> Nat]
    BY DEF TypeOK
  <2>5. \A m \in inbox : seen[m] = 0
    BY <2>2, <2>4
  <2>6. CASE setup.slot
    <3>1. request' = inbox /\ taken' = taken \cup inbox
      BY <2>6 DEF ReadInbox
    <3> QED BY <2>2, <2>3, <2>5, <3>1 DEF Steered, InHand
  <2>7. CASE ~setup.slot
    <3>1. request' = {} /\ taken' = taken
      BY <2>7 DEF ReadInbox
    <3> QED BY <2>2, <2>3, <3>1 DEF Steered, InHand
  <2> QED BY <2>6, <2>7
<1>7. Judged'
  BY DEF TypeOK, Judged, ReadInbox, RetryDue, MoreWork, session, steering, work
<1>8. Reviewed'
  BY DEF TypeOK, Reviewed, Checked, ReadInbox, RetryDue, MoreWork, session, steering, work
<1>9. Kept'
  BY RunAssumption DEF TypeOK, Kept, Undecided, InLoop, AftermathAgrees, Gated, ReadInbox, RetryDue, MoreWork, session, steering, work
<1> QED BY <1>1, <1>2, <1>3, <1>4, <1>5, <1>6, <1>7, <1>8, <1>9

\* The next hop.
LEMMA ContinueStep ==
  ASSUME IInv, Continue
  PROVE  IInv'
<1> USE DEF IInv
<1>a. /\ pc = "clearing" /\ inbox' = (IF setup.slot THEN {} ELSE inbox)
      /\ hop' = hop + 1 /\ retried' = FALSE /\ Dispatch(request)
      /\ UNCHANGED <<setup, status, last, pending, sent, taken, seen, snapshot,
                      unreported, verified, committed, notified>>
  BY DEF Continue, work
<1>b. /\ deadline' \in Nat /\ clock' = clock /\ quiet' = 0
      /\ pc' = "session" /\ sessions' = sessions + 1 /\ request' = request
  BY <1>a, DispatchFacts
<1>1. TypeOK'
  <2>1. inbox' \subseteq Mail
    BY <1>a DEF TypeOK
  <2>2. sessions' \in Nat /\ clock' \in Nat /\ quiet' \in Nat /\ pc' \in Pc
    BY <1>b DEF TypeOK, Pc
  <2>3. hop' = hop + 1 /\ retried' = FALSE
    BY <1>a
  <2>4. retried' \in BOOLEAN
    BY <2>3
  <2>5. hop' \in Nat
    BY <2>3 DEF TypeOK
  <2> QED BY <1>a, <1>b, <2>1, <2>2, <2>4, <2>5 DEF TypeOK
<1>2. Phased'
  BY DEF TypeOK, Phased, Undecided, InLoop, Continue, Dispatch, session, steering, work
<1>3. Attended'
  BY DEF TypeOK, Attended, Continue, Dispatch, session, steering, work
<1>4. Clocked'
  <2>1. HasCeiling => clock <= Budget
    BY <1>a DEF Clocked
  <2> QED BY <1>a, <2>1, DispatchClocked
<1>5. Counted'
  <2>1. setup.conts \in Nat
    BY RunAssumption DEF TypeOK, Setup
  <2> QED BY <1>a, <1>b, <2>1 DEF TypeOK, Counted, InLoop, Attended
<1>6. Steered'
  <2>1. sent = {} \/ inbox' = {}
    BY <1>a DEF Attended
  <2> QED BY <1>a, <1>b, <2>1 DEF Steered, InHand
<1>7. Judged'
  BY DEF TypeOK, Judged, Continue, Dispatch, session, steering, work
<1>8. Reviewed'
  BY DEF TypeOK, Reviewed, Checked, Continue, Dispatch, session, steering, work
<1>9. Kept'
  BY RunAssumption DEF TypeOK, Kept, Undecided, InLoop, AftermathAgrees, Gated, Continue, Dispatch, session, steering, work
<1> QED BY <1>1, <1>2, <1>3, <1>4, <1>5, <1>6, <1>7, <1>8, <1>9

\* The loop is over.
LEMMA LeaveLoopStep ==
  ASSUME IInv, LeaveLoop
  PROVE  IInv'
<1> USE DEF IInv
<1>1. TypeOK'
  <2>1. last' \in Report
    BY DEF TypeOK, LeaveLoop, AtLimit, Report, End, Boot
  <2>2. pc' \in Pc /\ request' \subseteq Mail
    BY DEF LeaveLoop, LoopLocalsGone, Pc
  <2> QED BY <2>1, <2>2 DEF TypeOK, LeaveLoop, LoopLocalsGone, steering, work
<1>2. Phased'
  BY DEF TypeOK, Phased, Undecided, InLoop, LeaveLoop, LoopLocalsGone, AtLimit, MoreWork, RetryDue, session, steering, work
<1>3. Attended'
  BY DEF TypeOK, Attended, LeaveLoop, LoopLocalsGone, AtLimit, MoreWork, RetryDue, session, steering, work
<1>4. Clocked'
  BY DEF LeaveLoop, Clocked
<1>5. Counted'
  BY RunAssumption DEF TypeOK, Setup, Counted, InLoop, LeaveLoop, LoopLocalsGone, AtLimit, MoreWork, RetryDue, session, steering, work
<1>6. Steered'
  BY DEF TypeOK, Steered, InHand, LeaveLoop, LoopLocalsGone, AtLimit, MoreWork, RetryDue, session, steering, work
<1>7. Judged'
  BY DEF TypeOK, Judged, LeaveLoop, LoopLocalsGone, AtLimit, MoreWork, RetryDue, session, steering, work
<1>8. Reviewed'
  BY DEF TypeOK, Reviewed, Checked, LeaveLoop, LoopLocalsGone, AtLimit, MoreWork, RetryDue, session, steering, work
<1>9. Kept'
  BY RunAssumption DEF TypeOK, Kept, Undecided, InLoop, AftermathAgrees, Gated, LeaveLoop, LoopLocalsGone, AtLimit, MoreWork, RetryDue, session, steering, work
<1> QED BY <1>1, <1>2, <1>3, <1>4, <1>5, <1>6, <1>7, <1>8, <1>9

\* An interpreter reads the log.
LEMMA InterpretStep ==
  ASSUME IInv, NEW end \in {"report", "unread"}, NEW user \in BOOLEAN, NEW waits \in BOOLEAN,
         Interpret(end, user, waits)
  PROVE  IInv'
<1> USE DEF IInv
<1>1. TypeOK'
  <2>1. last' \in Report
    BY DEF Interpret, NoReport, Report, End, Boot
  <2>2. pc' \in Pc /\ pending' \in BOOLEAN
    BY DEF Interpret, Pc
  <2> QED BY <2>1, <2>2 DEF TypeOK, Interpret, session, steering, work
<1>2. Phased'
  BY DEF TypeOK, Phased, Undecided, InLoop, Interpret, NoReport, session, steering, work
<1>3. Attended'
  BY DEF TypeOK, Attended, Interpret, NoReport, session, steering, work
<1>4. Clocked'
  BY ClockKept DEF Interpret, session, steering, work
<1>5. Counted'
  BY RunAssumption DEF TypeOK, Setup, Counted, InLoop, Interpret, NoReport, session, steering, work
<1>6. Steered'
  BY DEF TypeOK, Steered, InHand, Interpret, NoReport, session, steering, work
<1>7. Judged'
  BY DEF TypeOK, Judged, Interpret, NoReport, session, steering, work
<1>8. Reviewed'
  BY DEF TypeOK, Reviewed, Checked, Interpret, NoReport, session, steering, work
<1>9. Kept'
  BY RunAssumption DEF TypeOK, Kept, Undecided, InLoop, AftermathAgrees, Gated, Interpret, NoReport, session, steering, work
<1> QED BY <1>1, <1>2, <1>3, <1>4, <1>5, <1>6, <1>7, <1>8, <1>9

\* The verdict is written.
LEMMA SettleStepHolds ==
  ASSUME IInv, Settle
  PROVE  IInv'
<1> USE DEF IInv
<1>1. TypeOK'
  BY RunAssumption DEF TypeOK, Setup, Entries, Status, Pc, Report, End, Boot, Settle, SettledStatus, session, steering, work
<1>2. Phased'
  BY DEF TypeOK, Phased, Undecided, InLoop, Settle, SettledStatus, session, steering, work
<1>3. Attended'
  BY DEF TypeOK, Attended, Settle, SettledStatus, session, steering, work
<1>4. Clocked'
  BY ClockKept DEF Settle, session, steering, work
<1>5. Counted'
  BY RunAssumption DEF TypeOK, Setup, Counted, InLoop, Settle, SettledStatus, session, steering, work
<1>6. Steered'
  BY DEF TypeOK, Steered, InHand, Settle, SettledStatus, session, steering, work
<1>7. Judged'
  BY DEF TypeOK, Judged, Settle, SettledStatus, session, steering, work
<1>8. Reviewed'
  <2>1. pc = "verdict" /\ pc' = "settled" /\ UNCHANGED <<setup, last, pending>>
    BY DEF Settle
  <2>2. status' = "review" => ~last.user /\ ~pending /\ last.end \notin {"error", "idle"}
    BY DEF Settle, SettledStatus
  <2>3. last.end \in End
    BY DEF TypeOK, Report
  <2>4. status' = "review" => last.end = "report"
    BY <2>1, <2>2, <2>3 DEF Judged, End
  <2>5. status' = "review" => (~setup.interactive /\ setup.conts > 0 => ~last.resume)
    BY <2>1, <2>2, <2>4 DEF Judged
  <2> QED BY <2>1, <2>2, <2>4, <2>5 DEF Reviewed
<1>9. Kept'
  BY RunAssumption DEF TypeOK, Kept, Undecided, InLoop, AftermathAgrees, Gated, Settle, SettledStatus, session, steering, work
<1> QED BY <1>1, <1>2, <1>3, <1>4, <1>5, <1>6, <1>7, <1>8, <1>9

\* The verification gate.
LEMMA GateStep ==
  ASSUME IInv, Gate
  PROVE  IInv'
<1> USE DEF IInv
<1>1. TypeOK'
  BY RunAssumption DEF TypeOK, Setup, Entries, Status, Pc, Report, End, Boot, Gate, Gated, AfterGate, session, steering, work
<1>2. Phased'
  BY DEF TypeOK, Phased, Undecided, InLoop, Gate, Gated, AfterGate, session, steering, work
<1>3. Attended'
  BY DEF TypeOK, Attended, Gate, Gated, AfterGate, session, steering, work
<1>4. Clocked'
  BY ClockKept DEF Gate, session, steering, work
<1>5. Counted'
  BY RunAssumption DEF TypeOK, Setup, Counted, InLoop, Gate, Gated, AfterGate, session, steering, work
<1>6. Steered'
  BY DEF TypeOK, Steered, InHand, Gate, Gated, AfterGate, session, steering, work
<1>7. Judged'
  BY DEF TypeOK, Judged, Gate, Gated, AfterGate, session, steering, work
<1>8. Reviewed'
  <2>1. pc = "settled" /\ pc' = "gated" /\ UNCHANGED <<setup, last, pending>>
    BY DEF Gate
  <2>2. status' = "review" => status = "review"
    BY DEF Gate, AfterGate
  <2>3. status' = "review" => verified' # "failed"
    BY <2>1 DEF Gate, AfterGate, Kept
  <2> QED BY <2>1, <2>2, <2>3 DEF Reviewed
<1>9. Kept'
  BY RunAssumption DEF TypeOK, Kept, Undecided, InLoop, AftermathAgrees, Gated, Gate, Gated, AfterGate, session, steering, work
<1> QED BY <1>1, <1>2, <1>3, <1>4, <1>5, <1>6, <1>7, <1>8, <1>9

\* The completeness check.
LEMMA FlagStep ==
  ASSUME IInv, Flag
  PROVE  IInv'
<1> USE DEF IInv
<1>1. TypeOK'
  BY RunAssumption DEF TypeOK, Setup, Entries, Status, Pc, Report, End, Boot, Flag, Checked, session, steering, work
<1>2. Phased'
  BY DEF TypeOK, Phased, Undecided, InLoop, Flag, Checked, session, steering, work
<1>3. Attended'
  BY DEF TypeOK, Attended, Flag, Checked, session, steering, work
<1>4. Clocked'
  BY ClockKept DEF Flag, session, steering, work
<1>5. Counted'
  BY RunAssumption DEF TypeOK, Setup, Counted, InLoop, Flag, Checked, session, steering, work
<1>6. Steered'
  BY DEF TypeOK, Steered, InHand, Flag, Checked, session, steering, work
<1>7. Judged'
  BY DEF TypeOK, Judged, Flag, Checked, session, steering, work
<1>8. Reviewed'
  BY DEF TypeOK, Reviewed, Checked, Flag, Checked, session, steering, work
<1>9. Kept'
  BY RunAssumption DEF TypeOK, Kept, Undecided, InLoop, AftermathAgrees, Gated, Flag, Checked, session, steering, work
<1> QED BY <1>1, <1>2, <1>3, <1>4, <1>5, <1>6, <1>7, <1>8, <1>9

\* The user is notified and the files are committed.
LEMMA FinishStep ==
  ASSUME IInv, Finish
  PROVE  IInv'
<1> USE DEF IInv
<1>1. TypeOK'
  BY RunAssumption DEF TypeOK, Setup, Entries, Status, Pc, Report, End, Boot, Finish, Notify, MayCommit, session, steering, work
<1>2. Phased'
  BY DEF TypeOK, Phased, Undecided, InLoop, Finish, Notify, MayCommit, session, steering, work
<1>3. Attended'
  BY DEF TypeOK, Attended, Finish, Notify, MayCommit, session, steering, work
<1>4. Clocked'
  BY ClockKept DEF Finish, session, steering, work
<1>5. Counted'
  BY RunAssumption DEF TypeOK, Setup, Counted, InLoop, Finish, Notify, MayCommit, session, steering, work
<1>6. Steered'
  BY DEF TypeOK, Steered, InHand, Finish, Notify, MayCommit, session, steering, work
<1>7. Judged'
  BY DEF TypeOK, Judged, Finish, Notify, MayCommit, session, steering, work
<1>8. Reviewed'
  BY DEF TypeOK, Reviewed, Checked, Finish, Notify, MayCommit, session, steering, work
<1>9. Kept'
  BY RunAssumption DEF TypeOK, Kept, Undecided, InLoop, AftermathAgrees, Gated, Finish, Notify, MayCommit, session, steering, work
<1> QED BY <1>1, <1>2, <1>3, <1>4, <1>5, <1>6, <1>7, <1>8, <1>9

\* The command returns an error.
LEMMA StrandStep ==
  ASSUME IInv, Strand
  PROVE  IInv'
<1> USE DEF IInv
<1>a. UNCHANGED <<status, last, pending, sessions, hop, retried, clock, deadline, quiet,
                  request, inbox, sent, taken, seen, snapshot, unreported, verified,
                  committed, notified>>
  BY DEF Strand, session, steering, work
<1>b. /\ pc' \in {"ready", "stranded"}
      /\ pc' = "ready" => setup.entry = "resume" /\ pc \in {"ready", "interpret", "verdict"} /\ FallBack
      /\ pc' = "stranded" => setup' = setup
  BY DEF Strand
<1>c. /\ setup' \in Setup /\ setup'.slot = setup.slot /\ setup'.conts = setup.conts
      /\ pc' = "ready" => setup'.entry = "single"
  BY <1>b DEF FallBack, TypeOK, Setup, Entries
<1>1. TypeOK'
  BY <1>a, <1>b, <1>c DEF TypeOK, Pc
<1>2. Phased'
  BY DEF TypeOK, Phased, Undecided, InLoop, Strand, FallBack, session, steering, work
<1>3. Attended'
  <2>1. CASE pc' = "ready"
    <3>1. setup.interactive /\ hop = 0 /\ ~retried /\ clock = 0 /\ sent = {}
      BY <1>b, <2>1 DEF Attended
    <3> QED BY <1>a, <1>b, <1>c, <2>1, <3>1 DEF Attended
  <2>2. CASE pc' # "ready"
    BY <1>a, <1>b, <1>c, <2>2 DEF Attended
  <2> QED BY <2>1, <2>2
<1>4. Clocked'
  BY <1>b DEF Clocked
<1>5. Counted'
  BY RunAssumption DEF TypeOK, Setup, Counted, InLoop, Strand, FallBack, session, steering, work
<1>6. Steered'
  BY DEF TypeOK, Steered, InHand, Strand, FallBack, session, steering, work
<1>7. Judged'
  BY DEF TypeOK, Judged, Strand, FallBack, session, steering, work
<1>8. Reviewed'
  BY DEF TypeOK, Reviewed, Checked, Strand, FallBack, session, steering, work
<1>9. Kept'
  BY RunAssumption DEF TypeOK, Kept, Undecided, InLoop, AftermathAgrees, Gated, Strand, FallBack, session, steering, work
<1> QED BY <1>1, <1>2, <1>3, <1>4, <1>5, <1>6, <1>7, <1>8, <1>9

\* The operator writes a message.
LEMMA WriteStep ==
  ASSUME IInv, NEW m \in Mail, Write(m)
  PROVE  IInv'
<1> USE DEF IInv
<1>1. TypeOK'
  BY RunAssumption DEF TypeOK, Setup, Entries, Status, Pc, Report, End, Boot, Write, session, steering, work
<1>2. Phased'
  BY DEF TypeOK, Phased, Undecided, InLoop, Write, session, steering, work
<1>3. Attended'
  BY DEF TypeOK, Attended, Write, session, steering, work
<1>4. Clocked'
  BY ClockKept DEF Write, session, steering, work
<1>5. Counted'
  BY RunAssumption DEF TypeOK, Setup, Counted, InLoop, Write, session, steering, work
<1>6. Steered'
  BY DEF TypeOK, Steered, InHand, Write, session, steering, work
<1>7. Judged'
  BY DEF TypeOK, Judged, Write, session, steering, work
<1>8. Reviewed'
  BY DEF TypeOK, Reviewed, Checked, Write, session, steering, work
<1>9. Kept'
  BY RunAssumption DEF TypeOK, Kept, Undecided, InLoop, AftermathAgrees, Gated, Write, session, steering, work
<1> QED BY <1>1, <1>2, <1>3, <1>4, <1>5, <1>6, <1>7, <1>8, <1>9

\* Nothing changes.
LEMMA StutterStep ==
  ASSUME IInv, UNCHANGED vars
  PROVE  IInv'
<1> USE DEF IInv
<1>1. TypeOK'
  BY RunAssumption DEF TypeOK, Setup, Entries, Status, Pc, Report, End, Boot, vars, HasCeiling, Checked, session, steering, work
<1>2. Phased'
  BY DEF TypeOK, Phased, Undecided, InLoop, vars, HasCeiling, Checked, session, steering, work
<1>3. Attended'
  BY DEF TypeOK, Attended, vars, HasCeiling, Checked, session, steering, work
<1>4. Clocked'
  BY ClockKept DEF vars, session, steering, work
<1>5. Counted'
  BY RunAssumption DEF TypeOK, Setup, Counted, InLoop, vars, HasCeiling, Checked, session, steering, work
<1>6. Steered'
  BY DEF TypeOK, Steered, InHand, vars, HasCeiling, Checked, session, steering, work
<1>7. Judged'
  BY DEF TypeOK, Judged, vars, HasCeiling, Checked, session, steering, work
<1>8. Reviewed'
  BY DEF TypeOK, Reviewed, Checked, vars, HasCeiling, Checked, session, steering, work
<1>9. Kept'
  BY RunAssumption DEF TypeOK, Kept, Undecided, InLoop, AftermathAgrees, Gated, vars, HasCeiling, Checked, session, steering, work
<1> QED BY <1>1, <1>2, <1>3, <1>4, <1>5, <1>6, <1>7, <1>8, <1>9

-----------------------------------------------------------------------------
\* The invariant is inductive.
LEMMA StepHolds == IInv /\ [Next]_vars => IInv'
<1> SUFFICES ASSUME IInv, [Next]_vars PROVE IInv'
  OBVIOUS
<1>1. CASE Start
  BY <1>1, StartStep
<1>2. CASE AgentStep
  <2>1. PICK end \in {"report", "error"}, boot \in Boot, resume \in BOOLEAN, user \in BOOLEAN,
             waits \in BOOLEAN, late \in BOOLEAN : Return(end, boot, resume, user, waits, late)
    BY <1>2 DEF AgentStep
  <2> QED BY <2>1, ReturnStep
<1>3. CASE Watch
  BY <1>3, PollStep DEF Watch
<1>4. CASE LoopStep
  BY <1>4, RetryStep, ReadInboxStep, ContinueStep, LeaveLoopStep DEF LoopStep
<1>5. CASE SettleStep
  <2>1. CASE \E end \in {"report", "unread"}, user, waits \in BOOLEAN : Interpret(end, user, waits)
    BY <2>1, InterpretStep
  <2>2. CASE Settle \/ Gate \/ Flag \/ Finish
    BY <2>2, SettleStepHolds, GateStep, FlagStep, FinishStep
  <2> QED BY <1>5, <2>1, <2>2 DEF SettleStep
<1>6. CASE Strand
  BY <1>6, StrandStep
<1>7. CASE \E m \in Mail : Write(m)
  BY <1>7, WriteStep
<1>8. CASE Over \/ UNCHANGED vars
  BY <1>8, StutterStep DEF Over
<1> QED BY <1>1, <1>2, <1>3, <1>4, <1>5, <1>6, <1>7, <1>8 DEF Next

\* The invariant holds of every run.
LEMMA Invariant == Spec => []IInv
BY InitHolds, StepHolds, PTL DEF Spec

\* Every variable keeps its type.
THEOREM TypesHold == Spec => []TypeOK
<1>1. IInv => TypeOK
  BY DEF IInv
<1> QED BY <1>1, Invariant, PTL

\* A run stays within its budget of time, and within its sessions, through all
\* continuations and retries and through the fresh run after a failed resume
\* (run_task, run_session_watched).
THEOREM BoundsHold == Spec => []WithinBounds
<1>1. IInv => WithinBounds
  <2> SUFFICES ASSUME IInv PROVE WithinBounds
    OBVIOUS
  <2>1. pc = "session" /\ HasCeiling => clock < (setup.ceiling + 1) * SecondTicks + sessions
    BY DEF IInv, Clocked, Budget
  <2>2. setup.conts \in Nat /\ sessions \in Nat
    BY RunAssumption DEF IInv, TypeOK, Setup
  <2>3. sessions <= 2 * (setup.conts + 1) + 1
    BY <2>2 DEF IInv, Counted
  <2> QED BY <2>1, <2>3 DEF WithinBounds
<1> QED BY <1>1, Invariant, PTL

\* What is read off the inbox reaches one agent and no second one, whatever
\* guests fail to come up (read and truncate of the inbox, retry_never_booted).
THEOREM SteeringReaches == Spec => []SteeringDelivered
<1>1. IInv => SteeringDelivered
  <2> SUFFICES ASSUME IInv, NEW m \in Mail
               PROVE  /\ seen[m] <= 1
                      /\ pc = "session" /\ m \in taken => m \in request \/ seen[m] > 0
    BY DEF SteeringDelivered
  <2>1. seen[m] \in Nat
    BY DEF IInv, TypeOK
  <2> QED BY <2>1 DEF IInv, Steered, InHand
<1> QED BY <1>1, Invariant, PTL

\* A task is left for review only if nothing that the run, the verification
\* gate or the completeness check found stands against it
\* (persist_settled_task, apply_verification_gate,
\* flag_incomplete_files_touched).
THEOREM ReviewsAreComplete == Spec => []ReviewMeansComplete
<1>1. IInv => ReviewMeansComplete
  BY DEF IInv, Reviewed, ReviewMeansComplete
<1> QED BY <1>1, Invariant, PTL

\* Nothing red is committed, and the user is notified exactly of the tasks that
\* are left to her.
THEOREM AftermathsAgree == Spec => []AftermathAgrees
<1>1. IInv => AftermathAgrees
  BY DEF IInv, Kept
<1> QED BY <1>1, Invariant, PTL

\* A question to the user stays one: no check that follows the run takes it
\* back (apply_verification_gate, flag_incomplete_files_touched).
THEOREM QuestionsStand == Spec => QuestionStands
<1>1. IInv /\ [Next]_vars => [status = "needs_user" => status' = "needs_user"]_status
  <2> SUFFICES ASSUME IInv, [Next]_vars, status = "needs_user"
               PROVE  status' = "needs_user"
    OBVIOUS
  <2>1. pc \notin {"ready"} \cup Undecided
    BY DEF IInv, Phased
  <2> USE DEF Undecided, InLoop
  <2>2. CASE Start \/ AgentStep \/ Watch \/ LoopStep
    BY <2>1, <2>2 DEF Start, AgentStep, Return, Watch, Poll, LoopStep, RetryNeverBooted,
                      ReadInbox, Continue, LeaveLoop
  <2>3. CASE SettleStep
    BY <2>1, <2>3 DEF SettleStep, Interpret, Settle, Gate, AfterGate, Flag, Finish
  <2>4. CASE Strand \/ Over \/ \E m \in Mail : Write(m)
    BY <2>4 DEF Strand, Over, vars, Write
  <2>5. CASE UNCHANGED vars
    BY <2>5 DEF vars
  <2> QED BY <2>2, <2>3, <2>4, <2>5 DEF Next
<1> QED BY <1>1, Invariant, PTL DEF Spec, QuestionStands
================================================================================
