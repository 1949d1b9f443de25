------------------------ MODULE BundleApprovalProofs ------------------------
(***************************************************************************)
(* For every set of processes, capabilities, sandboxes and modes, and any  *)
(* number of edits and commands: a verified launch runs with the pinned    *)
(* content or with one whose every fact an operator said yes to.           *)
(*                                                                         *)
(* The argument: the approved copy holds only facts that were confirmed    *)
(* (CopyConfirmed), so does what each process loaded from it, however old  *)
(* it is by now, because what was confirmed only grows (PrevConfirmed).    *)
(* What a comparison reports is all that the new content adds to the old   *)
(* one (NewFacts): what is stored after a yes, or without a question, adds *)
(* nothing that was not confirmed.                                         *)
(***************************************************************************)
EXTENDS BundleApproval, TLAPS

\* What the copy allows was confirmed.
CopyConfirmed == copy # None => Facts(copy) \subseteq confirmed

\* So was what a process loaded, whatever replaced the copy since.
PrevConfirmed ==
    \A p \in Process : prev[p] # None => Facts(prev[p]) \subseteq confirmed

\* A process that compares has read the bundle.
HasRead ==
    \A p \in Process : phase[p] \in {"load", "decide"} => new[p] \in Content

IInv == TypeOK /\ CopyConfirmed /\ PrevConfirmed /\ HasRead /\ OnlyConfirmed

\* The summary of a copy, or of none, is a content.
LEMMA SummaryType ==
    ASSUME NEW c \in Content \cup {None}
    PROVE  Summary(c) \in Content
BY ContentAssumption DEF Summary, Nothing, Content

\* The facts of a summary: none, or those of the copy.
LEMMA SummaryFacts ==
    ASSUME NEW c \in Content \cup {None}, NEW S, c # None => Facts(c) \subseteq S
    PROVE  Facts(Summary(c)) \subseteq S
<1>1. CASE c = None
  <2>1. Facts(Nothing) = {}
    BY ModeAssumption DEF Facts, Nothing
  <2> QED BY <1>1, <2>1 DEF Summary
<1>2. CASE c # None
  BY <1>2 DEF Summary
<1> QED BY <1>1, <1>2

\* The comparison is complete: a fact of the new content is one of the old
\* content or it is shown (diff_capabilities).
LEMMA NewFacts ==
    ASSUME NEW old \in Content, NEW c \in Content
    PROVE  Facts(c) \subseteq Facts(old) \cup Shown(old, c)
<1> SUFFICES ASSUME NEW f \in Facts(c) PROVE f \in Facts(old) \cup Shown(old, c)
  OBVIOUS
<1>1. CASE f \in c.caps
  BY <1>1 DEF Facts, Shown, Additions
<1>2. CASE f \in Sandbox \X Mode /\ c.modes[f[1]] = f[2]
  <2>1. PICK s \in Sandbox, m \in Mode : f = <<s, m>> /\ c.modes[s] = m
    BY <1>2
  <2>2. c.modes[s] # Absent
    BY <2>1, ModeAssumption
  <2>3. CASE old.modes[s] = m
    BY <2>1, <2>3 DEF Facts
  <2>4. CASE old.modes[s] # m
    <3>1. s \in Introduced(old, c) \cup Changed(old, c)
      BY <2>1, <2>2, <2>4 DEF Introduced, Changed
    <3> QED BY <2>1, <3>1 DEF Shown
  <2> QED BY <2>3, <2>4
<1> QED BY <1>1, <1>2 DEF Facts

\* What is shown are facts.
LEMMA ShownType ==
    ASSUME NEW old \in Content, NEW c \in Content
    PROVE  Shown(old, c) \subseteq Fact
<1>1. Additions(old, c) \subseteq Cap
  BY DEF Additions, Content
<1>2. \A s \in Introduced(old, c) \cup Changed(old, c) : <<s, c.modes[s]>> \in Sandbox \X Mode
  <2> SUFFICES ASSUME NEW s \in Introduced(old, c) \cup Changed(old, c)
               PROVE  <<s, c.modes[s]>> \in Sandbox \X Mode
    OBVIOUS
  <2>1. s \in Sandbox /\ c.modes[s] # Absent
    BY DEF Introduced, Changed
  <2>2. c.modes[s] \in Mode
    BY <2>1 DEF Content
  <2> QED BY <2>1, <2>2
<1> QED BY <1>1, <1>2 DEF Shown, Fact

\* Nothing shown: nothing new.
LEMMA NothingShown ==
    ASSUME NEW old \in Content, NEW c \in Content, NoChanges(old, c)
    PROVE  Facts(c) \subseteq Facts(old)
<1>1. Shown(old, c) = {}
  BY DEF NoChanges, Shown
<1> QED BY <1>1, NewFacts

\* The end of a command with c, when c is accounted for, keeps what concerns
\* the processes.
LEMMA EndKeeps ==
    ASSUME IInv, NEW p \in Process, NEW c \in Content \cup {None}, End(p, c),
           kind[p] = "launch" /\ c # None => (c = Pinned \/ Facts(c) \subseteq confirmed'),
           confirmed \subseteq confirmed'
    PROVE  /\ phase' \in [Process -> Phase]
           /\ kind' \in [Process -> Kind]
           /\ context' \in [Process -> Context]
           /\ new' \in [Process -> Content \cup {None}]
           /\ prev' \in [Process -> Content \cup {None}]
           /\ used' \in [Process -> Content \cup {None}]
           /\ PrevConfirmed' /\ HasRead' /\ OnlyConfirmed'
<1>1. /\ phase' \in [Process -> Phase]
      /\ kind' \in [Process -> Kind]
      /\ context' \in [Process -> Context]
      /\ new' \in [Process -> Content \cup {None}]
      /\ prev' \in [Process -> Content \cup {None}]
      /\ used' \in [Process -> Content \cup {None}]
  BY DEF IInv, TypeOK, End, Phase, Kind, Context
<1>2. PrevConfirmed'
  <2> SUFFICES ASSUME NEW q \in Process, prev'[q] # None
               PROVE  Facts(prev'[q]) \subseteq confirmed'
    BY DEF PrevConfirmed, Facts
  <2>1. q # p /\ prev'[q] = prev[q]
    BY DEF End, IInv, TypeOK
  <2> QED BY <2>1 DEF IInv, PrevConfirmed
<1>3. HasRead'
  <2> SUFFICES ASSUME NEW q \in Process, phase'[q] \in {"load", "decide"}
               PROVE  new'[q] \in Content
    BY DEF HasRead
  <2>1. q # p /\ phase'[q] = phase[q] /\ new'[q] = new[q]
    BY DEF End, IInv, TypeOK
  <2> QED BY <2>1 DEF IInv, HasRead
<1>4. OnlyConfirmed'
  <2> SUFFICES ASSUME NEW q \in Process, used'[q] # None
               PROVE  used'[q] = Pinned \/ Facts(used'[q]) \subseteq confirmed'
    BY DEF OnlyConfirmed, Facts
  <2>1. CASE q = p
    <3>1. used'[p] = IF kind[p] = "launch" THEN c ELSE None
      BY DEF End, IInv, TypeOK
    <3> QED BY <2>1, <3>1
  <2>2. CASE q # p
    <3>1. used'[q] = used[q]
      BY <2>2 DEF End, IInv, TypeOK
    <3> QED BY <3>1 DEF IInv, OnlyConfirmed
  <2> QED BY <2>1, <2>2
<1> QED BY <1>1, <1>2, <1>3, <1>4

\* A stored content that is accounted for keeps the invariant.
LEMMA StoreKeeps ==
    ASSUME IInv, NEW p \in Process, phase[p] = "decide", Store(p),
           confirmed \subseteq confirmed', confirmed' \subseteq Fact,
           Facts(new[p]) \subseteq confirmed',
           UNCHANGED <<bundle, edits, runs>>
    PROVE  IInv'
<1>1. new[p] \in Content
  BY DEF IInv, HasRead
<1>2. copy' = new[p] /\ End(p, new[p])
  BY DEF Store
<1>3. TypeOK' /\ PrevConfirmed' /\ HasRead' /\ OnlyConfirmed'
  BY <1>1, <1>2, EndKeeps DEF IInv, TypeOK
<1>4. CopyConfirmed'
  BY <1>2 DEF CopyConfirmed, Facts
<1> QED BY <1>3, <1>4 DEF IInv

\* A command that ends without storing keeps it when what it runs with is
\* accounted for.
LEMMA LeaveKeeps ==
    ASSUME IInv, NEW p \in Process, NEW c \in Content \cup {None}, End(p, c),
           kind[p] = "launch" /\ c # None => (c = Pinned \/ Facts(c) \subseteq confirmed),
           UNCHANGED <<bundle, copy, confirmed, edits, runs>>
    PROVE  IInv'
<1>1. TypeOK' /\ PrevConfirmed' /\ HasRead' /\ OnlyConfirmed'
  BY EndKeeps DEF IInv, TypeOK
<1>2. CopyConfirmed'
  BY DEF IInv, CopyConfirmed, Facts
<1> QED BY <1>1, <1>2 DEF IInv

LEMMA InitInv == Init => IInv
BY ContentAssumption, BoundsAssumption
DEF Init, IInv, TypeOK, CopyConfirmed, PrevConfirmed, HasRead, OnlyConfirmed,
    Phase, Kind, Context, Fact

LEMMA NextInv == IInv /\ [Next]_vars => IInv'
<1> SUFFICES ASSUME IInv, [Next]_vars PROVE IInv'
  OBVIOUS
<1>1. CASE Edit
  <2>1. TypeOK'
    BY <1>1, BoundsAssumption DEF Edit, command, IInv, TypeOK
  <2> QED BY <1>1, <2>1
      DEF Edit, command, IInv, CopyConfirmed, PrevConfirmed, HasRead, OnlyConfirmed, Facts
<1>2. ASSUME NEW p \in Process, Start(p) PROVE IInv'
  <2>1. TypeOK'
    BY <1>2, BoundsAssumption DEF Start, IInv, TypeOK, Phase
  <2>2. CopyConfirmed' /\ PrevConfirmed'
    BY <1>2 DEF Start, IInv, CopyConfirmed, PrevConfirmed, Facts
  <2>3. HasRead'
    BY <1>2 DEF Start, IInv, TypeOK, HasRead
  <2>4. OnlyConfirmed'
    BY <1>2 DEF Start, IInv, TypeOK, OnlyConfirmed, Facts
  <2> QED BY <2>1, <2>2, <2>3, <2>4 DEF IInv
<1>3. ASSUME NEW p \in Process, Read(p) PROVE IInv'
  <2>1. CASE NeedsNoApproval(p) /\ End(p, bundle)
    <3>1. bundle \in Content
      BY DEF IInv, TypeOK
    <3>2. kind[p] = "launch" => bundle = Pinned
      BY <2>1 DEF NeedsNoApproval
    <3> QED BY <1>3, <2>1, <3>1, <3>2, LeaveKeeps DEF Read
  <2>2. CASE ~NeedsNoApproval(p)
    <3>1. /\ new' = [new EXCEPT ![p] = bundle]
          /\ phase' = [phase EXCEPT ![p] = "load"]
          /\ UNCHANGED <<command, prev, used, bundle, copy, confirmed, edits, runs>>
      BY <1>3, <2>2 DEF Read
    <3>2. TypeOK'
      BY <3>1 DEF command, IInv, TypeOK, Phase
    <3>3. HasRead'
      BY <3>1 DEF IInv, TypeOK, HasRead
    <3> QED BY <3>1, <3>2, <3>3
        DEF IInv, CopyConfirmed, PrevConfirmed, OnlyConfirmed, Facts
  <2> QED BY <1>3, <2>1, <2>2 DEF Read
<1>4. ASSUME NEW p \in Process, Load(p) PROVE IInv'
  <2>1. TypeOK'
    BY <1>4 DEF Load, command, IInv, TypeOK, Phase
  <2>2. PrevConfirmed'
    BY <1>4 DEF Load, IInv, TypeOK, CopyConfirmed, PrevConfirmed, Facts
  <2>3. HasRead'
    BY <1>4 DEF Load, IInv, TypeOK, HasRead
  <2> QED BY <1>4, <2>1, <2>2, <2>3
      DEF Load, IInv, CopyConfirmed, OnlyConfirmed, Facts
<1>5. ASSUME NEW p \in Process, phase[p] = "decide"
      PROVE  /\ new[p] \in Content /\ Summary(prev[p]) \in Content
             /\ Facts(Summary(prev[p])) \subseteq confirmed
             /\ Facts(new[p]) \subseteq Facts(Summary(prev[p]))
                                           \cup Shown(Summary(prev[p]), new[p])
  <2>1. new[p] \in Content /\ prev[p] \in Content \cup {None}
    BY <1>5 DEF IInv, TypeOK, HasRead
  <2>2. Summary(prev[p]) \in Content
    BY <2>1, SummaryType
  <2>3. Facts(Summary(prev[p])) \subseteq confirmed
    BY <2>1, SummaryFacts DEF IInv, PrevConfirmed
  <2> QED BY <2>1, <2>2, <2>3, NewFacts
<1>6. ASSUME NEW p \in Process, Repin(p) PROVE IInv'
  <2>1. phase[p] = "decide" /\ NoChanges(Summary(prev[p]), new[p])
    BY <1>6 DEF Repin, Same
  <2>2. Facts(new[p]) \subseteq confirmed
    BY <1>5, <2>1, NothingShown
  <2>3. Store(p) /\ UNCHANGED <<bundle, confirmed, edits, runs>>
    BY <1>6 DEF Repin
  <2> QED BY <2>1, <2>2, <2>3, StoreKeeps DEF IInv, TypeOK
<1>7. ASSUME NEW p \in Process, Confirm(p) PROVE IInv'
  <2>1. /\ phase[p] = "decide" /\ Store(p)
        /\ confirmed' = confirmed \cup Shown(Summary(prev[p]), new[p])
        /\ UNCHANGED <<bundle, edits, runs>>
    BY <1>7 DEF Confirm
  <2>2. Shown(Summary(prev[p]), new[p]) \subseteq Fact
    BY <1>5, <2>1, ShownType
  <2>3. Facts(new[p]) \subseteq confirmed'
    BY <1>5, <2>1
  <2>4. confirmed' \subseteq Fact
    BY <2>1, <2>2 DEF IInv, TypeOK
  <2> QED BY <2>1, <2>3, <2>4, StoreKeeps
<1>8. ASSUME NEW p \in Process, Decline(p) PROVE IInv'
  <2>1. End(p, prev[p]) /\ UNCHANGED <<bundle, copy, confirmed, edits, runs>>
    BY <1>8 DEF Decline, Fallback
  <2>2. prev[p] \in Content \cup {None}
    BY DEF IInv, TypeOK
  <2>3. prev[p] # None => Facts(prev[p]) \subseteq confirmed
    BY DEF IInv, PrevConfirmed
  <2> QED BY <2>1, <2>2, <2>3, LeaveKeeps
<1>9. ASSUME NEW p \in Process, Refuse(p) \/ Fail(p) PROVE IInv'
  <2>1. End(p, None) /\ UNCHANGED <<bundle, copy, confirmed, edits, runs>>
    BY <1>9 DEF Refuse, Fail
  <2> QED BY <2>1, LeaveKeeps
<1>10. CASE UNCHANGED vars
  BY <1>10 DEF vars, command, IInv, TypeOK, CopyConfirmed, PrevConfirmed, HasRead,
               OnlyConfirmed, Facts
<1> QED BY <1>1, <1>2, <1>3, <1>4, <1>6, <1>7, <1>8, <1>9, <1>10 DEF Next

\* Every variable keeps its type, and a launch runs with the pinned content or
\* with facts that an operator said yes to (resolve_pin_mismatch_with).
THEOREM LaunchesAreConfirmed == Spec => [](TypeOK /\ OnlyConfirmed)
<1>1. IInv => TypeOK /\ OnlyConfirmed
  BY DEF IInv
<1> QED BY InitInv, NextInv, <1>1, PTL DEF Spec

\* The approved copy, from which declined launches run and later ones are
\* compared, allows nothing that was not confirmed (store_approval).
THEOREM CopyIsConfirmed == Spec => []CopyConfirmed
<1>1. IInv => CopyConfirmed
  BY DEF IInv
<1> QED BY InitInv, NextInv, <1>1, PTL DEF Spec

\* Where nobody can answer the copy does not grow (diff_capabilities).
THEOREM UnattendedNarrows == Spec => QuietRepinNarrows
<1>1. ASSUME IInv, [Next]_vars,
             NEW p \in Process, phase[p] = "decide", phase'[p] = "off",
             ~Asks(p), ~YesAlready(p), prev[p] = copy
      PROVE  Facts(Summary(copy')) \subseteq Facts(Summary(copy))
  <2>1. CASE copy' = copy
    BY <2>1 DEF Facts, Summary
  <2>2. ASSUME NEW q \in Process, Repin(q)
        PROVE  Facts(Summary(copy')) \subseteq Facts(Summary(copy))
    <3>1. q = p
      BY <1>1, <2>2 DEF Repin, Store, End, IInv, TypeOK
    <3>2. /\ phase[p] = "decide" /\ NoChanges(Summary(copy), new[p])
          /\ copy' = new[p]
      BY <1>1, <2>2, <3>1 DEF Repin, Same, Store
    <3>3. new[p] \in Content /\ Summary(copy) \in Content
      BY <1>1, SummaryType DEF IInv, TypeOK, HasRead
    <3>4. Facts(new[p]) \subseteq Facts(Summary(copy))
      BY <3>2, <3>3, NothingShown
    <3>5. Summary(copy') = new[p]
      BY <3>2, <3>3, ContentAssumption DEF Summary
    <3> QED BY <3>4, <3>5 DEF Facts
  <2>3. ASSUME NEW q \in Process, Confirm(q) PROVE FALSE
    <3>1. q = p
      BY <1>1, <2>3 DEF Confirm, Store, End, IInv, TypeOK
    <3> QED BY <1>1, <2>3, <3>1 DEF Confirm
  <2>4. ASSUME NEW q \in Process,
               Start(q) \/ Read(q) \/ Load(q) \/ Decline(q) \/ Refuse(q) \/ Fail(q)
        PROVE  copy' = copy
    BY <2>4 DEF Start, Read, Load, Decline, Refuse, Fail
  <2>5. Edit \/ UNCHANGED vars => copy' = copy
    BY DEF Edit, vars
  <2> QED BY <1>1, <2>1, <2>2, <2>3, <2>4, <2>5 DEF Next
<1>2. IInv /\ [Next]_vars =>
        [\A p \in Process :
            (/\ phase[p] = "decide" /\ phase'[p] = "off"
             /\ ~Asks(p) /\ ~YesAlready(p)
             /\ prev[p] = copy)
            => Facts(Summary(copy')) \subseteq Facts(Summary(copy))]_vars
  BY <1>1
<1> QED BY <1>2, InitInv, NextInv, PTL DEF Spec, QuietRepinNarrows
=============================================================================
