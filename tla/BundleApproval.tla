--------------------------- MODULE BundleApproval ---------------------------
(***************************************************************************)
(* Approval of an included configuration bundle (config.rs,                *)
(* config_approval.rs).  The central configuration pins a bundle by its    *)
(* hash.  When the file no longer matches its pin, a launch compares what  *)
(* the new content may do with the copy that was approved last: what adds  *)
(* nothing replaces the copy silently, what adds something is shown to the *)
(* operator when there is a terminal outside any sandbox, and refused      *)
(* otherwise.  `varda config approve` does the same outside a launch.      *)
(*                                                                         *)
(* The bundle and the copy are files that every process shares: others     *)
(* edit the bundle at any time, and two processes may decide on the same   *)
(* copy.                                                                   *)
(***************************************************************************)
EXTENDS Integers, FiniteSets

CONSTANTS
    Process,    \* varda processes on this host
    Cap,        \* capabilities that are only ever added or removed
    Sandbox,    \* names a bundle may give to a sandbox
    Mode,       \* egress modes
    Absent,     \* the mode of a sandbox that the bundle does not define
    None,       \* no copy approved yet, or nothing used
    Pinned,     \* the content whose hash the central configuration holds
    MaxEdits,   \* bound: edits of the bundle file
    MaxRuns     \* bound: commands started

Content == [caps : SUBSET Cap, modes : [Sandbox -> Mode \cup {Absent}]]

ASSUME ContentAssumption == Pinned \in Content /\ None \notin Content
ASSUME ModeAssumption == Absent \notin Mode
ASSUME BoundsAssumption == MaxEdits \in Nat /\ MaxRuns \in Nat

\* A launch, the two forms of `varda config approve`, a diagnostic command.
Kind == {"launch", "approve", "approve_yes", "diagnose"}
Context == {"sandboxed", "headless", "terminal"}
Phase == {"off", "read", "load", "decide"}

VARIABLES
    bundle,     \* the bundle file
    copy,       \* the approved copy of it, or None
    phase,      \* where each process is
    kind,       \* the command that it runs
    context,    \* where it runs
    new,        \* the content that it read
    prev,       \* the approved copy that it loaded
    used,       \* the content that its latest verified launch runs with
    confirmed,  \* ghost: what operators were shown and said yes to
    edits,      \* edits so far
    runs        \* commands so far

vars == <<bundle, copy, phase, kind, context, new, prev, used, confirmed, edits, runs>>
command == <<kind, context>>

Fact == Cap \cup (Sandbox \X Mode)

\* Everything that a content may do, as the summary of it states it.
Facts(c) ==
    c.caps \cup {f \in Sandbox \X Mode : c.modes[f[1]] = f[2]}

Nothing == [caps |-> {}, modes |-> [s \in Sandbox |-> Absent]]

\* The first use of a bundle is compared with the empty summary.
Summary(c) == IF c = None THEN Nothing ELSE c

-----------------------------------------------------------------------------
(* The comparison of two summaries.                                        *)

Additions(old, c) == c.caps \ old.caps

\* A sandbox that only the new content defines; its mode goes with it.
Introduced(old, c) ==
    {s \in Sandbox : c.modes[s] # Absent /\ old.modes[s] = Absent}

(* Mutated form: only what is new is reported, never what changed.         *)
ChangedNever(old, c) == {}

\* Modes are compared both ways, for the sandboxes that both contents define.
Changed(old, c) ==
    {s \in Sandbox : /\ c.modes[s] # Absent
                     /\ old.modes[s] # Absent
                     /\ c.modes[s] # old.modes[s]}

NoChanges(old, c) ==
    Additions(old, c) = {} /\ Introduced(old, c) \cup Changed(old, c) = {}

\* What the operator is shown, as facts.
Shown(old, c) ==
    Additions(old, c)
      \cup {<<s, c.modes[s]>> : s \in Introduced(old, c) \cup Changed(old, c)}

-----------------------------------------------------------------------------
Init ==
    /\ bundle = Pinned /\ copy = None
    /\ phase = [p \in Process |-> "off"]
    /\ kind = [p \in Process |-> "launch"]
    /\ context = [p \in Process |-> "headless"]
    /\ new = [p \in Process |-> None]
    /\ prev = [p \in Process |-> None]
    /\ used = [p \in Process |-> None]
    /\ confirmed = {} /\ edits = 0 /\ runs = 0

\* Whoever shares the bundle writes its file.
Edit ==
    /\ edits < MaxEdits
    /\ edits' = edits + 1
    /\ bundle' \in Content \ {bundle}
    /\ UNCHANGED <<copy, phase, command, new, prev, used, confirmed, runs>>

Start(p) ==
    /\ phase[p] = "off" /\ runs < MaxRuns
    /\ runs' = runs + 1
    /\ phase' = [phase EXCEPT ![p] = "read"]
    /\ \E k \in Kind : kind' = [kind EXCEPT ![p] = k]
    /\ \E x \in Context : context' = [context EXCEPT ![p] = x]
    /\ used' = [used EXCEPT ![p] = None]
    /\ UNCHANGED <<bundle, copy, new, prev, confirmed, edits>>

\* The command ends: a launch runs with c, the others run nothing.  What the
\* process had in memory is gone.
End(p, c) ==
    /\ phase' = [phase EXCEPT ![p] = "off"]
    /\ used' = [used EXCEPT ![p] = IF kind[p] = "launch" THEN c ELSE None]
    /\ kind' = [kind EXCEPT ![p] = "launch"]
    /\ context' = [context EXCEPT ![p] = "headless"]
    /\ new' = [new EXCEPT ![p] = None]
    /\ prev' = [prev EXCEPT ![p] = None]

\* A launch whose bundle matches the pin needs nothing more.  A diagnostic
\* command goes on with what it read and marks its output as unverified.
NeedsNoApproval(p) ==
    kind[p] = "diagnose" \/ (kind[p] = "launch" /\ bundle = Pinned)

Read(p) ==
    /\ phase[p] = "read"
    /\ \/ NeedsNoApproval(p) /\ End(p, bundle)
       \/ /\ ~NeedsNoApproval(p)
          /\ new' = [new EXCEPT ![p] = bundle]
          /\ phase' = [phase EXCEPT ![p] = "load"]
          /\ UNCHANGED <<command, prev, used>>
    /\ UNCHANGED <<bundle, copy, confirmed, edits, runs>>

Load(p) ==
    /\ phase[p] = "load"
    /\ prev' = [prev EXCEPT ![p] = copy]
    /\ phase' = [phase EXCEPT ![p] = "decide"]
    /\ UNCHANGED <<bundle, copy, command, new, used, confirmed, edits, runs>>

\* What p compares.
Same(p) == NoChanges(Summary(prev[p]), new[p])

(* Mutated form: the approved copy is written from the file as it is now.  *)
StoreReread(p) == copy' = bundle /\ End(p, bundle)

\* The content that was read, and no other, becomes the copy and is used.
Store(p) == copy' = new[p] /\ End(p, new[p])

\* Nothing was added: the new content replaces the copy without a question.
Repin(p) ==
    /\ phase[p] = "decide" /\ Same(p)
    /\ Store(p)
    /\ UNCHANGED <<bundle, confirmed, edits, runs>>

(* Mutated form: outside a sandbox there is always somebody to ask.        *)
AsksAnyone(p) == context[p] # "sandboxed"

\* Somebody is there to read the question.
Asks(p) == context[p] = "terminal"

\* `--yes` stands for the answer where no question can be asked.
YesAlready(p) == kind[p] = "approve_yes" /\ context[p] = "headless"

\* The operator is shown the differences and says yes, or said so before.
Confirm(p) ==
    /\ phase[p] = "decide" /\ ~Same(p)
    /\ Asks(p) \/ YesAlready(p)
    /\ confirmed' = confirmed \cup Shown(Summary(prev[p]), new[p])
    /\ Store(p)
    /\ UNCHANGED <<bundle, edits, runs>>

(* Mutated form: a launch goes on with what was declined when there is     *)
(* nothing to fall back to.                                                *)
FallbackNew(p) == IF prev[p] = None THEN new[p] ELSE prev[p]

\* What a declined launch runs with: the copy that it loaded, or nothing.
Fallback(p) == prev[p]

Decline(p) ==
    /\ phase[p] = "decide" /\ ~Same(p)
    /\ Asks(p)
    /\ End(p, Fallback(p))
    /\ UNCHANGED <<bundle, copy, confirmed, edits, runs>>

\* Nobody to ask, or a worker that would approve its own escalation.
Refuse(p) ==
    /\ phase[p] = "decide" /\ ~Same(p)
    /\ ~Asks(p) /\ ~YesAlready(p)
    /\ End(p, None)
    /\ UNCHANGED <<bundle, copy, confirmed, edits, runs>>

\* A file that cannot be read, written or parsed, or an interrupt.
Fail(p) ==
    /\ phase[p] # "off"
    /\ End(p, None)
    /\ UNCHANGED <<bundle, copy, confirmed, edits, runs>>

\* What a process does without anybody's help.
Step(p) == Read(p) \/ Load(p) \/ Repin(p) \/ Refuse(p) \/ (YesAlready(p) /\ Confirm(p))

Next ==
    \/ Edit
    \/ \E p \in Process :
          \/ Start(p) \/ Read(p) \/ Load(p) \/ Repin(p)
          \/ Confirm(p) \/ Decline(p) \/ Refuse(p) \/ Fail(p)

Fairness == \A p \in Process : WF_vars(Step(p))

Spec == Init /\ [][Next]_vars /\ Fairness

-----------------------------------------------------------------------------
(* Properties.                                                             *)

\* Every variable keeps its type.
TypeOK ==
    /\ bundle \in Content
    /\ copy \in Content \cup {None}
    /\ phase \in [Process -> Phase]
    /\ kind \in [Process -> Kind]
    /\ context \in [Process -> Context]
    /\ new \in [Process -> Content \cup {None}]
    /\ prev \in [Process -> Content \cup {None}]
    /\ used \in [Process -> Content \cup {None}]
    /\ confirmed \in SUBSET Fact
    /\ edits \in 0..MaxEdits /\ runs \in 0..MaxRuns

\* Whatever a launch runs with, an operator was shown and said yes to, or
\* pinned: through edits between the question and the answer, copies replaced
\* by other processes, silent replacements and declined questions, it may do
\* nothing else (config.rs resolve_pin_mismatch_with, config_approval.rs
\* diff_capabilities).
OnlyConfirmed ==
    \A p \in Process : used[p] # None =>
        \/ used[p] = Pinned
        \/ Facts(used[p]) \subseteq confirmed

\* Where nobody can answer the copy never grows: a process without a terminal
\* and without `--yes` whose copy no other process replaced since it loaded it
\* leaves one that may do nothing more, in no mode that is different
\* (config_approval.rs:228-234, 318-332).
QuietRepinNarrows ==
    [][\A p \in Process :
          (/\ phase[p] = "decide" /\ phase'[p] = "off"
           /\ ~Asks(p) /\ ~YesAlready(p)
           /\ prev[p] = copy)
          => Facts(Summary(copy')) \subseteq Facts(Summary(copy))]_vars

\* No command waits where nobody can answer: in a sandbox or without a
\* terminal it ends (config.rs:2872-2882).
UnattendedEnds ==
    \A p \in Process : (phase[p] # "off" /\ context[p] # "terminal") ~> (phase[p] = "off")
=============================================================================
