----------------------------- MODULE CiPipeline ------------------------------
(***************************************************************************)
(* One run of the CI workflow: Detect Changes selects packages from the    *)
(* changed files (scripts/ci-affected.mjs), the jobs check what it has     *)
(* selected or are skipped (.github/workflows/ci.yml), and the CI Gate     *)
(* (scripts/ci-gate.mjs) makes one verdict of their results.               *)
(*                                                                         *)
(* A file is where it lies: whether it is documentation, a shared surface, *)
(* in which package, and which packages declare that they read it.         *)
(***************************************************************************)
EXTENDS Naturals, FiniteSets

CONSTANTS
    Packages,
    Dependencies,   \* pairs <<p, q>>: p depends on q
    Stories,        \* the packages with stories
    Files,          \* [docs, shared : BOOLEAN, package : Packages or Outside, readers]
    MaxChanged,     \* bound on the changed files
    ChangeScoped,   \* CHANGE_SCOPED: the jobs that read the filter
    EventScoped,    \* EVENT_SCOPED: the jobs of a pull request only
    MustSucceed,    \* MUST_SUCCEED, without the detector
    Outside         \* no package

VARIABLES
    event,          \* github.event_name
    changed,        \* what git diff lists
    broken,         \* packages with a defect that a job would find
    detector,       \* result of Detect Changes
    outputs,        \* its outputs, or those of a job that wrote none
    results,        \* result of every other job, "waiting" until it ends
    checked,        \* history: the packages each change-scoped job went through
    gate            \* exit code of the gate's script: "waiting", "green", "red"

vars == <<event, changed, broken, detector, outputs, results, checked, gate>>

Jobs == ChangeScoped \cup EventScoped \cup MustSucceed

------------------------------------------------------------------------------
(* Detect Changes.                                                         *)

\* turbo's p: the package alone, and ...p...: with what it depends on and
\* what depends on it, however indirectly: all that no set holding it which is
\* closed under dependents, or under dependencies, can leave out.
Upward(ps) ==
    {p \in Packages : \A held \in SUBSET Packages :
        ps \subseteq held /\ (\A d \in Dependencies : d[2] \in held => d[1] \in held) => p \in held}
Downward(ps) ==
    {p \in Packages : \A held \in SUBSET Packages :
        ps \subseteq held /\ (\A d \in Dependencies : d[1] \in held => d[2] \in held) => p \in held}

\* findReaderPackages and findAffectedPackages.
Readers == UNION {f.readers : f \in changed}
Owners == {f.package : f \in changed} \ {Outside}

Nothing == [code |-> "false", all |-> FALSE, selected |-> {}, stories |-> FALSE]
Everything == [code |-> "true", all |-> TRUE, selected |-> Packages, stories |-> TRUE]

\* selectPackages, and hasStories of runCiAffected.
Narrow(own) == own                                       \* mistake: a change stays inside
Around(own) == Upward(own) \cup Downward(own)

SelectPackages(own, readers) ==
    IF own \cup readers = {} THEN Nothing
    ELSE [code |-> "true", all |-> FALSE,
          selected |-> Around(own) \cup readers,
          stories |-> (own \cup readers) \cap Stories # {}]

\* analyzeChanges: documentation first, then the shared surfaces.
AnalyzeChanges ==
    IF \A f \in changed : f.docs THEN SelectPackages({}, Readers)
    ELSE IF \E f \in changed : f.shared THEN Everything
    ELSE SelectPackages(Owners, Readers)

\* runCiAffected: any event but a pull request runs everything.
Outputs == IF event = "pull_request" THEN AnalyzeChanges ELSE Everything

Unwritten == [code |-> "", all |-> FALSE, selected |-> {}, stories |-> FALSE]

------------------------------------------------------------------------------
Init ==
    /\ event \in {"push", "pull_request"}
    /\ changed \in {c \in SUBSET Files : Cardinality(c) \in 1..MaxChanged}
    /\ broken \in SUBSET Packages
    /\ detector = "waiting" /\ outputs = Unwritten
    /\ results = [j \in Jobs |-> "waiting"]
    /\ checked = [j \in ChangeScoped |-> {}]
    /\ gate = "waiting"

\* getGitDiffFiles throws for a bad ref, and any job may be cancelled.
Detect ==
    /\ detector = "waiting"
    /\ \/ detector' = "success" /\ outputs' = Outputs
       \/ detector' \in {"failure", "cancelled"} /\ outputs' = Unwritten
    /\ UNCHANGED <<event, changed, broken, results, checked, gate>>

Ends(j, result) ==
    /\ results[j] = "waiting"
    /\ results' = [results EXCEPT ![j] = result]
    /\ UNCHANGED <<event, changed, broken, detector, outputs, gate>>

\* The `if:' of a change-scoped job; with an expression of its own it is
\* evaluated once Detect Changes has ended, and that one must have succeeded.
Wanted == outputs.code = "true" \/ event = "push"

\* turbo run with the filter; the stories are all run or none.
Scope(j) ==
    IF j # "stories" THEN outputs.selected
    ELSE IF outputs.all \/ outputs.stories THEN Packages ELSE {}

RunChangeScoped(j) ==
    /\ detector = "success" /\ Wanted
    /\ Ends(j, IF Scope(j) \cap broken = {} THEN "success" ELSE "failure")
    /\ checked' = [checked EXCEPT ![j] = Scope(j)]

SkipChangeScoped(j) ==
    /\ detector # "waiting" /\ ~ (detector = "success" /\ Wanted)
    /\ Ends(j, "skipped")
    /\ UNCHANGED checked

Run(j) ==
    /\ j \in EventScoped => event = "pull_request"
    /\ \E result \in {"success", "failure"} : Ends(j, result)
    /\ UNCHANGED checked

SkipEvent(j) ==
    /\ j \in EventScoped /\ event # "pull_request"
    /\ Ends(j, "skipped")
    /\ UNCHANGED checked

Cancel(j) == Ends(j, "cancelled") /\ UNCHANGED checked

------------------------------------------------------------------------------
(* The gate.                                                               *)

\* changeScopedSkipReason: only a detector that says so.
SkipsWithReason == event # "push" /\ detector = "success" /\ outputs.code = "false"

\* evaluateGate.
Accepted(j) ==
    \/ results[j] = "success"
    \/ results[j] = "skipped" /\ \/ j \in ChangeScoped /\ SkipsWithReason
                                 \/ j \in EventScoped /\ event # "pull_request"

Gate ==
    /\ gate = "waiting" /\ detector # "waiting"
    /\ \A j \in Jobs : results[j] # "waiting"
    /\ gate' = IF detector = "success" /\ \A j \in Jobs : Accepted(j) THEN "green" ELSE "red"
    /\ UNCHANGED <<event, changed, broken, detector, outputs, results, checked>>

Next ==
    \/ Detect \/ Gate
    \/ \E j \in ChangeScoped : RunChangeScoped(j) \/ SkipChangeScoped(j)
    \/ \E j \in EventScoped : SkipEvent(j)
    \/ \E j \in EventScoped \cup MustSucceed : Run(j)
    \/ \E j \in Jobs : Cancel(j)

Spec == Init /\ [][Next]_vars

------------------------------------------------------------------------------
\* What holds a change or depends on what does: `within[n]' over n steps.
Reached ==
    LET within[n \in 0..Cardinality(Packages)] ==
            IF n = 0 THEN Owners
            ELSE within[n - 1] \cup {d[1] : d \in {d \in Dependencies : d[2] \in within[n - 1]}}
    IN  within[Cardinality(Packages)]

\* A green gate means that every package a change reaches was checked and is
\* not broken: on a push all of them; on a pull request those that hold a
\* changed file, depend on one that does or declare that they read it, unless
\* everything changed is documentation (ci-gate.mjs:4, ci-affected.mjs:171).
\* Files of no package that are no shared surface reach nobody.
GateMeansChecked ==
    gate = "green" =>
      \A p \in Packages, j \in ChangeScoped \ {"stories"} :
        (\/ event = "push"
         \/ \E f \in changed : p \in f.readers
         \/ /\ \E f \in changed : ~ f.docs
            /\ (\E f \in changed : f.shared) \/ p \in Reached)
        => p \in checked[j] /\ p \notin broken
==============================================================================
