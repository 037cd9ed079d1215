---------------------------- MODULE WorkflowChecks ---------------------------
(* scripts/check-platform-legs.mjs, check-playwright-image.mjs,              *)
(* check-job-timeouts.mjs and scorecard-threshold.mjs: what the repository   *)
(* checks of its own workflows, so that a rule that a document states in one *)
(* file holds in the run that GitHub makes of several.                       *)
(*                                                                           *)
(* GitHub is external: a skipped job counts as a success, a required context *)
(* that nobody reports blocks, a job without a timeout has 360 minutes, and  *)
(* the env of a job hides that of its container.  So is api.scorecard.dev.   *)
(* Documents are what the scripts look at in them; a file that cannot be     *)
(* read or parsed is not `readable`.                                         *)
EXTENDS Integers, FiniteSets, Sequences

CONSTANTS
    Families,       \* REQUIRED_LEGS: names of legs, each of one family of runners
    Cases,          \* documents: [{"legs", "timeouts", "playwright"} -> sets of cases]
    E2e,            \* the turbo task "test:e2e"
    MinMinutes, MaxMinutes, DefaultMinutes,
    JobLimit, StepLimit,
    Commit,         \* that the analysis job scored
    Commits, Scores, Threshold,
    Attempts,
    MaxPublished    \* bound: results that the API comes to hold

VARIABLES
    check,          \* "legs", "timeouts", "playwright" or "scorecard"
    docs,           \* the case
    file,           \* workflows read so far
    tasks,          \* turboTasks, with E2e once a container was seen
    findings,       \* something is wrong
    exit,           \* "none", "pass" or "fail"
    result,         \* what the API holds: [commit, score]
    published,
    attempt,
    judged          \* the result that was judged last

scanVars == <<file, tasks, findings>>
scoreVars == <<result, published, attempt, judged>>
vars == <<check, docs, exit, scanVars, scoreVars>>

Unscored == [commit |-> "", score |-> -1]

Init ==
    /\ check \in {"legs", "timeouts", "playwright", "scorecard"}
    /\ docs \in (IF check = "scorecard" THEN {<<>>} ELSE Cases[check])
    /\ file = 0 /\ tasks = {} /\ findings = FALSE
    /\ exit = "none"
    /\ result \in (IF check = "scorecard" THEN [commit : Commits, score : Scores] ELSE {Unscored})
    /\ published = 0
    /\ attempt = 0 /\ judged = Unscored

Report(found) == exit' = IF found THEN "fail" ELSE "pass"

-------------------------------------------------------------------------------
(* check-platform-legs: the job of portability.yml and the ruleset of main.  *)
DraftStepProblem(step) == step.condition # "draft" \/ ~step.failsClosed

StepProblem(steps, i) ==
    \/ steps[i].continues
    \/ IF i = 1 /\ steps[i].draft THEN DraftStepProblem(steps[i]) ELSE steps[i].condition # "none"

JobProblem(job) ==
    \/ ~job.named \/ ~job.onRunner
    \/ job.conditional
    \/ job.continues
    \/ job.steps = <<>> \/ \E i \in DOMAIN job.steps : StepProblem(job.steps, i)

ByNameOnly(job, i) ==                       \* mistake: any runner will do
    \/ \E j \in 1..i - 1 : job.include[j].name = job.include[i].name
    \/ job.include[i].name \notin Families

\* A leg names its family; another runner under the name is refused.
LegProblem(job, i) ==
    \/ \E j \in 1..i - 1 : job.include[j].name = job.include[i].name
    \/ job.include[i].name \notin Families
    \/ job.include[i].runner # job.include[i].name

LegNames(job) == {job.include[i].name : i \in DOMAIN job.include}

MatrixProblem(job) ==
    \/ job.excludes \/ job.otherKeys
    \/ \E i \in DOMAIN job.include : LegProblem(job, i)
    \/ ~(Families \subseteq LegNames(job))

(* The ruleset must be active on branches and include main; an exclude that  *)
(* removes an included ref, and a ref the workflow does not run for, are     *)
(* problems.  `exclude` holds the refs that the entries remove, of which the *)
(* code understands a ref, ~ALL and a trailing star.                         *)
EnvelopeProblem(rules) ==
    \/ ~rules.active \/ ~rules.branch
    \/ "main" \notin rules.include
    \/ rules.include \cap rules.exclude # {}

TriggerProblem(case) ==
    \E ref \in case.rules.include : ref \notin case.onPull \/ ref \notin case.onPush

ContextProblem(case) ==
    LET legs == LegNames(case.job) IN
    ~(legs \subseteq case.rules.contexts) \/ ~(case.rules.contexts \subseteq legs)

CheckPlatformLegs ==
    /\ check = "legs" /\ exit = "none"
    /\ Report(\/ ~docs.readable \/ JobProblem(docs.job) \/ MatrixProblem(docs.job)
              \/ EnvelopeProblem(docs.rules) \/ TriggerProblem(docs) \/ ContextProblem(docs))
    /\ UNCHANGED <<check, docs, scanVars, scoreVars>>

-------------------------------------------------------------------------------
(* scanWorkflows() of both scripts: withTimeout() rejects, the directory     *)
(* holds too much, or a file throws that the script does not report itself.  *)
ScanFails ==
    /\ check \in {"timeouts", "playwright"} /\ exit = "none" /\ file = 0
    /\ Report(TRUE)
    /\ UNCHANGED <<check, docs, scanVars, scoreVars>>

(* jobTimeoutMessage().                                                      *)
TimeoutProblem(job) ==
    IF job.uses THEN job.timeout.form # "none"
    ELSE job.timeout.form # "integer" \/ job.timeout.minutes \notin MinMinutes..MaxMinutes

ReadForTimeouts ==
    /\ check = "timeouts" /\ exit = "none" /\ file < Len(docs)
    /\ LET workflow == docs[file + 1] IN
       IF ~workflow.readable \/ Len(workflow.jobs) > JobLimit
       THEN Report(TRUE) /\ UNCHANGED findings
       ELSE /\ findings' = (findings \/ ~workflow.mapping
                              \/ \E i \in DOMAIN workflow.jobs : TimeoutProblem(workflow.jobs[i]))
            /\ UNCHANGED exit
    /\ file' = file + 1
    /\ UNCHANGED <<check, docs, tasks, scoreVars>>

ReportTimeouts ==
    /\ check = "timeouts" /\ exit = "none" /\ file = Len(docs)
    /\ Report(docs = <<>> \/ findings)
    /\ UNCHANGED <<check, docs, scanVars, scoreVars>>

-------------------------------------------------------------------------------
(* check-playwright-image.  The lockfile has one version, or is a finding,   *)
(* and then no tag is compared.                                              *)
LockVersion(lock) == IF Cardinality(lock) = 1 THEN CHOOSE v \in lock : TRUE ELSE 0

ImageProblem(job, version) ==
    \/ version # 0 /\ job.version # version
    \/ ~job.digest

BrowsersPathProblem(job) == "right" \notin {job.env, job.containerEnv}

ContainerProblem(job, version) ==
    \/ ImageProblem(job, version)
    \/ ~job.user
    \/ BrowsersPathProblem(job)
    \/ job.installs

Containers(workflow) == {workflow.jobs[i] : i \in {j \in DOMAIN workflow.jobs : workflow.jobs[j].playwright}}

ParseWorkflowJobs(workflow) ==
    CASE ~workflow.parses -> "throws"
      [] workflow.parses /\ ~workflow.mapping -> "finding"
      [] OTHER -> IF Len(workflow.jobs) > JobLimit THEN "throws" ELSE "entries"

ReadForPlaywright ==
    /\ check = "playwright" /\ exit = "none" /\ file < Len(docs.workflows)
    /\ LET workflow == docs.workflows[file + 1]
           parsed == IF workflow.readable THEN ParseWorkflowJobs(workflow) ELSE "finding"
           containers == IF parsed = "entries" THEN Containers(workflow) ELSE {}
       IN IF parsed = "throws" \/ \E job \in containers : job.steps > StepLimit
          THEN Report(TRUE) /\ UNCHANGED <<tasks, findings>>
          ELSE /\ findings' = (\/ findings \/ parsed = "finding"
                               \/ \E job \in containers :
                                     ContainerProblem(job, LockVersion(docs.lock)))
               /\ tasks' = IF containers = {} THEN tasks
                           ELSE tasks \cup {E2e} \cup UNION {job.tasks : job \in containers}
               /\ UNCHANGED exit
    /\ file' = file + 1
    /\ UNCHANGED <<check, docs, scoreVars>>

(* verifyTurboForContainers(), when there was a container; reportFindings(). *)
TurboProblem(turbo) ==
    ~turbo.readable \/ (~turbo.passesAll /\ ~(tasks \subseteq turbo.passes))

ReportPlaywright ==
    /\ check = "playwright" /\ exit = "none" /\ file = Len(docs.workflows)
    /\ Report(\/ docs.workflows = <<>> \/ findings \/ LockVersion(docs.lock) = 0
              \/ tasks # {} /\ TurboProblem(docs.turbo))
    /\ UNCHANGED <<check, docs, scanVars, scoreVars>>

-------------------------------------------------------------------------------
(* scorecard-threshold: the API comes to hold the result of the commit, or   *)
(* of another one; runThreshold() asks again while it is of another.         *)
Publish ==
    /\ check = "scorecard" /\ published < MaxPublished
    /\ published' = published + 1
    /\ result' \in [commit : Commits, score : Scores]
    /\ UNCHANGED <<check, docs, exit, scanVars, attempt, judged>>

Verdict(r) ==
    CASE r.commit = "" -> "fail"
      [] r.commit # Commit -> "stale"
      [] r.score < Threshold -> "fail"
      [] OTHER -> "pass"

Judge ==
    /\ check = "scorecard" /\ exit = "none" /\ attempt < Attempts
    /\ attempt' = attempt + 1
    /\ judged' = result
    /\ IF Verdict(result) = "stale" /\ attempt' < Attempts THEN UNCHANGED exit
       ELSE Report(Verdict(result) # "pass")
    /\ UNCHANGED <<check, docs, scanVars, result, published>>

\* The fetch times out, or its status is not ok.
FetchFails ==
    /\ check = "scorecard" /\ exit = "none"
    /\ Report(TRUE)
    /\ UNCHANGED <<check, docs, scanVars, scoreVars>>

Next ==
    \/ CheckPlatformLegs
    \/ ScanFails \/ ReadForTimeouts \/ ReportTimeouts
    \/ ReadForPlaywright \/ ReportPlaywright
    \/ Publish \/ Judge \/ FetchFails

Spec == Init /\ [][Next]_vars

-------------------------------------------------------------------------------
(* What GitHub makes of the documents.  A step fails if it is broken or      *)
(* written to fail, and its condition holds; a step that continues cannot    *)
(* fail the job, and a job that is skipped or continues succeeds.            *)
Holds(step, draft) == step.condition = "none" \/ (step.condition = "draft" /\ draft)
Fails(step, breaks, draft) == Holds(step, draft) /\ (breaks \/ step.failsClosed)
Succeeds(job, broken, draft) ==
    \/ job.conditional
    \/ job.continues
    \/ \A i \in DOMAIN job.steps :
          Fails(job.steps[i], i \in broken, draft) => job.steps[i].continues

\* Every step but the one that stops drafts ran and passed.
Passed(job, broken, draft) ==
    \A i \in DOMAIN job.steps :
       IF i = 1 /\ job.steps[i].draft THEN ~draft
       ELSE Holds(job.steps[i], draft) /\ i \notin broken

\* A pull request into `ref` waits for the leg of this family, on its runner.
Waits(case, ref, family) ==
    /\ case.rules.active /\ case.rules.branch
    /\ ref \in case.rules.include \ case.rules.exclude
    /\ family \in case.rules.contexts
    /\ case.job.named /\ case.job.onRunner
    /\ \A i \in DOMAIN case.job.include :
          case.job.include[i].name = family => case.job.include[i].runner = family

EndsAfter(job) == IF job.timeout.form = "integer" THEN job.timeout.minutes ELSE DefaultMinutes
Effective(job) == IF job.env = "unset" THEN job.containerEnv ELSE job.env

(* A check that passes means what its documents promise.  Into main nothing  *)
(* is merged unless every step passed on Linux, on macOS and on Windows, and *)
(* no leg is required that never reports.  No job of this repository holds a *)
(* runner for longer than the bound.  The tests in a Playwright container    *)
(* find its browsers, whose version is that of the lockfile: the path is     *)
(* set, and turbo hands it on, unless job and container disagree about it.   *)
(* The score that passes is that of this commit, and one that fails is below *)
(* the threshold, if it is of this commit.                                   *)
PassMeansEnforced ==
    /\ check = "legs" /\ exit = "pass" =>
          /\ \A family \in Families : Waits(docs, "main", family)
          /\ docs.rules.contexts \subseteq LegNames(docs.job)
          /\ \A broken \in SUBSET DOMAIN docs.job.steps, draft \in BOOLEAN :
                Succeeds(docs.job, broken, draft) => Passed(docs.job, broken, draft)
    /\ check = "timeouts" /\ exit = "pass" =>
          \A i \in DOMAIN docs : \A j \in DOMAIN docs[i].jobs :
             ~docs[i].jobs[j].uses => EndsAfter(docs[i].jobs[j]) <= MaxMinutes
    /\ check = "playwright" /\ exit = "pass" =>
          \A i \in DOMAIN docs.workflows : \A job \in Containers(docs.workflows[i]) :
             /\ docs.lock = {job.version}
             /\ "unset" \in {job.env, job.containerEnv} => Effective(job) = "right"
             /\ docs.turbo.passesAll \/ job.tasks \cup {E2e} \subseteq docs.turbo.passes
    /\ check = "scorecard" =>
          /\ exit = "pass" => judged.commit = Commit /\ judged.score >= Threshold
          /\ exit = "fail" /\ judged.commit = Commit => judged.score < Threshold
==============================================================================
