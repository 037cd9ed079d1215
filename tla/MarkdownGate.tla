---------------------------- MODULE MarkdownGate ----------------------------
(***************************************************************************)
(* The documentation gate (tools/markdownlint/verify.mjs): it installs its *)
(* locked linter, reads the repository's settings and its Markdown files,  *)
(* runs the private-link rule over all of them and the linter, batch by    *)
(* batch, over those the style rules select, and turns what its children   *)
(* answered into one exit status, all before one deadline.                 *)
(*                                                                         *)
(* Only child processes take time.  A file is its place in the sorted      *)
(* inventory with what the gate asks of it; a glob is a name, and which    *)
(* files it matches is a fact about the file (module StyleGlobs matches).  *)
(***************************************************************************)
EXTENDS Integers, Sequences, FiniteSets, FiniteSetsExt

CONSTANTS
    Repositories,     \* what the gate may be run on: see Init
    Durations,        \* how long a child may run; none ends within one unit
    Deadline,         \* GATE_DEADLINE_SECONDS
    InstallLimit,     \* INSTALL_TIMEOUT_MS
    CommandTimeout,   \* DEFAULT_COMMAND_TIMEOUT_MS
    Bounds,           \* default and ceiling of each setting, and the fixed bounds
    OutputLines,      \* MAX_DIAGNOSTIC_OUTPUT_LINES
    ChildLines,       \* how many lines a failing child may print
    Absent            \* a key the settings do not have

VARIABLES
    repo,             \* the repository and the arguments, fixed for the run
    phase,            \* which step of main() is next
    clock,            \* time since the gate started
    exit,             \* process.exitCode: -1 until it is set
    scratch,          \* status of the private-link rule
    queue,            \* batches not yet linted
    failed, overflow, \* runMarkdownlint's
    left,             \* lines left in its output budget
    linted            \* history: files a lint child has gone through

vars == <<repo, phase, clock, exit, scratch, queue, failed, overflow, left, linted>>

Files == DOMAIN repo.files
File(f) == repo.files[f]

------------------------------------------------------------------------------
(* Settings.                                                               *)

\* boundedSetting: absent keeps the default, out of range is refused.
SettingRefused(value, minimum, ceiling) ==
    value # Absent /\ value \notin minimum..ceiling
Setting(value, default) == IF value = Absent THEN default ELSE value

\* documentationSettings and styleExclusions over one parsed block; readManifestText
\* and documentationBlock refuse what is not one regular file with one mapping.
SettingsRefused ==
    \/ repo.manifest \in {"irregular", "oversize", "not yaml"}
    \/ repo.unknownKey
    \/ SettingRefused(repo.maxFiles, Bounds.files, Bounds.filesCeiling)
    \/ SettingRefused(repo.maxBytes, Bounds.bytes, Bounds.bytesCeiling)
    \/ SettingRefused(repo.lintTimeout, 1, Bounds.lintCeiling)
    \/ Len(repo.exclude) > Bounds.exclusions
    \/ ~ IsInjective(repo.exclude)

MaxFiles == Setting(repo.maxFiles, Bounds.files)
MaxFileBytes == Setting(repo.maxBytes, Bounds.bytes)
LintTimeout == Setting(repo.lintTimeout, Bounds.lint)

------------------------------------------------------------------------------
(* Which files are read and which are styled.                              *)

TotalBytes ==
    LET sum[n \in 0..Len(repo.files)] == IF n = 0 THEN 0 ELSE sum[n - 1] + File(n).size
    IN  sum[Len(repo.files)]

\* auditTrackedSymlinkTargets: no tracked symbolic link leads to private scratch.
TrackedRefused == \E target \in repo.links : target \in {"scratch", "unreadable"}

InventoryRefused ==
    \/ Len(repo.files) > MaxFiles
    \/ \E f \in Files : \/ File(f).kind # "regular"      \* symlink, directory, escapes the root
                        \/ File(f).size > MaxFileBytes
    \/ TotalBytes > Bounds.total

\* styleSelection: the built-in exclusions, then the declared ones.
Eligible == {f \in Files : ~ File(f).builtin}
Excluding(globs) == globs \cap Range(repo.exclude) # {}
Styled == {f \in Eligible : ~ Excluding(File(f).globs)}
SelectionRefused == Eligible # {} /\ Styled = {}

\* namedStyleFiles: --only lints nothing the gate would not.
Named == repo.only # <<>>
NamesRefused == ~ (Range(repo.only) \subseteq Styled)
Wanted == IF Named THEN Range(repo.only) ELSE Styled

\* batches(): paths are packed in order until a command line would be too long.
Pack(done, f) ==
    IF done = <<>> \/ (Len(done[Len(done)]) + 1) * Bounds.path > Bounds.command
    THEN Append(done, <<f>>)
    ELSE [done EXCEPT ![Len(done)] = Append(@, f)]
Batches ==
    LET packed[n \in 0..Len(repo.files)] ==
            IF n = 0 THEN <<>>
            ELSE IF n \in Wanted THEN Pack(packed[n - 1], n) ELSE packed[n - 1]
    IN  packed[Len(repo.files)]

Tidy(batch) == \A f \in Range(batch) : File(f).tidy
NoPrivateLink == \A f \in Files : ~ File(f).private

------------------------------------------------------------------------------
(* Running children.                                                       *)

\* commandLimit: a child's own limit, or the time left when that is shorter.
CommandLimit(own) == IF Deadline - clock < own THEN Max({Deadline - clock, 1}) ELSE own

\* command(): the child ends in time with some status, or is stopped and the
\* gate fails with 2.  A status other than 0 fails the gate unless allowed.
Ended(own) == \E d \in Durations : d <= CommandLimit(own) /\ clock' = clock + d
Stopped(own) ==
    /\ \E d \in Durations : d > CommandLimit(own)
    /\ clock' = clock + CommandLimit(own)

\* emitBounded: a child's diagnostics come out of the shared budget.
Emit(lines) ==
    IF overflow THEN UNCHANGED <<left, overflow>>
    ELSE left' = Max({left - lines, 0}) /\ overflow' = (lines > left)

Fail == phase' = "done" /\ exit' = 2

------------------------------------------------------------------------------
Init ==
    /\ repo \in Repositories
    /\ phase = "install"
    /\ clock = 0 /\ exit = -1 /\ scratch = 0
    /\ queue = <<>> /\ failed = FALSE /\ overflow = FALSE
    /\ left = OutputLines - 1
    /\ linted = {}

\* A step that asks one child (npm ci, git) for something: with an answer it
\* goes on to "after", unless "refused".
Ask(step, own, after, refused) ==
    /\ phase = step
    /\ \/ /\ Ended(own)
          /\ IF refused THEN Fail ELSE phase' = after /\ UNCHANGED exit
       \/ Ended(own) /\ Fail
       \/ Stopped(own) /\ Fail
    /\ UNCHANGED <<repo, scratch, queue, failed, overflow, left, linted>>

Install == Ask("install", InstallLimit, "root", FALSE)

\* repositoryRoot, and repositorySettings, which runs no child.
Root == Ask("root", CommandTimeout, "tracked", SettingsRefused)

\* ls-files --stage; cat-file only if a symbolic link is tracked.
Tracked == Ask("tracked", CommandTimeout, IF repo.links = {} THEN "files" ELSE "targets", FALSE)
Targets == Ask("targets", CommandTimeout, "files", TrackedRefused)

\* inventory() and styleSelection(); --only also looks its names up.
Inventory ==
    Ask("files", CommandTimeout, IF Named THEN "library" ELSE "scratch",
        InventoryRefused \/ SelectionRefused \/ (Named /\ NamesRefused))

\* runScratchRule: its own diagnostics do not count against the linter's budget.
ScratchRule ==
    /\ phase = "scratch"
    /\ \/ Ended(CommandTimeout) /\ scratch' \in {IF NoPrivateLink THEN 0 ELSE 1, 2}
          /\ phase' = "library" /\ UNCHANGED exit
       \/ Stopped(CommandTimeout) /\ Fail /\ UNCHANGED scratch
    /\ UNCHANGED <<repo, queue, failed, overflow, left, linted>>

\* runMarkdownlint checks the installed library before the first child.
Library ==
    /\ phase = "library"
    /\ IF repo.locked
       THEN /\ queue' = Batches
            /\ phase' = "lint" /\ UNCHANGED exit
       ELSE Fail /\ UNCHANGED queue
    /\ UNCHANGED <<repo, clock, scratch, failed, overflow, left, linted>>

\* One lint child.  It may also break (status 2), which counts as a finding.
LastOnly(status) == status # 0        \* mistake: a later clean batch clears it
Failed(status) == failed \/ status # 0

LintBatch ==
    /\ phase = "lint" /\ queue # <<>>
    /\ \/ /\ Ended(LintTimeout)
          /\ \E status \in {IF Tidy(Head(queue)) THEN 0 ELSE 1, 2} :
               /\ failed' = Failed(status)
               /\ IF status = 0 THEN UNCHANGED <<left, overflow>>
                  ELSE \E lines \in ChildLines : Emit(lines)
          /\ queue' = Tail(queue)
          /\ linted' = linted \cup Range(Head(queue))
          /\ UNCHANGED <<phase, exit>>
       \/ Stopped(LintTimeout) /\ Fail /\ UNCHANGED <<queue, failed, left, overflow, linted>>
    /\ UNCHANGED <<repo, scratch>>

\* The end of runGate or runOnly.
LintStatus == IF overflow THEN 2 ELSE IF failed THEN 1 ELSE 0
Verdict == Max({scratch, LintStatus})

Finish ==
    /\ phase = "lint" /\ queue = <<>>
    /\ phase' = "done"
    /\ exit' = Verdict
    /\ UNCHANGED <<repo, clock, scratch, queue, failed, overflow, left, linted>>

Next ==
    \/ Install \/ Root \/ Tracked \/ Targets \/ Inventory
    \/ ScratchRule \/ Library \/ LintBatch \/ Finish

Spec == Init /\ [][Next]_vars

------------------------------------------------------------------------------
\* The gate never outlives its deadline, whatever its children do: the time
\* they are given adds up, in any number of batches (verify.mjs:30).
EndsByDeadline == clock <= Deadline + 1

\* Status 0 is only given when every file was read for private links without
\* one, and every file that had to be styled went through a lint child that
\* found nothing (verify.mjs:2297); a status of 1 means that nothing stopped.
VerdictIsTrue ==
    /\ exit = 0 => /\ linted = Wanted /\ \A f \in Wanted : File(f).tidy
                   /\ Named \/ NoPrivateLink
                   /\ ~ SettingsRefused /\ ~ TrackedRefused /\ ~ InventoryRefused
                   /\ Eligible # {} => Wanted # {}
    /\ exit = 1 => linted = Wanted /\ ~ overflow

\* The style rules leave out what the built-in list or a declared glob names,
\* and nothing else: whatever was linted is eligible and matches no declared
\* glob, and a file that was not either was never wanted or the gate failed.
OnlyDeclaredAreExcluded ==
    exit \in {0, 1} =>
      \A f \in Files :
        f \in linted <=> /\ ~ File(f).builtin
                         /\ \A g \in File(f).globs : g \notin Range(repo.exclude)
                         /\ ~ Named \/ f \in Range(repo.only)

\* The gate is right: a true verdict about the right files, in time.
TrueInTime == EndsByDeadline /\ VerdictIsTrue /\ OnlyDeclaredAreExcluded
==============================================================================
