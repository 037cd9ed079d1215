------------------------------- MODULE Tooling -------------------------------
(* Tools of the repository, side by side: the site the figures are shown on, *)
(* the private-link rule, the figures, the Markdown gate, the CI pipeline,   *)
(* the checks of its workflows, of the packages it publishes and of the site *)
(* it has built, and the globs of the Markdown gate's settings.  They share  *)
(* no state; constants and variables that two of them share a name of are    *)
(* renamed.                                                                  *)
EXTENDS Integers, Sequences, FiniteSets

CONSTANTS
    None, Absent, Outside,
    SiteSlugs, Versions, MaxFences, MaxChanges,                  \* see FigureSite
    Inventories, MaxFindings,                                    \* see PrivateLinkScan
    Count, Specs, Invalid, Engines, Commits, MaxEdits,           \* see Figures
    Repositories, Durations, Deadline, InstallLimit,             \* see MarkdownGate
    CommandTimeout, Bounds, OutputLines, ChildLines,
    Packages, Dependencies, Stories, CiFiles, MaxChanged,        \* see CiPipeline
    ChangeScoped, EventScoped, MustSucceed,
    Families, Cases, E2e, MinMinutes, MaxMinutes,                \* see WorkflowChecks
    DefaultMinutes, JobLimit, StepLimit, Commit, Scored, Scores,
    Threshold, Attempts, MaxPublished,
    Modules, Peers, Typescript, Ranges, Admits, PeerRange,       \* see PublishChecks
    Trees, Registries, Releases, MaxReleased,
    SiteInputs, Suffixed, Hidden, Underscored, Templates,        \* see SitePages
    Stem, Lower, MaxEntries, MaxPages,
    Globs, Paths, Spelling(_), Codes, MaxAlternatives            \* see StyleGlobs

VARIABLES
    json, svg, own, page, store, astro, site, stirred, dev, missed, command, changes,
    files, persists, scanning, emitted, status, asked, armed, retired, stopFailed,
    inbox, events, worker, answers,
    specs, engine, vendor, disk, fences, blocks, job, gaps, edits,
    repo, phase, clock, exit, scratch, queue, failed, overflow, left, linted,
    event, changed, broken, detector, outputs, results, checked, gate,
    check, docs, file, tasks, findings, outcome, result, published, attempt, judged,
    tree, registry, released, checking, publishing, ending, analysed, circular, colour,
    searched, stepped, cycle, floors, overrides, installed, known,
    input, unlisted, seen, listed, unread, complaints, ended,
    glob, tested, compiled, decided

Built == INSTANCE FigureSite WITH Slugs <- SiteSlugs
Scan == INSTANCE PrivateLinkScan WITH next <- scanning, pending <- asked
Drawn == INSTANCE Figures WITH Versions <- Specs
Gate == INSTANCE MarkdownGate
Ci == INSTANCE CiPipeline WITH Files <- CiFiles
Ruled == INSTANCE WorkflowChecks WITH exit <- outcome, Commits <- Scored
Publish == INSTANCE PublishChecks WITH
    Undeclared <- None, check <- checking, phase <- publishing, exit <- ending,
    frames <- searched, step <- stepped
Pages == INSTANCE SitePages WITH Cases <- SiteInputs, found <- listed
Glob == INSTANCE StyleGlobs WITH path <- tested, verdict <- decided

-------------------------------------------------------------------------------
(* The properties, each stated and explained in its module.                  *)
ShowsCurrentFigures == Built!ShowsCurrentFigures
PassMeansCurrent == Drawn!PassMeansCurrent
TrueInTime == Gate!TrueInTime
GateMeansChecked == Ci!GateMeansChecked
PassMeansEnforced == Ruled!PassMeansEnforced
PassMeansInstallable == Publish!PassMeansInstallable
PassMeansShown == Pages!PassMeansShown
MatchesAsWritten == Glob!MatchesAsWritten
==============================================================================
