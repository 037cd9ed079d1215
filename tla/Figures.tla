------------------------------- MODULE Figures -------------------------------
(* The documentation figures (tools/figures): build.mjs renders the specs of *)
(* a repository with the vendored engine (core.mjs) into three committed     *)
(* files each, and checks.mjs binds these to their sources by hashes.  Specs, *)
(* engine, pages and outputs are edited at any time, while a build reads or  *)
(* writes too, and a build can be broken off anywhere.                       *)
(*                                                                           *)
(* A slug is its place in the sorted list; one documentation page and one    *)
(* README stand for all.  A hash is the thing hashed, and nobody writes one  *)
(* by hand.                                                                  *)
EXTENDS Naturals, Sequences, FiniteSets

CONSTANTS
    Count,          \* slugs are 1..Count
    Versions,       \* what a spec may say
    Invalid,        \* of them, those validate() refuses
    Engines,        \* the bytes of ENGINE_FILES
    Commits,        \* vendor.json's commit, which the SVGs credit
    None,
    MaxEdits        \* bound: edits of sources, pages and outputs by hand

VARIABLES
    specs, engine, vendor,      \* the sources
    disk,                       \* the outputs of each slug
    fences,                     \* slugs the page has a figure fence for
    blocks,                     \* the README's block of each slug
    job,                        \* the build under way
    gaps,                       \* history: specs edited between the two reads
                                \* of a build
    edits

sources == <<specs, engine, vendor>>
pages == <<fences, blocks>>
vars == <<sources, disk, pages, job, gaps, edits>>

Slugs == 1..Count

(* validate() finds nothing wrong.                                           *)
Valid(spec) == spec \notin Invalid

Outputs == {"svg", "static", "json"}

(* What render() makes of a spec: the animated and the static image, and the *)
(* JSON, which records the spec's and the engine's hashes and those of both  *)
(* images.  `drawn` is the module that was imported, `spec` the bytes read   *)
(* before.                                                                   *)
Image(r) == [drawn |-> r.drawn, engine |-> r.engine, vendor |-> r.vendor]
Rendering(r) == [svg |-> Image(r), static |-> Image(r), json |-> r]
Clean(content) == [content |-> content, touched |-> "no"]
NoOutputs == [f \in Outputs |-> None]

(* An edit by hand of an output: of an image, which changes its hash; of the *)
(* JSON where its html no longer follows from the rest ("seen"), or where no *)
(* check looks, its edges, its evidence or the text and the html alike.      *)
Touches(f) == IF f = "json" THEN {"seen", "unseen"} ELSE {"seen"}

(* markup(): the JSON's html; the engine's version decides how it is written.*)
Html(file) == [drawn |-> file.content.drawn, engine |-> file.content.engine,
               touched |-> file.touched]

IdleJob == [step |-> "idle", left |-> <<>>, bytes |-> None, out |-> [s \in Slugs |-> None],
            errors |-> FALSE, engine |-> None, vendor |-> None, todo |-> <<>>]

(* A repository without figures, or one whose every figure has been built    *)
(* and is shown on the page and in the README.                               *)
Init ==
    /\ engine \in Engines /\ vendor \in Commits
    /\ \/ /\ specs = [s \in Slugs |-> None]
          /\ disk = [s \in Slugs |-> NoOutputs]
          /\ fences = {} /\ blocks = [s \in Slugs |-> None]
       \/ \E v \in {v \in Versions : Valid(v)} :
          LET r == [spec |-> v, drawn |-> v, engine |-> engine, vendor |-> vendor]
          IN  /\ specs = [s \in Slugs |-> v]
              /\ disk = [s \in Slugs |-> [f \in Outputs |-> Clean(Rendering(r)[f])]]
              /\ fences = Slugs /\ blocks = [s \in Slugs |-> Html(Clean(r))]
    /\ job = IdleJob
    /\ gaps = {} /\ edits = 0

Json(s) == disk[s]["json"]
Sorted(set) == SelectSeq([s \in 1..Count |-> s], LAMBDA s : s \in set)
Known == {s \in Slugs : specs[s] # None /\ Json(s) # None}

-------------------------------------------------------------------------------
(* People.                                                                   *)
Edit == edits < MaxEdits /\ edits' = edits + 1

EditSpec(s) ==
    /\ Edit
    /\ specs' \in {[specs EXCEPT ![s] = v] : v \in (Versions \cup {None}) \ {specs[s]}}
    /\ gaps' = IF job.step = "loading" /\ Head(job.left) = s THEN gaps \cup {s} ELSE gaps
    /\ UNCHANGED <<engine, vendor, disk, pages, job>>

(* The engine or the vendored copy is updated; no build is running from it.  *)
EditEngine ==
    /\ Edit
    /\ job.step = "idle"
    /\ engine' \in Engines /\ vendor' \in Commits
    /\ <<engine, vendor>>' # <<engine, vendor>>
    /\ UNCHANGED <<specs, disk, pages, job, gaps>>

Touch(s, f) ==
    /\ Edit
    /\ disk[s][f] # None
    /\ disk' \in {[disk EXCEPT ![s][f].touched = t] : t \in Touches(f)}
                 \cup {[disk EXCEPT ![s][f] = None]}
    /\ UNCHANGED <<sources, pages, job, gaps>>

EditPage ==
    /\ Edit
    /\ \/ /\ \E s \in Slugs : fences' = (fences \ {s}) \cup ({s} \ fences)
          /\ UNCHANGED blocks
       \/ /\ \E s \in Slugs : blocks' = [blocks EXCEPT ![s] =
                IF @ = None THEN [drawn |-> None, engine |-> None, touched |-> "seen"] ELSE None]
          /\ UNCHANGED fences
    /\ UNCHANGED <<sources, disk, job, gaps>>

-------------------------------------------------------------------------------
(* build.                                                                    *)

(* The process loads the engine, reads its hash and vendor.json, and lists   *)
(* the specs.                                                                *)
StartBuild ==
    /\ job.step = "idle"
    /\ job' = [IdleJob EXCEPT !.step = "reading", !.engine = engine, !.vendor = vendor,
                              !.left = Sorted({s \in Slugs : specs[s] # None})]
    /\ UNCHANGED <<sources, disk, pages, gaps, edits>>

(* loadSpec() reads the bytes it hashes; a spec deleted since ends the build.*)
ReadSpec ==
    /\ job.step = "reading"
    /\ job.left # <<>>
    /\ job' = IF specs[Head(job.left)] = None
              THEN IdleJob
              ELSE [job EXCEPT !.step = "loading", !.bytes = specs[Head(job.left)]]
    /\ UNCHANGED <<sources, disk, pages, gaps, edits>>

(* import() reads the file again; what it exports is validated and rendered. *)
LoadSpec ==
    /\ job.step = "loading"
    /\ LET s == Head(job.left)
           rendering == [spec |-> job.bytes, drawn |-> specs[s],
                         engine |-> job.engine, vendor |-> job.vendor]
           next == [job EXCEPT !.step = "reading", !.left = Tail(@), !.bytes = None]
       IN  job' = IF specs[s] = None THEN IdleJob
                  ELSE IF ~Valid(specs[s]) THEN [next EXCEPT !.errors = TRUE]
                  ELSE [next EXCEPT !.out[s] = rendering]
    /\ UNCHANGED <<sources, disk, pages, gaps, edits>>

(* writeOutputs(): outputs without a spec go, then each figure's three files *)
(* are written in turn.                                                      *)
Removals == [s \in Slugs |->
    IF job.out[s] # None THEN <<>>
    ELSE SelectSeq(<<<<s, "json">>, <<s, "static">>, <<s, "svg">>>>,
                   LAMBDA f : disk[s][f[2]] # None)]
Writes == [s \in Slugs |->
    IF job.out[s] = None THEN <<>> ELSE <<<<s, "svg">>, <<s, "static">>, <<s, "json">>>>]
Joined(seqs) ==
    LET join[n \in 0..Count] == IF n = 0 THEN <<>> ELSE join[n - 1] \o seqs[n]
    IN  join[Count]

(* A spec that breaks a rule ends the build before anything is written.      *)
Rendered ==
    /\ job.step = "reading"
    /\ job.left = <<>>
    /\ job' = IF job.errors THEN IdleJob
              ELSE [job EXCEPT !.step = "writing", !.todo = Joined(Removals) \o Joined(Writes)]
    /\ UNCHANGED <<sources, disk, pages, gaps, edits>>

WriteOutput ==
    /\ job.step = "writing"
    /\ job.todo # <<>>
    /\ LET s == Head(job.todo)[1]
           f == Head(job.todo)[2]
       IN  disk' = [disk EXCEPT ![s][f] =
                        IF job.out[s] = None THEN None ELSE Clean(Rendering(job.out[s])[f])]
    /\ job' = [job EXCEPT !.todo = Tail(@)]
    /\ UNCHANGED <<sources, pages, gaps, edits>>

(* The build is done, or broken off, by a timeout of a spec's import or by   *)
(* whoever runs it.                                                          *)
EndBuild ==
    /\ job.step # "idle"
    /\ job' = IdleJob
    /\ UNCHANGED <<sources, disk, pages, gaps, edits>>

(* refreshMarkers(): every block rendered again, from the html of its JSON.  *)
Renderable == \A s \in Slugs : blocks[s] # None => Json(s) # None
Refreshed == [s \in Slugs |-> IF blocks[s] = None THEN None ELSE Html(Json(s))]

(* portable --write: all of them, or none.                                   *)
Refresh ==
    /\ Renderable
    /\ blocks' = Refreshed
    /\ UNCHANGED <<sources, disk, fences, job, gaps, edits>>

Next ==
    \/ \E s \in Slugs : EditSpec(s) \/ \E f \in Outputs : Touch(s, f)
    \/ EditEngine \/ EditPage
    \/ StartBuild \/ ReadSpec \/ LoadSpec \/ Rendered \/ WriteOutput \/ EndBuild
    \/ Refresh

Spec == Init /\ [][Next]_vars

-------------------------------------------------------------------------------
(* The checks, which change nothing.                                         *)

\* mistake: the engine is not among what a JSON is bound to.
BoundToSpec(s) ==
    /\ Json(s).content.spec = specs[s]
    /\ disk[s]["svg"] = Clean(Image(Json(s).content))
    /\ disk[s]["static"] = Clean(Image(Json(s).content))

(* hashErrors(): the JSON's hashes are those of spec, engine and images.     *)
Bound(s) ==
    /\ Json(s).content.spec = specs[s]
    /\ Json(s).content.engine = engine
    /\ disk[s]["svg"] = Clean(Image(Json(s).content))
    /\ disk[s]["static"] = Clean(Image(Json(s).content))

HasFigures == \E s \in Slugs : specs[s] # None \/ \E f \in Outputs : disk[s][f] # None

(* sizeErrors() and htmlErrors().                                            *)
WellFormed(s) == Json(s).touched # "seen"

FiguresPass ==
    \A s \in Slugs :
        /\ specs[s] # None <=> Json(s) # None
        /\ s \in Known => Bound(s) /\ WellFormed(s)

SourcesPass ==
    \/ ~HasFigures
    \/ /\ FiguresPass
       /\ fences \subseteq Known
       /\ Renderable /\ blocks = Refreshed

(* check: what the sources render to now, in memory.                         *)
RendersTo(s) == Rendering([spec |-> specs[s], drawn |-> specs[s], engine |-> engine, vendor |-> vendor])
CheckPasses ==
    /\ \A s \in Slugs : Valid(specs[s])
    /\ \A s \in Slugs, f \in Outputs :
           disk[s][f] = IF specs[s] = None THEN None ELSE Clean(RendersTo(s)[f])

(* The cheap check stands in for the costly one.  Where `sources` passes,    *)
(* after builds that were broken off and edits by hand, every figure's       *)
(* images, what its JSON records of them, and the README's blocks are what   *)
(* the spec and the engine there are draw (build.mjs:9-11, checks.mjs:7-13); *)
(* unless a spec was edited between the two reads of a build.  Only the      *)
(* commit they credit may be another, and a JSON may have been edited where  *)
(* no check looks.                                                           *)
PassMeansCurrent ==
    /\ SourcesPass /\ HasFigures => \A s \in Slugs \ gaps :
        /\ Valid(specs[s])
        /\ specs[s] # None =>
            /\ \A f \in Outputs : \E c \in Commits :
                   /\ disk[s][f].content = [RendersTo(s)[f] EXCEPT !.vendor = c]
                   /\ f # "json" => disk[s][f].touched = "no"
            /\ blocks[s] # None => blocks[s].drawn = specs[s] /\ blocks[s].engine = engine
        /\ specs[s] = None => s \notin fences /\ blocks[s] = None
    /\ CheckPasses => FiguresPass
==============================================================================
