------------------------------ MODULE SitePages ------------------------------
(* What `site` of tools/figures/build.mjs reads (checks.mjs): the Markdown   *)
(* pages a generator publishes, found by a walk of the docs directory, the   *)
(* diagram fences on each, and the page that was built from it.              *)
(*                                                                           *)
(* A name is what its patterns and suffixes tell apart, a glob is the set of *)
(* the names it matches, a line is a fence or text, and a built page is the  *)
(* markup that the scan tells apart.  The generators are external: what they *)
(* have built is whatever is there.                                          *)
EXTENDS Naturals, FiniteSets, Sequences, Functions

CONSTANTS
    Cases,          \* records: flavor, files, dirs, slugs, patterns, config, lines, built, assets, specs, player
    Suffixed,       \* for each flavor, names with a suffix of a page
    Hidden,         \* names that start with a dot
    Underscored,    \* names that start with an underscore
    Templates,      \* the name "templates"
    Stem,           \* a name without its extension
    Lower,          \* a stem as a slug has it
    None,
    MaxEntries,     \* MAX_ENTRIES
    MaxPages        \* MAX_PAGES

VARIABLES
    input,          \* the repository and the site
    unlisted,       \* directories the walk has still to list
    seen,           \* entries it has listed
    found,          \* paths of pages
    unread,         \* of those, the published ones not read yet
    complaints,     \* errors
    ended           \* None, "ok", "findings", "refused"

vars == <<input, unlisted, seen, found, unread, complaints, ended>>

Init ==
    /\ input \in Cases
    /\ unlisted = <<<<>>>> /\ seen = 0 /\ found = {} /\ unread = None
    /\ complaints = {} /\ ended = None

-------------------------------------------------------------------------------
(* Which pages.                                                              *)

(* The last component of a path, and what is before it.                      *)
Name(path) == path[Len(path)]
Parent(path) == SubSeq(path, 1, Len(path) - 1)

\* mistake: a pattern for a directory takes the page's own name for one.
FileNamesToo(parts, pattern) == parts
Named(parts, pattern) == IF pattern.directory THEN Parent(parts) ELSE parts

(* patternMatches(): component by component, from the start if the pattern   *)
(* is anchored, else any one of them; a bare "/" has no globs.               *)
PatternMatches(parts, pattern) ==
    LET names == Named(parts, pattern)
    IN /\ pattern.globs # <<>>
       /\ IF pattern.anchored
          THEN /\ Len(pattern.globs) <= Len(names)
               /\ \A i \in DOMAIN pattern.globs : names[i] \in pattern.globs[i]
          ELSE \E i \in DOMAIN names : names[i] \in pattern.globs[1]

Pattern(globs, anchored, directory) ==
    [globs |-> globs, anchored |-> anchored, directory |-> directory, supported |-> TRUE]
DefaultExclude == <<Pattern(<<Hidden>>, FALSE, FALSE), Pattern(<<{Templates}>>, TRUE, TRUE)>>

(* isExcluded() and Starlight's own rule: TRUE, FALSE, or the complaint of a *)
(* pattern with a syntax that is not implemented, if none before it matches. *)
Settling(parts, patterns) ==
    {i \in DOMAIN patterns : ~patterns[i].supported \/ PatternMatches(parts, patterns[i])}
Skips(parts) ==
    IF input.flavor = "starlight"
    THEN (\E i \in DOMAIN parts : parts[i] \in Hidden) \/ Name(parts) \in Underscored
    ELSE Settling(parts, DefaultExclude \o input.patterns) # {}
Unsupported(parts) ==
    /\ input.flavor = "mkdocs"
    /\ LET patterns == DefaultExclude \o input.patterns
           settling == Settling(parts, patterns)
       IN \E i \in settling : ~patterns[i].supported /\ \A j \in settling : i <= j

(* markdownParts(): the directory listed last is looked into first; one that *)
(* is named like a page is taken for one as well.                            *)
InSomeOrder(paths) == CHOOSE s \in [1..Cardinality(paths) -> paths] : IsInjective(s)
Children(dir) == {p \in input.files \cup input.dirs : Parent(p) = dir}

List ==
    /\ ended = None /\ unread = None /\ unlisted # <<>> /\ seen <= MaxEntries
    /\ LET children == Children(unlisted[Len(unlisted)])
       IN /\ seen' = seen + Cardinality(children)
          /\ IF seen' > MaxEntries
             THEN ended' = "refused" /\ UNCHANGED <<unlisted, found>>
             ELSE /\ found' = found \cup {p \in children : Name(p) \in Suffixed[input.flavor]}
                  /\ unlisted' = SubSeq(unlisted, 1, Len(unlisted) - 1) \o InSomeOrder(children \cap input.dirs)
                  /\ UNCHANGED ended
    /\ UNCHANGED <<input, unread, complaints>>

(* pagesUnder().                                                             *)
Filter ==
    /\ ended = None /\ unread = None /\ unlisted = <<>>
    /\ LET pages == {p \in found : ~Skips(p)}
       IN IF (\E p \in found : Unsupported(p)) \/ Cardinality(pages) > MaxPages
          THEN ended' = "refused" /\ UNCHANGED unread
          ELSE unread' = pages /\ UNCHANGED ended
    /\ UNCHANGED <<input, unlisted, seen, found, complaints>>

(* pageOutput() and starlightOutput(): the directory of the index.html.  The *)
(* slug that a page's front matter declares is taken as it is.               *)
PageOutput(parts) ==
    IF Stem[Name(parts)] \in {"index", "README"} THEN Parent(parts)
    ELSE Append(Parent(parts), Stem[Name(parts)])
FrontmatterSlug(parts) == input.slugs[parts]
StarlightSlug(parts) ==
    LET slug == [i \in DOMAIN parts |-> Lower[IF i = Len(parts) THEN Stem[parts[i]] ELSE parts[i]]]
    IN IF FrontmatterSlug(parts) # None THEN FrontmatterSlug(parts)
       ELSE IF Len(slug) > 1 /\ Name(slug) = "index" THEN Parent(slug) ELSE slug
StarlightOutput(parts) ==
    LET slug == StarlightSlug(parts) IN IF slug = <<"index">> THEN <<>> ELSE slug
Output(parts) == IF input.flavor = "starlight" THEN StarlightOutput(parts) ELSE PageOutput(parts)

-------------------------------------------------------------------------------
(* What a page asks for.                                                     *)

(* fenceBlocks(): a fence is closed by one of the same mark that is at least *)
(* as long and says nothing else, or by the end of the page.                 *)
Closes(line, opener) ==
    /\ line.mark = opener.mark /\ line.size >= opener.size
    /\ line.info = "" /\ ~line.rest
ScanLine(scan, lines, i) ==
    IF lines[i].mark = None THEN scan
    ELSE IF scan.open = 0 THEN [open |-> i, blocks |-> scan.blocks]
    ELSE IF Closes(lines[i], lines[scan.open])
    THEN [open |-> 0, blocks |-> Append(scan.blocks, <<scan.open, i>>)]
    ELSE scan
ScanLines(lines) ==
    LET scanned[i \in 0..Len(lines)] ==
            IF i = 0 THEN [open |-> 0, blocks |-> <<>>] ELSE ScanLine(scanned[i - 1], lines, i)
    IN scanned[Len(lines)]
FenceBlocks(lines) ==
    LET scan == ScanLines(lines)
    IN IF scan.open = 0 THEN scan.blocks ELSE Append(scan.blocks, <<scan.open, Len(lines) + 1>>)

(* fences(): the blocks that open with these words.                          *)
Chosen(blocks, lines, info) ==
    LET chosen[i \in 0..Len(blocks)] ==
            IF i = 0 THEN <<>>
            ELSE IF lines[blocks[i][1]].info = info THEN Append(chosen[i - 1], blocks[i])
            ELSE chosen[i - 1]
    IN chosen[Len(blocks)]
Fences(lines, info) == Chosen(FenceBlocks(lines), lines, info)

(* figureSlug(): the first line of the body that is not blank.               *)
FigureSlug(lines, block) ==
    LET body == {i \in (block[1] + 1)..(block[2] - 1) : lines[i].text # ""}
    IN IF body = {} THEN "" ELSE lines[CHOOSE i \in body : \A j \in body : i <= j].text
FigureSlugs(lines) ==
    LET blocks == Fences(lines, "figure") IN [i \in DOMAIN blocks |-> FigureSlug(lines, blocks[i])]

(* What the configuration draws: in mkdocs.yml, Mermaid if superfences has a *)
(* custom fence that is the expected one in every key and has no other,      *)
(* figures if a hook ends in HOOK; Starlight never draws Mermaid.            *)
ExpectedFence == [name |-> "mermaid", class |-> "mermaid", format |-> "fence_code_format"]
Hook == <<"figures", "mkdocs_hook.py">>
EndsInHook(names) ==
    Len(names) >= Len(Hook) /\ SubSeq(names, Len(names) - Len(Hook) + 1, Len(names)) = Hook
ConfigError == ExpectedFence \notin input.config.fences
EnabledKinds ==
    {k \in {"mermaid"} : ~ConfigError}
    \cup {k \in {"figure"} : \E hook \in input.config.hooks : EndsInHook(hook)}
AstroKinds == {k \in {"figure"} : input.config.integration}
Kinds == IF input.flavor = "starlight" THEN AstroKinds ELSE EnabledKinds
KindErrors(lines) ==
    {k \in {"mermaid", "figure"} \ Kinds : \E b \in Range(FenceBlocks(lines)) : lines[b[1]].info = k}

-------------------------------------------------------------------------------
(* What was built.                                                           *)

(* scanPage(): tags are nothing in an element of raw text until its end, and *)
(* nothing counts after markup that the page ends inside.                    *)
StartScan == [mermaid |-> 0, figures |-> <<>>, scripts |-> {}, depth |-> 0, raw |-> None, over |-> FALSE]
HandleTag(scan, tag) ==
    CASE tag.t = "pre" -> [scan EXCEPT !.mermaid = @ + 1]
      [] tag.t = "script" -> [scan EXCEPT !.scripts = @ \cup {tag.url}]
      [] tag.t = "raw" -> [scan EXCEPT !.raw = tag.url]
      [] tag.t = "figure" /\ scan.depth > 0 -> [scan EXCEPT !.depth = @ + 1]
      [] tag.t = "figure" /\ scan.depth = 0 /\ tag.url # None ->
            [scan EXCEPT !.depth = 1, !.figures = Append(@, [slug |-> tag.url, urls |-> {}])]
      [] tag.t = "img" /\ scan.depth > 0 ->
            [scan EXCEPT !.figures[Len(scan.figures)].urls = @ \cup {tag.url}]
      [] tag.t = "/figure" /\ scan.depth > 0 -> [scan EXCEPT !.depth = @ - 1]
      [] tag.t = "unfinished" -> [scan EXCEPT !.over = TRUE]
      [] OTHER -> scan
ScanTag(scan, tag) ==
    IF scan.over THEN scan
    ELSE IF scan.raw = None THEN HandleTag(scan, tag)
    ELSE IF tag.t = "/raw" /\ tag.url = scan.raw THEN [scan EXCEPT !.raw = None]
    ELSE scan
ScanPage(tags) ==
    LET scanned[k \in 0..Len(tags)] ==
            IF k = 0 THEN StartScan ELSE ScanTag(scanned[k - 1], tags[k])
    IN scanned[Len(tags)]

(* figureErrors(): other figures than the fences', and no more; else URLs    *)
(* that do not resolve, images without a spec, no loader or no player.       *)
FigureErrors(slugs, scanned) ==
    IF [i \in DOMAIN scanned.figures |-> scanned.figures[i].slug] # slugs THEN {"otherFigures"}
    ELSE {e \in {"unresolved", "unspecified"} :
            \E f \in Range(scanned.figures) : \E url \in f.urls :
               IF e = "unresolved" THEN url \notin input.assets ELSE url \in input.assets \ input.specs}
         \cup (IF "loader" \notin scanned.scripts \cap input.assets THEN {"noLoader"}
               ELSE IF ~input.player THEN {"noPlayer"} ELSE {})

(* pageErrors(): a page is built if there is an index.html in its directory. *)
BuiltPage(page) == IF Output(page) \in DOMAIN input.built THEN input.built[Output(page)] ELSE None
PageErrors(page) ==
    LET lines == input.lines[page]
        expected == Len(Fences(lines, "mermaid"))
        slugs == FigureSlugs(lines)
        built == BuiltPage(page)
        scanned == ScanPage(built)
    IN IF expected = 0 /\ slugs = <<>> THEN {}
       ELSE IF built = None THEN KindErrors(lines) \cup {"notBuilt"}
       ELSE KindErrors(lines)
            \cup (IF expected # 0 /\ scanned.mermaid # expected THEN {"diagrams"} ELSE {})
            \cup (IF slugs # <<>> THEN FigureErrors(slugs, scanned) ELSE {})

(* One page after the other; a directory that is named like a page cannot be *)
(* read.                                                                     *)
ReadPage ==
    /\ ended = None /\ unread # None /\ unread # {}
    /\ LET page == CHOOSE p \in unread : TRUE IN
          IF page \in input.dirs
          THEN ended' = "refused" /\ UNCHANGED <<unread, complaints>>
          ELSE /\ unread' = unread \ {page}
               /\ complaints' = complaints \cup {<<page, e>> : e \in PageErrors(page)}
               /\ UNCHANGED ended
    /\ UNCHANGED <<input, unlisted, seen, found>>

End ==
    /\ ended = None /\ unread = {}
    /\ ended' = IF complaints = {} THEN "ok" ELSE "findings"
    /\ UNCHANGED <<input, unlisted, seen, found, unread, complaints>>

Next == List \/ Filter \/ ReadPage \/ End

Spec == Init /\ [][Next]_vars

-------------------------------------------------------------------------------
(* gitignore's own words: a pattern takes a path if it matches the path or a *)
(* directory above it; with a slash at its end it matches directories only,  *)
(* with one elsewhere it is anchored, otherwise it is a name at any level.   *)
Takes(pattern, path) ==
    \E n \in 1..Len(path) :
        /\ pattern.directory => n < Len(path)
        /\ IF pattern.anchored
           THEN Len(pattern.globs) = n /\ \A i \in 1..n : path[i] \in pattern.globs[i]
           ELSE pattern.globs # <<>> /\ path[n] \in pattern.globs[1]
Published(path) ==
    IF input.flavor = "starlight" THEN ~Skips(path)
    ELSE ~\E p \in Range(DefaultExclude \o input.patterns) : Takes(p, path)

(* The blocks of a page: each begins at a fence, ends at the first line that *)
(* closes it, and no fence is outside of them.                               *)
AreBlocks(blocks, lines) ==
    /\ \A i \in DOMAIN lines : lines[i].mark # None =>
          \E b \in Range(blocks) : i \in b[1]..b[2]
    /\ \A i \in DOMAIN blocks :
          LET from == blocks[i][1]
              to == blocks[i][2]
          IN /\ lines[from].mark # None
             /\ i > 1 => blocks[i - 1][2] < from
             /\ \A k \in (from + 1)..(to - 1) : ~Closes(lines[k], lines[from])
             /\ to <= Len(lines) => Closes(lines[to], lines[from])

(* Markup that a browser reads as such: not in an element of raw text, which *)
(* begins at a tag outside of another one and goes on up to its own end, and *)
(* not after markup that the page ends inside.                               *)
GoesOn(tags, j, k) ==
    j < k /\ ~\E e \in j..(k - 1) : tags[e].t = "/raw" /\ tags[e].url = tags[j].url
RawElements(tags) ==
    LET begun[k \in 0..Len(tags)] ==
            IF k = 0 THEN {}
            ELSE begun[k - 1] \cup {i \in {k} : tags[i].t = "raw" /\ \A j \in begun[k - 1] : ~GoesOn(tags, j, i)}
    IN begun[Len(tags)]
InRaw(tags, k) == \E j \in RawElements(tags) : GoesOn(tags, j, k)
Visible(tags, k) ==
    ~InRaw(tags, k) /\ \A j \in 1..(k - 1) : tags[j].t = "unfinished" => InRaw(tags, j)
At(tags, t) == {k \in DOMAIN tags : tags[k].t = t /\ Visible(tags, k)}
Shows(tags, slug) ==
    {k \in At(tags, "figure") :
        /\ tags[k].url = slug
        /\ \A m \in At(tags, "img") :
              k < m /\ ~(\E e \in At(tags, "/figure") : k < e /\ e < m)
              => tags[m].url \in input.assets \cap input.specs}

(* A page shows what it asks for, and the configuration draws it.            *)
IsShown(page) ==
    LET lines == input.lines[page]
        tags == BuiltPage(page)
        asked == FigureSlugs(lines)
        diagrams == Len(Fences(lines, "mermaid"))
    IN /\ diagrams > 0 =>
            tags # None /\ "mermaid" \in Kinds /\ Cardinality(At(tags, "pre")) = diagrams
       /\ asked # <<>> =>
            /\ tags # None /\ "figure" \in Kinds /\ input.player
            /\ \E k \in At(tags, "script") : tags[k].url = "loader"
            /\ \A i \in DOMAIN asked : Shows(tags, asked[i]) # {}
            /\ \A i \in DOMAIN asked, j \in DOMAIN asked : i < j =>
                  \E k \in Shows(tags, asked[i]), m \in Shows(tags, asked[j]) : k < m

(* Where `site` passes, every page that the generator publishes, at whatever *)
(* depth and under whatever exclusions, shows the diagrams its top-level     *)
(* fences ask for: the configuration draws their kind, there are as many     *)
(* Mermaid diagrams, the figures are there in the order of the fences, with  *)
(* images of the site that hold their spec, and the page loads a loader that *)
(* has its player beside it (checks.mjs:16-26).                              *)
PassMeansShown ==
    /\ unread # None =>
          \A page \in input.files : AreBlocks(FenceBlocks(input.lines[page]), input.lines[page])
    /\ ended = "ok" => \A page \in input.files :
          Name(page) \in Suffixed[input.flavor] /\ Published(page) => IsShown(page)
==============================================================================
