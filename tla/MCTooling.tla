------------------------------ MODULE MCTooling ------------------------------
(* An instance of Tooling for TLC, with more of the repository's tools: one  *)
(* run checks them all side by side.  `part` names the module that moves,    *)
(* the others rest in their first state.                                     *)
EXTENDS Tooling, SequencesExt

CONSTANTS
    x1, x2,                           \* gate: globs
    a, b, c                           \* ci: packages

VARIABLES
    part,
    document, next, frames, pending, visited, nodes, css, found, expressions,
    settled, reported

gateVars == <<repo, phase, clock, exit, scratch, queue, failed, overflow, left, linted>>
scanVars == <<files, persists, scanning, emitted, status, asked, armed, retired,
              stopFailed, inbox, events, worker, answers>>
globVars == <<glob, tested, compiled, decided>>
linkVars == <<document, next, frames, pending, visited, nodes, css, found, expressions,
              settled, reported>>
ciVars == <<event, changed, broken, detector, outputs, results, checked, gate>>
figureVars == <<specs, engine, vendor, disk, fences, blocks, job, gaps, edits>>
publishVars == <<tree, registry, released, checking, publishing, ending, analysed, circular,
                 colour, searched, stepped, cycle, floors, overrides, installed, known>>
ruleVars == <<check, docs, file, tasks, findings, outcome, result, published, attempt, judged>>
pageVars == <<input, unlisted, seen, listed, unread, complaints, ended>>
siteVars == <<json, svg, own, page, store, astro, site, stirred, dev, missed, command, changes>>

UpTo(n, s) == UNION {[1..k -> s] : k \in 0..n}

-------------------------------------------------------------------------------
(* MarkdownGate: repositories of up to two files of each kind with every     *)
(* mixture of arguments, and one-file repositories with bad settings.        *)
MCBounds == [files |-> 3, filesCeiling |-> 4, bytes |-> 2, bytesCeiling |-> 3,
             lint |-> 3, lintCeiling |-> 5, exclusions |-> 2, total |-> 5, path |-> 2,
             command |-> 4]
PlainFile == [kind |-> "regular", size |-> 1, builtin |-> FALSE, globs |-> {},
              private |-> FALSE, tidy |-> TRUE]
Kinds == {PlainFile,
          [PlainFile EXCEPT !.globs = {x1}], [PlainFile EXCEPT !.globs = {x1, x2}],
          [PlainFile EXCEPT !.builtin = TRUE, !.tidy = FALSE],
          [PlainFile EXCEPT !.private = TRUE], [PlainFile EXCEPT !.tidy = FALSE],
          [PlainFile EXCEPT !.size = 2], [PlainFile EXCEPT !.kind = "symlink"]}
Empty == [files |-> <<>>, links |-> {}, manifest |-> "regular", unknownKey |-> FALSE,
          maxFiles |-> Absent, maxBytes |-> Absent, lintTimeout |-> Absent,
          exclude |-> <<>>, only |-> <<>>, locked |-> TRUE]
FileLists == UpTo(2, Kinds) \cup [1..4 -> {PlainFile, [PlainFile EXCEPT !.tidy = FALSE]}]
MCRepositories ==
    {[Empty EXCEPT !.files = t, !.exclude = x, !.maxFiles = m, !.only = o] :
        t \in FileLists, x \in {<<>>, <<x1>>, <<x1, x2>>}, m \in {Absent, 4},
        o \in {<<>>, <<1>>, <<2, 2>>}}
    \cup
    {[Empty EXCEPT !.files = <<PlainFile>>, !.links = l, !.manifest = m,
        !.lintTimeout = t, !.locked = k, !.exclude = x] :
        l \in SUBSET {"scratch", "plain"}, m \in {"regular", "not yaml"},
        t \in {Absent, 1, 5, 6}, k \in BOOLEAN, x \in {<<>>, <<x1, x1>>}}

-------------------------------------------------------------------------------
(* PrivateLinkScan: two files, each with some links or one trouble, or three *)
(* with a link each.                                                         *)
Scanned == {[trouble |-> "none", links |-> n] : n \in 0..3}
    \cup {[trouble |-> t, links |-> 1] : t \in {"oversize", "unparsable", "heavy", "endless"}}
MCInventories == [1..2 -> Scanned] \cup [1..3 -> {f \in Scanned : f.links = 1}]

-------------------------------------------------------------------------------
(* StyleGlobs: globs of one or two segments of up to two parts, longer ones  *)
(* where a * has to go back, and three segments around every **.  Character  *)
(* 3 is the punctuation of a glob: a *, a ?, and what opens a list.          *)
Star == [star |-> TRUE, codes |-> {}, text |-> FALSE]
Some(codes, text) == [star |-> FALSE, codes |-> codes, text |-> text]
One == <<<<Some({1}, TRUE)>>>>
Two == <<<<Some({2}, TRUE)>>>>
Whatever == <<<<Star>>>>
Parts == {Whatever, One, <<<<Some({1, 2, 3}, FALSE)>>>>, <<One[1], Two[1]>>, <<<<Star>>, One[1]>>,
          <<<<>>, One[1]>>}
Segments == {<<>>} \cup {<<p>> : p \in Parts} \cup {<<p, q>> : p \in Parts, q \in {Whatever, One}}
SomeGlobs ==
    {<<s>> : s \in Segments \cup [1..4 -> {Whatever, One, Two}]}
    \cup [1..2 -> {s \in Segments : s = <<>> \/ s[1] \in {Whatever, One}}]
    \cup [1..3 -> {<<>>, <<Whatever>>, <<One>>}]
Words(n) == UNION {[1..k -> {1, 2}] : k \in 1..n}
MCGlobs == SomeGlobs
\* 3 is `*', `?', and the brace or the comma before each alternative of a list.
Spelt(tokens) == [i \in DOMAIN tokens |-> CHOOSE char \in 1..3 : tokens[i].codes # {char} => char = 3]
SpeltPart(parts) ==
    IF Len(parts) = 1 THEN Spelt(parts[1])
    ELSE FlattenSeq([i \in DOMAIN parts |-> <<3>> \o Spelt(parts[i])]) \o <<3>>
MCSpelling(g) ==
    [i \in DOMAIN g |-> IF g[i] = <<>> THEN <<3, 3>>
                        ELSE FlattenSeq([p \in DOMAIN g[i] |-> SpeltPart(g[i][p])])]
SomePaths ==
    {<<w>> : w \in Words(4)} \cup [1..2 -> Words(2)] \cup [1..3 -> Words(1)]
    \cup {MCSpelling(<<s>>) : s \in Segments} \cup {MCSpelling(<<<<One>>, s>>) : s \in Segments}
MCPaths == SomePaths

-------------------------------------------------------------------------------
(* LinkScanner: documents of one or two tokens that nest srcdoc in srcdoc,   *)
(* image-set() in brackets and import() in calls, up to and past each bound. *)
To(segments, context) == [base |-> "relative", path |-> segments, context |-> context]
Good == To(<<"dir">>, "html")
Bad == To(<<"up", "scratch">>, "html")
Css(t) == <<[t |-> t, to |-> Bad]>>
Boxed(sheets) ==
    {Css("image-set") \o s \o Css("closing parenthesis") : s \in sheets}
    \cup {Css("function") \o s \o Css("closing parenthesis") : s \in sheets}
    \cup {Css("bracket") \o s \o Css("closing bracket") : s \in sheets}
Simple == {Css("string"), Css("url"), Css("import")}
Sheets == Simple \cup Boxed(Simple \cup {<<>>}) \cup Boxed(Boxed(Simple))
    \cup {s \o t : s \in Boxed(Simple), t \in Simple}
Node == [urls |-> <<>>, refresh |-> <<>>, style |-> <<>>, sheet |-> <<>>, braced |-> FALSE,
         srcdoc |-> <<>>, children |-> <<>>]
Leaves == {Node, [Node EXCEPT !.urls = <<Bad, Good>>], [Node EXCEPT !.braced = TRUE],
           [Node EXCEPT !.refresh = <<Bad>>]}
Nested == {[n EXCEPT !.srcdoc = <<l>>, !.children = <<m>>] :
             n \in {Node, [Node EXCEPT !.urls = <<Bad>>]}, l \in Leaves, m \in Leaves}
Deep == {[Node EXCEPT !.srcdoc = <<n>>, !.children = m] :
           n \in Nested, m \in {<<>>, <<[Node EXCEPT !.urls = <<Bad>>]>>}}
Styled == {[Node EXCEPT !.sheet = s] : s \in Sheets}
    \cup {[Node EXCEPT !.style = s, !.urls = <<Good>>] : s \in Boxed(Simple)}
Tree == [imports |-> <<>>, dynamic |-> FALSE, children |-> <<>>]
Private == [Tree EXCEPT !.imports = <<Bad>>]
Scripts == {Tree, Private, [Tree EXCEPT !.dynamic = TRUE],
            [Tree EXCEPT !.children = <<Private, Tree>>],
            [Tree EXCEPT !.children = <<[Tree EXCEPT !.children = <<Private>>], Tree>>]}
Html(node, jsx) == [kind |-> "html", nodes |-> <<node>>, jsx |-> jsx]
MCTokens ==
    {[kind |-> "link", to |-> <<To(p, "markdown")>>] :
        p \in {<<"scratch">>, <<"up", "scratch">>, <<"dir">>}}
    \cup {Html(n, FALSE) : n \in Leaves \cup Deep}
    \cup {Html([Node EXCEPT !.braced = TRUE], TRUE), [kind |-> "spread"]}
    \cup {[kind |-> "attribute", form |-> f, url |-> u, at |-> 1,
           to |-> <<To(<<"scratch">>, "property")>>] :
            f \in {"expression", "quoted", "unquoted"}, u \in BOOLEAN}
    \cup {[kind |-> "expression", at |-> 1, static |-> s,
           to |-> <<To(<<"scratch">>, "property")>>, tree |-> t] : s \in BOOLEAN, t \in Scripts}
    \cup {[kind |-> "expression", at |-> 2, static |-> FALSE, to |-> <<>>, tree |-> Private]}
Written(dirs, snippets, tokens) == [dirs |-> dirs, snippets |-> snippets, tokens |-> tokens]
Snippets ==
    {<<>>, <<To(<<"scratch">>, "snippet")>>,
     <<[base |-> "file", path |-> <<"dir", "scratch">>, context |-> "snippet"],
       [base |-> "elsewhere", path |-> <<"scratch">>, context |-> "snippet"],
       [base |-> "root", path |-> <<"up", "scratch">>, context |-> "snippet"]>>}
Full == [i \in 1..4 |-> To(<<"scratch">>, "snippet")]
MCDocuments ==
    {Written(n, s, <<t>>) : n \in 0..2, s \in Snippets, t \in MCTokens}
    \cup {Written(1, <<>>, <<Html(n, FALSE), Html(Node, FALSE)>>) : n \in Styled}
    \cup {Written(1, s, t) : s \in {<<>>, Full, Append(Full, Full[1])},
                             t \in [1..2 -> {t \in MCTokens : t.kind # "html"}]}
    \cup {Written(1, <<>>, <<Html(n, FALSE), [kind |-> "link", to |-> <<Bad>>]>>) : n \in Deep}

Links == INSTANCE LinkScanner WITH
    Documents <- MCDocuments, MaxEvents <- 4, MaxNodes <- 4, MaxDepth <- 2, MaxCss <- 6,
    MaxCssDepth <- 2, MaxTree <- 3, MaxTreeDepth <- 1, Limit <- 3,
    result <- settled, findings <- reported

-------------------------------------------------------------------------------
(* CiPipeline: a chain of three packages, and a file of every sort.          *)
File(doc, shared, package, readers) ==
    [docs |-> doc, shared |-> shared, package |-> package, readers |-> readers]
MCFiles == {File(FALSE, FALSE, a, {}), File(FALSE, FALSE, b, {}), File(TRUE, FALSE, c, {}),
            File(FALSE, TRUE, Outside, {}), File(TRUE, FALSE, Outside, {c}),
            File(FALSE, FALSE, Outside, {a}), File(FALSE, FALSE, Outside, {}),
            File(TRUE, TRUE, Outside, {})}
MCDependencies == {<<a, b>>, <<b, c>>}

-------------------------------------------------------------------------------
(* PublishChecks: every graph of three packages; one import of every sort    *)
(* against every declaration; two packages and a private one with two peers. *)
Ranged(form, admits) == [form |-> form, admits |-> admits]
Workspace ==
    [files |-> {a, b, c} \X {FALSE}, private |-> {}, imports |-> {},
     fields |-> [p \in {a, b, c} |-> [m \in {a, b, c, "lib"} |-> {}]],
     range |-> [p \in {a, b, c} |-> [q \in {a, b, c} |-> Ranged("alias", {})]],
     version |-> [p \in {a, b, c} |-> 1],
     peer |-> [p \in {a, b, c} |-> [q \in {"typescript", "svelte"} |-> None]],
     optional |-> {},
     texts |-> [p \in {a, b, c} |-> {"licence", "license", "repository", "engines", "notice"}]]
Import(from, to, story, erased, lost) ==
    [from |-> from, to |-> to, story |-> story, erased |-> erased, lost |-> lost]
Imported(edges, erased) == {Import(e[1], e[2], FALSE, erased, FALSE) : e \in edges}
Cyclic ==
    {[Workspace EXCEPT !.imports = Imported(e, FALSE) \cup Imported(t, TRUE)] :
        e \in SUBSET {x \in {a, b, c} \X {a, b, c} : x[1] # x[2] \/ x[1] = a},
        t \in {{}, {<<a, b>>, <<b, a>>}}}
Importing ==
    {[Workspace EXCEPT !.imports = {Import(a, m, s, e, l)}, !.fields[a][m] = f,
        !.range[a][b] = r, !.version[b] = v, !.files = @ \cup {<<a, s>>}] :
        m \in {b, "lib"}, s \in BOOLEAN, e \in BOOLEAN, l \in BOOLEAN, v \in {1, 2},
        f \in SUBSET {"dependencies", "devDependencies", "peerDependencies"},
        r \in {Ranged("alias", {}), Ranged("invalid", {}), Ranged("versions", {1}), Ranged("versions", {})}}
    \cup {[Workspace EXCEPT !.files = {}]}
Archived ==
    {[Workspace EXCEPT !.peer[a] = first, !.peer[b] = second, !.peer[c]["svelte"] = "low",
        !.private = v, !.optional = o, !.texts[a] = t] :
        first \in [{"typescript", "svelte"} -> {None, "high"}],
        second \in [{"typescript", "svelte"} -> {None, "high", "low"}],
        v \in {{}, {c}, {b, c}, {a, b, c}}, o \in {{}, {b}},
        t \in {Workspace.texts[a], {"license"}}}
Floored ==
    {[Workspace EXCEPT !.peer[a] = first, !.peer[b]["svelte"] = second, !.private = {c}] :
        first \in [{"typescript", "svelte"} -> {"high"}], second \in {None, "high", "low"}}

MCAdmits == [high |-> {2, 3}, low |-> {1, 2, 3}]
MCPeerRange == [typescript |-> "high", svelte |-> "high"]
MCTrees == [cycles |-> Cyclic, declared |-> Importing, archives |-> Archived, pin |-> Floored]
MCRegistries == {[typescript |-> {2}, svelte |-> {1, 3}]}

-------------------------------------------------------------------------------
(* WorkflowChecks: the documents as they should be, each part of them in the *)
(* ways that a change could leave it.                                        *)
OnPull == [draft |-> TRUE, condition |-> "draft", failsClosed |-> TRUE, continues |-> FALSE]
Test == [draft |-> FALSE, condition |-> "none", failsClosed |-> FALSE, continues |-> FALSE]
Legs(s) == [i \in DOMAIN s |-> [name |-> s[i][1], runner |-> s[i][2]]]
Portability ==
    [named |-> TRUE, onRunner |-> TRUE, conditional |-> FALSE, continues |-> FALSE,
     steps |-> <<OnPull, Test>>, excludes |-> FALSE, otherKeys |-> FALSE,
     include |-> Legs(<<<<"linux", "linux">>, <<"mac", "mac">>>>)]
Rules == [active |-> TRUE, branch |-> TRUE, include |-> {"main", "lts"}, exclude |-> {},
          contexts |-> {"linux", "mac"}]
Jobs == {Portability} \cup {[Portability EXCEPT !.named = FALSE], [Portability EXCEPT !.onRunner = FALSE],
         [Portability EXCEPT !.conditional = TRUE], [Portability EXCEPT !.continues = TRUE],
         [Portability EXCEPT !.excludes = TRUE], [Portability EXCEPT !.otherKeys = TRUE]}
    \cup {[Portability EXCEPT !.include = Legs(l)] :
            l \in UNION {[1..n -> {"linux", "mac", "win"} \X {"linux", "mac"}] : n \in 1..3}}
    \cup {[Portability EXCEPT !.steps = s] :
            s \in {<<>>} \cup UNION {[1..n -> {OnPull, Test, [OnPull EXCEPT !.failsClosed = FALSE],
                                 [OnPull EXCEPT !.condition = "none"], [Test EXCEPT !.condition = "other"],
                                 [Test EXCEPT !.continues = TRUE]}] : n \in 1..2}}
Rulesets ==
    {[active |-> t, branch |-> u, include |-> i, exclude |-> e, contexts |-> c1] :
        t \in BOOLEAN, u \in BOOLEAN, i \in {{"main"}, {"lts"}, {"main", "lts"}},
        e \in {{}, {"main"}, {"lts"}}, c1 \in {{"linux"}, {"linux", "mac"}, {"linux", "mac", "win"}}}
LegCases ==
    {[readable |-> r, job |-> j, rules |-> Rules, onPull |-> t, onPush |-> {"main", "lts"}] :
        r \in BOOLEAN, j \in Jobs, t \in {{"main"}, {"main", "lts"}}}
    \cup {[readable |-> TRUE, job |-> Portability, rules |-> k, onPull |-> t, onPush |-> u] :
            k \in Rulesets, t \in {{"main"}, {"main", "lts"}}, u \in {{"main"}, {"main", "lts"}}}

Workflow(jobs) == [readable |-> TRUE, parses |-> TRUE, mapping |-> TRUE, jobs |-> jobs]
Timed(uses, form, minutes) == [uses |-> uses, timeout |-> [form |-> form, minutes |-> minutes]]
TimedJobs == {Timed(u, f, 0) : u \in BOOLEAN, f \in {"none", "text", "fraction"}}
    \cup {Timed(u, "integer", n) : u \in BOOLEAN, n \in {0, 1, 120, 121}}
TimeoutCases ==
    UpTo(1, {Workflow(j) : j \in UpTo(2, TimedJobs) \cup {[i \in 1..3 |-> Timed(FALSE, "integer", 1)]}})
    \cup [1..2 -> {Workflow(j) : j \in UpTo(1, TimedJobs)}]
    \cup {<<[Workflow(<<>>) EXCEPT !.readable = FALSE]>>, <<[Workflow(<<>>) EXCEPT !.mapping = FALSE]>>}

Container(version, env, containerEnv, ran) ==
    [playwright |-> TRUE, version |-> version, digest |-> TRUE, user |-> TRUE, env |-> env,
     containerEnv |-> containerEnv, installs |-> FALSE, steps |-> 2, tasks |-> ran]
Set == Container(1, "right", "unset", {"e2e"})
ContainerJobs ==
    {Container(v, e, k, t) : v \in {1, 2}, e \in {"unset", "right", "wrong"},
                             k \in {"unset", "right", "wrong"}, t \in {{}, {"e2e", "smoke"}}}
    \cup {[Set EXCEPT !.digest = FALSE], [Set EXCEPT !.user = FALSE], [Set EXCEPT !.installs = TRUE],
          [Set EXCEPT !.steps = 4], [Set EXCEPT !.playwright = FALSE], Set}
Turbo(passesAll, passes) == [readable |-> TRUE, passesAll |-> passesAll, passes |-> passes]
PlaywrightCases ==
    {[workflows |-> f, lock |-> l, turbo |-> t] :
        f \in {<<>>, <<[Workflow(<<>>) EXCEPT !.readable = FALSE]>>,
               <<[Workflow(<<>>) EXCEPT !.mapping = FALSE], Workflow(<<Set>>)>>,
               <<[Workflow(<<>>) EXCEPT !.parses = FALSE], Workflow(<<Set>>)>>,
               <<[Workflow(<<Set>>) EXCEPT !.readable = FALSE]>>,
               <<Workflow(<<Set, Set, Set>>)>>}
              \cup {<<Workflow(<<j>>)>> : j \in ContainerJobs}
              \cup {<<Workflow(<<>>), Workflow(<<Set, j>>)>> : j \in ContainerJobs},
        l \in {{}, {1}, {1, 2}},
        t \in {Turbo(TRUE, {}), Turbo(FALSE, {"e2e"}), Turbo(FALSE, {"e2e", "smoke"}), Turbo(FALSE, {}),
               [Turbo(TRUE, {}) EXCEPT !.readable = FALSE]}}

MCScores == {-1, 6, 7}
MCCases == [legs |-> LegCases, timeouts |-> TimeoutCases, playwright |-> PlaywrightCases]

-------------------------------------------------------------------------------
(* SitePages: small trees under exclusions of every sort, pages of up to     *)
(* four lines, built pages of up to three tags between a figure and the      *)
(* loader.                                                                   *)
PageNames == {"guide.md", "guide.mdx", "index.md", "README.md", "_part.md", "templates", "sub", ".hid", "logo.png"}
MCStem == [n \in PageNames |-> CASE n \in {"guide.md", "guide.mdx"} -> "guide" [] n = "index.md" -> "index"
                                [] n = "README.md" -> "README" [] n = "_part.md" -> "_part" [] OTHER -> n]
MCLower == [n \in PageNames \cup {"guide", "index", "README", "_part"} |-> IF n = "README" THEN "readme" ELSE n]
Plain(txt) == [mark |-> None, size |-> 0, info |-> "", rest |-> FALSE, text |-> txt]
Fence(mark, size, info, rest) == [mark |-> mark, size |-> size, info |-> info, rest |-> rest, text |-> "fence"]
Asks(info) == <<Fence("tick", 3, info, FALSE), Plain("one"), Fence("tick", 3, "", FALSE)>>
LineKinds == {Plain("one"), Plain(""), Fence("tick", 3, "", FALSE), Fence("tick", 3, "", TRUE),
              Fence("tick", 3, "figure", FALSE), Fence("tick", 4, "figure", FALSE),
              Fence("tilde", 3, "mermaid", FALSE), Fence("tilde", 3, "", FALSE)}
Tag(t, url) == [t |-> t, url |-> url]
Loads == <<Tag("script", "loader")>>
Shown == <<Tag("figure", "one"), Tag("img", "one.svg"), Tag("/figure", None)>> \o Loads
TagKinds == {Tag("figure", "one"), Tag("figure", None), Tag("/figure", None), Tag("img", "one.svg"),
             Tag("img", "gone.svg"), Tag("img", "bare.svg"), Tag("pre", None), Tag("raw", "title"),
             Tag("/raw", "title"), Tag("unfinished", None)}
Titled == <<Tag("raw", "title"), Tag("raw", "style"), Tag("/raw", "title")>>
PagePaths == {<<"guide.md">>, <<"guide.mdx">>, <<"README.md">>, <<"sub", "guide.md">>, <<"templates", "guide.md">>,
              <<"sub", ".hid", "index.md">>, <<"_part.md">>, <<"sub", "logo.png">>, <<"guide.md", "index.md">>}
PageTrees == {f \in SUBSET PagePaths : Cardinality(f) \in 1..3 /\ ~{<<"guide.md">>, <<"guide.md", "index.md">>} \subseteq f}
DirsOf(f) == UNION {{SubSeq(q, 1, n) : n \in 1..(Len(q) - 1)} : q \in f}
Excludes(globs, anchored, directory, supported) ==
    [globs |-> globs, anchored |-> anchored, directory |-> directory, supported |-> supported]
Exclusions == {<<>>, <<Excludes(<<{"guide.md"}>>, FALSE, TRUE, TRUE)>>, <<Excludes(<<{"guide.md"}>>, FALSE, FALSE, TRUE)>>,
               <<Excludes(<<{"sub"}, {"guide.md", "guide.mdx"}>>, TRUE, FALSE, TRUE)>>, <<Excludes(<<>>, TRUE, TRUE, TRUE)>>,
               <<Excludes(<<{"sub"}>>, TRUE, TRUE, TRUE), Excludes(<<{}>>, FALSE, FALSE, FALSE)>>}
PageOutputs == {<<>>} \cup {<<n>> : n \in {"guide", "README", "readme", "_part"}}
    \cup ({"sub", "templates", "guide.md"} \X {"guide", "index"})
    \cup {<<n>> : n \in {"guide.md"}} \cup {<<"sub", ".hid">>}
Config(drawn, hook, integration) ==
    [fences |-> {[name |-> "mermaid", class |-> "mermaid", format |-> drawn]}, hooks |-> {hook},
     integration |-> integration]
Enabled == Config("fence_code_format", <<"tools", "figures", "mkdocs_hook.py">>, TRUE)
Configs == {Enabled, Config("fence_div_format", <<"figures", "mkdocs_hook.py">>, FALSE),
            Config("fence_code_format", <<"mkdocs_hook.py">>, TRUE), [fences |-> {}, hooks |-> {}, integration |-> FALSE]}
PageCase(f, x, flavor, lines, tags) ==
    [flavor |-> flavor, files |-> f, dirs |-> DirsOf(f), slugs |-> [q \in f |-> None], patterns |-> x, config |-> Enabled,
     lines |-> [q \in f |-> lines], built |-> IF tags = None THEN <<>> ELSE [o \in PageOutputs |-> tags],
     assets |-> {"loader", "one.svg", "bare.svg"}, specs |-> {"one.svg"}, player |-> TRUE]
OnePage(lines, tags) == PageCase({<<"guide.md">>}, <<>>, "mkdocs", lines, tags)
AskedSites ==
    {<<l, Shown>> : l \in UpTo(4, LineKinds)}
    \cup {<<l, h \o t \o Loads>> : l \in {Asks("figure"), Asks("mermaid")}, h \in {<<>>, <<Tag("figure", "one")>>},
                                    t \in UpTo(3, TagKinds)}
    \cup {<<Asks("mermaid"), Titled \o t>> : t \in UpTo(2, TagKinds)}
Sites ==
    {OnePage(s[1], s[2]) : s \in AskedSites}
    \cup {PageCase(f, x, g, Asks("figure"), t) : f \in PageTrees, x \in Exclusions, g \in {"mkdocs", "starlight"},
                                                 t \in {None, Shown}}
    \cup {[OnePage(Asks(i), Shown) EXCEPT !.player = w, !.config = k, !.assets = s] :
            i \in {"figure", "mermaid"}, w \in BOOLEAN, k \in Configs, s \in {{"one.svg"}, {"loader", "one.svg"}}}
    \cup {[PageCase(f, <<>>, "starlight", Asks("figure"), Shown) EXCEPT !.slugs = [q \in f |-> s], !.config = k,
                                             !.built = [o \in PageOutputs \ t |-> Shown]] :
            f \in {{<<"guide.md">>}, {<<"sub", "guide.md">>, <<"guide.mdx">>}}, s \in {None, <<>>, <<"index">>, <<"sub", "index">>},
            k \in Configs, t \in {{}, {<<>>}}}
MCSiteInputs == Sites

MCSuffixed == [mkdocs |-> PageNames \ {"guide.mdx", "templates", "sub", ".hid", "logo.png"},
               starlight |-> PageNames \ {"templates", "sub", ".hid", "logo.png"}]

-------------------------------------------------------------------------------
Rests(p) == part # p

MCInit ==
    /\ part \in {"gate", "scan", "glob", "links", "ci", "figures", "site", "publish", "rules", "pages"}
    /\ Rests("gate") => repo = [Empty EXCEPT !.files = <<PlainFile>>]
    /\ Rests("scan") => persists = TRUE /\ files = <<[trouble |-> "none", links |-> 1], [trouble |-> "none", links |-> 1]>>
    /\ Rests("glob") => glob = <<<<Whatever>>>> /\ tested = <<<<1>>>>
    /\ Rests("links") => document = Written(0, <<>>, <<[kind |-> "spread"]>>)
    /\ Rests("ci") => event = "push" /\ broken = {} /\ changed = {File(FALSE, FALSE, a, {})}
    /\ engine = "e1" /\ vendor = "c1"
    /\ Rests("publish") => checking = "cycles" /\ tree = Workspace
    /\ Rests("rules") => check = "timeouts" /\ docs = <<>>
    /\ Rests("pages") => input = OnePage(<<>>, Shown)
    /\ Rests("site") => own = {} /\ page = <<>> /\ command = "build"
    /\ Gate!Init /\ Scan!Init /\ Glob!Init /\ Links!Init /\ Ci!Init /\ Drawn!Init /\ Built!Init
    /\ Publish!Init /\ Ruled!Init /\ Pages!Init
    /\ Rests("figures") => specs[1] = None

Moves(p) ==
    /\ part = p
    /\ UNCHANGED part
    /\ Rests("gate") => UNCHANGED gateVars
    /\ Rests("scan") => UNCHANGED scanVars
    /\ Rests("glob") => UNCHANGED globVars
    /\ Rests("links") => UNCHANGED linkVars
    /\ Rests("ci") => UNCHANGED ciVars
    /\ Rests("figures") => UNCHANGED figureVars
    /\ Rests("site") => UNCHANGED siteVars
    /\ Rests("publish") => UNCHANGED publishVars
    /\ Rests("rules") => UNCHANGED ruleVars
    /\ Rests("pages") => UNCHANGED pageVars

MCNext ==
    \/ Moves("gate") /\ Gate!Next
    \/ Moves("scan") /\ Scan!Next
    \/ Moves("glob") /\ Glob!Next
    \/ Moves("links") /\ Links!Next
    \/ Moves("ci") /\ Ci!Next
    \/ Moves("figures") /\ Drawn!Next
    \/ Moves("site") /\ Built!Next
    \/ Moves("publish") /\ Publish!Next
    \/ Moves("rules") /\ Ruled!Next
    \/ Moves("pages") /\ Pages!Next

\* The fairness of PrivateLinkScan's Spec, while it is the module that moves.
MCSpec ==
    /\ MCInit
    /\ [][MCNext]_<<part, gateVars, scanVars, globVars, linkVars, ciVars, figureVars,
              siteVars, publishVars, ruleVars, pageVars>>
    /\ WF_scanVars(Moves("scan") /\ Scan!Scan)
    /\ WF_scanVars(Moves("scan") /\ Scan!Expire)
    /\ WF_scanVars(Moves("scan") /\ Scan!Deliver)
    /\ WF_scanVars(Moves("scan") /\ Scan!Close)

-------------------------------------------------------------------------------
(* More properties, each stated and explained in its module.                 *)
RuleIsTrue == [](part = "scan" => Scan!RuleIsTrue) /\ (part = "scan" => Scan!RuleEnds)
NothingHidden == Links!NothingHidden
==============================================================================
