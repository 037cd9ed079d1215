----------------------------- MODULE PublishChecks ---------------------------
(* scripts/check-import-cycles.mjs, check-declared-imports.mjs,              *)
(* check-package-archives.mjs and pin-peer-floors.mjs: what the repository   *)
(* checks of its packages before a consumer gets them.                       *)
(*                                                                           *)
(* External: dependency-cruiser, which may miss files, throw or be late;     *)
(* pnpm, which packs and installs; the npm registry, which grows while the   *)
(* scripts run.  A package of the tree has the files, imports, manifest      *)
(* entries and texts below; how they are read out of the sources is left out.*)
EXTENDS Naturals, FiniteSets, Sequences, FiniteSetsExt

CONSTANTS
    Packages,
    Modules,        \* npm modules
    Peers,          \* FLOORED_PEERS
    Typescript,     \* the one that every package declares
    Ranges,         \* of peers, as written
    Admits,         \* [Ranges -> sets of releases]
    PeerRange,      \* PEER_RANGES and TYPESCRIPT_PEER: [Peers -> Ranges]
    Undeclared,
    Trees,          \* the workspaces that each check may meet
    Registries,     \* what the registry may list first: [Peers -> sets of releases]
    Releases,       \* and may come to list
    MaxReleased     \* bound: releases while the scripts run

VARIABLES
    tree,
    registry,       \* [Peers -> sets of releases]
    released,       \* releases since the beginning
    check,          \* "cycles", "declared", "archives", "pin" or "verify"
    phase,          \* what the script does next
    exit,           \* "none", "pass", "fail", or "threw" at the bound of findCycle()
    analysed,       \* files dependency-cruiser has read
    circular,       \* it has found a cycle of modules
    colour, frames, step, cycle,    \* findCycle()
    floors,         \* [Peers -> release or Undeclared], as far as they are read
    overrides,      \* pnpm-workspace.yaml
    installed,      \* [Packages -> [Peers -> release or Undeclared]]
    known           \* history: the registry when the script began

cruiseVars == <<analysed, circular>>
searchVars == <<colour, frames, step, cycle>>
floorVars == <<floors, overrides, installed, known>>
vars == <<tree, registry, released, check, phase, exit, cruiseVars, searchVars, floorVars>>

DependencyFields == {"dependencies", "devDependencies", "peerDependencies", "optionalDependencies"}
Declared == DependencyFields \ {"devDependencies"}

(* A tree: its files are pairs of a package and whether it is a story; an    *)
(* import that is erased is of types only; `fields` are the dependency       *)
(* fields that name a module or package; the range of a package is an alias  *)
(* of the workspace protocol, no range at all, or the versions it admits.    *)
Files == Packages \X BOOLEAN
Published == Packages \ tree.private

Init ==
    /\ check \in {"cycles", "declared", "archives", "pin"}
    /\ phase = "begin" /\ exit = "none"
    /\ tree \in Trees[check]
    /\ registry \in Registries /\ released = 0
    /\ analysed = {} /\ circular = FALSE
    /\ colour = [p \in Packages |-> "white"]
    /\ frames = <<>> /\ step = 0 /\ cycle = <<>>
    /\ floors = [p \in Peers |-> Undeclared]
    /\ overrides = [p \in Peers |-> Undeclared]
    /\ installed = [p \in Packages |-> [q \in Peers |-> Undeclared]]
    /\ known = registry

Exit(code) == exit' = code /\ phase' = "ended"

-------------------------------------------------------------------------------
(* walk() of every package's src; a package without one has no files.        *)
Walk ==
    /\ check \in {"cycles", "declared"} /\ phase = "begin"
    /\ IF tree.files = {} THEN Exit("fail") ELSE phase' = "cruise" /\ UNCHANGED exit
    /\ UNCHANGED <<tree, registry, released, check, cruiseVars, searchVars, floorVars>>

(* cruiseWithTimeout() rejects, or fewer files were analysed than found.     *)
CruiseFails ==
    /\ phase = "cruise" /\ Exit("fail")
    /\ UNCHANGED <<tree, registry, released, check, cruiseVars, searchVars, floorVars>>

Cruised ==
    /\ phase = "cruise"
    /\ \E read \in SUBSET tree.files, found \in BOOLEAN :
          /\ analysed' = read /\ circular' = (check = "cycles" /\ found)
          /\ IF read = tree.files THEN phase' = "report" /\ UNCHANGED exit ELSE Exit("fail")
    /\ UNCHANGED <<tree, registry, released, check, searchVars, floorVars>>

-------------------------------------------------------------------------------
(* packageGraph: edges between packages by what is imported at run time.     *)
Graph == {<<i.from, i.to>> : i \in {j \in tree.imports :
             ~j.erased /\ j.to \in Packages /\ j.to # j.from}}
Neighbours(p) == {q \in Packages : <<p, q>> \in Graph}
NoReturn == Cardinality(Packages) + Cardinality(Graph)  \* mistake: no step to see the end
Limit == Cardinality(Packages) + Cardinality(Graph) + 1

(* findCycle(): a search from each root that none has reached.               *)
NextRoot ==
    /\ check = "cycles" /\ phase = "report"
    /\ IF \E p \in Packages : colour[p] = "white"
       THEN \E p \in Packages :
               /\ colour[p] = "white"
               /\ colour' = [colour EXCEPT ![p] = "grey"]
               /\ frames' = <<[node |-> p, left |-> Neighbours(p)]>>
               /\ step' = 0 /\ phase' = "search"
               /\ UNCHANGED <<exit, cycle>>
       ELSE Exit(IF circular THEN "fail" ELSE "pass") /\ UNCHANGED searchVars
    /\ UNCHANGED <<tree, registry, released, check, cruiseVars, floorVars>>

(* One step of dfsFromRoot(); its `path` is that of the frames.              *)
Path == [i \in DOMAIN frames |-> frames[i].node]
Top == frames[Len(frames)]
PlaceOf(p) == Min({i \in DOMAIN Path : Path[i] = p})
Circle(p) == SubSeq(Path, PlaceOf(p), Len(Path)) \o <<p>>

Return ==
    /\ frames = <<>>
    /\ phase' = "report"
    /\ UNCHANGED <<exit, colour, frames, cycle>>

Leave ==
    /\ frames # <<>> /\ Top.left = {}
    /\ frames' = SubSeq(frames, 1, Len(frames) - 1)
    /\ colour' = [colour EXCEPT ![Top.node] = "black"]
    /\ UNCHANGED <<exit, phase, cycle>>

LookAt(next) ==
    LET looked == [frames EXCEPT ![Len(frames)].left = @ \ {next}] IN
    \/ /\ colour[next] = "grey"
       /\ cycle' = Circle(next)
       /\ Exit("fail")
       /\ frames' = looked /\ UNCHANGED colour
    \/ /\ colour[next] = "white"
       /\ colour' = [colour EXCEPT ![next] = "grey"]
       /\ frames' = Append(looked, [node |-> next, left |-> Neighbours(next)])
       /\ UNCHANGED <<exit, phase, cycle>>
    \/ /\ colour[next] = "black"
       /\ frames' = looked /\ UNCHANGED <<exit, phase, colour, cycle>>

Look == frames # <<>> /\ \E next \in Top.left : LookAt(next)

Search ==
    /\ phase = "search"
    /\ IF step = Limit
       THEN Exit("threw") /\ UNCHANGED searchVars
       ELSE step' = step + 1 /\ (Return \/ Leave \/ Look)
    /\ UNCHANGED <<tree, registry, released, check, cruiseVars, floorVars>>

-------------------------------------------------------------------------------
(* The rules check-declared-imports gives dependency-cruiser, which tells    *)
(* the type of a dependency from the fields of the nearest manifest.         *)
ImportViolation(i) ==
    \/ i.lost
    \/ tree.fields[i.from][i.to] = {}
    \/ tree.fields[i.from][i.to] = {"devDependencies"} /\ ~i.story

(* rangeProblem() and internalRangeViolations().                             *)
RangeProblem(range, version) ==
    range.form # "alias" /\ (range.form = "invalid" \/ version \notin range.admits)

RangeViolation(p, q) ==
    /\ tree.fields[p][q] # {}
    /\ q \notin Packages \/ RangeProblem(tree.range[p][q], tree.version[q])

Declarations ==
    /\ check = "declared" /\ phase = "report"
    /\ LET problems == (\E i \in tree.imports : ImportViolation(i))
                       \/ \E p, q \in Packages : RangeViolation(p, q)
       IN Exit(IF problems THEN "fail" ELSE "pass")
    /\ UNCHANGED <<tree, registry, released, check, cruiseVars, searchVars, floorVars>>

-------------------------------------------------------------------------------
(* The archives.  `texts` are what an archive has right of the licence text, *)
(* the licence identifier, the repository field, the Node engine and the     *)
(* notice in the README.                                                     *)
Texts == {"licence", "license", "repository", "engines", "notice"}

TypescriptPeerGap(p) == tree.peer[p][Typescript] # PeerRange[Typescript] \/ p \in tree.optional
PeerRangeGap(p) ==
    \E q \in Peers \ {Typescript} : tree.peer[p][q] \notin {Undeclared, PeerRange[q]}
Gaps(p) == tree.texts[p] # Texts \/ TypescriptPeerGap(p) \/ PeerRangeGap(p)

(* packWorkspace() and scanArchives(): whatever pnpm packed, or it failed.   *)
Pack ==
    /\ check = "archives" /\ phase = "begin"
    /\ \/ \E archives \in SUBSET Packages :
             LET sound == /\ archives \ tree.private # {}
                          /\ archives = Packages
                          /\ \A p \in archives \ tree.private : ~Gaps(p)
             IN Exit(IF sound THEN "pass" ELSE "fail")
       \/ Exit("fail")
    /\ UNCHANGED <<tree, registry, released, check, cruiseVars, searchVars, floorVars>>

-------------------------------------------------------------------------------
(* collectRanges(): a peer that two packages range differently is a conflict.*)
RangesOf(q) == {tree.peer[p][q] : p \in Published} \ {Undeclared}
Conflict == \E q \in Peers : Cardinality(RangesOf(q)) > 1

BeginFloors ==
    /\ check \in {"pin", "verify"} /\ phase = "begin"
    /\ IF Conflict THEN Exit("fail") ELSE phase' = "view" /\ UNCHANGED exit
    /\ known' = registry
    /\ floors' = [q \in Peers |-> Undeclared]
    /\ UNCHANGED <<tree, registry, released, check, cruiseVars, searchVars, overrides, installed>>

(* readFloors() asks for one peer after the other; lowestRelease() refuses   *)
(* an empty list, and one with a release that is not plain.                  *)
Unread == {q \in Peers : RangesOf(q) # {} /\ floors[q] = Undeclared}
LowestRelease(listed) == Min(listed)

View ==
    /\ phase = "view" /\ Unread # {}
    /\ \E q \in Unread :
          LET listed == {v \in registry[q] : \A r \in RangesOf(q) : v \in Admits[r]} IN
          \/ /\ listed # {}
             /\ floors' = [floors EXCEPT ![q] = LowestRelease(listed)]
             /\ UNCHANGED <<phase, exit>>
          \/ Exit("fail") /\ UNCHANGED floors
    /\ UNCHANGED <<tree, registry, released, check, cruiseVars, searchVars, overrides, installed, known>>

(* withOverrides(): a floor that is overridden already is an error.          *)
Write ==
    /\ check = "pin" /\ phase = "view" /\ Unread = {}
    /\ IF \E q \in Peers : floors[q] # Undeclared /\ overrides[q] # Undeclared
       THEN Exit("fail") /\ UNCHANGED overrides
       ELSE /\ overrides' = [q \in Peers |-> IF floors[q] = Undeclared THEN overrides[q] ELSE floors[q]]
            /\ Exit("pass")
    /\ UNCHANGED <<tree, registry, released, check, cruiseVars, searchVars, floors, installed, known>>

(* pnpm installs the override, or another release that the range admits, or  *)
(* nothing; the script is run again, to verify or by mistake to pin.         *)
Install ==
    /\ check = "pin" /\ phase = "ended" /\ exit = "pass"
    /\ installed' \in [Packages -> [Peers -> {Undeclared} \cup UNION {registry[q] : q \in Peers}]]
    /\ \A p \in Packages, q \in Peers :
          IF tree.peer[p][q] = Undeclared THEN installed'[p][q] = Undeclared
          ELSE installed'[p][q] \in {Undeclared, overrides[q], Max(registry[q])}
    /\ check' \in {"pin", "verify"} /\ phase' = "begin" /\ exit' = "none"
    /\ UNCHANGED <<tree, registry, released, cruiseVars, searchVars, floors, overrides, known>>

(* installedGaps() of the packages that are published.                       *)
InstalledGap(p, q) ==
    tree.peer[p][q] # Undeclared /\ floors[q] # Undeclared /\ installed[p][q] # floors[q]

Verify ==
    /\ check = "verify" /\ phase = "view" /\ Unread = {}
    /\ Exit(IF \E p \in Published, q \in Peers : InstalledGap(p, q) THEN "fail" ELSE "pass")
    /\ UNCHANGED <<tree, registry, released, check, cruiseVars, searchVars, floorVars>>

Release ==
    /\ check \in {"pin", "verify"} /\ released < MaxReleased
    /\ released' = released + 1
    /\ \E q \in Peers, v \in Releases :
          v \notin registry[q] /\ registry' = [registry EXCEPT ![q] = @ \cup {v}]
    /\ UNCHANGED <<tree, check, phase, exit, cruiseVars, searchVars, floorVars>>

Next ==
    \/ Walk \/ CruiseFails \/ Cruised
    \/ NextRoot \/ Search
    \/ Declarations
    \/ Pack
    \/ BeginFloors \/ View \/ Write \/ Install \/ Verify \/ Release

Spec == Init /\ [][Next]_vars

-------------------------------------------------------------------------------
Acyclic ==
    \E rank \in [Packages -> 1..Cardinality(Packages)] :
       \A edge \in Graph : rank[edge[1]] < rank[edge[2]]

(* What a consumer installs with a package, and finds its imports in.        *)
Resolves(i) == ~i.lost /\ tree.fields[i.from][i.to] \cap Declared # {}
Fits(p, q) == tree.range[p][q].form = "alias" \/ tree.version[q] \in tree.range[p][q].admits

(* A check that passes means what it is run for.  No packages import each    *)
(* other in a circle, and a circle that is reported is one; the search stays *)
(* within its bound.  A consumer finds every module that a published file    *)
(* imports, and the version of a package that was published.  Archives that  *)
(* pass leave one range of each peer, so that the floors can be pinned; and  *)
(* floors that verify are installed everywhere, with nothing below them that *)
(* was released when the script began.                                       *)
PassMeansInstallable ==
    /\ exit # "threw"
    /\ check = "cycles" /\ exit = "pass" => Acyclic /\ tree.files = analysed
    /\ cycle # <<>> =>
          /\ Head(cycle) = cycle[Len(cycle)] /\ Len(cycle) > 1
          /\ \A i \in 1..Len(cycle) - 1 : <<cycle[i], cycle[i + 1]>> \in Graph
    /\ check = "declared" /\ exit = "pass" =>
          /\ \A i \in tree.imports : ~i.story => Resolves(i)
          /\ \A p, q \in Packages : tree.fields[p][q] # {} => Fits(p, q)
    /\ check = "archives" /\ exit = "pass" => ~Conflict /\ RangesOf(Typescript) # {}
    /\ check = "verify" /\ exit = "pass" =>
          \A p \in Published, q \in Peers :
             tree.peer[p][q] # Undeclared =>
                /\ installed[p][q] \in Admits[tree.peer[p][q]]
                /\ \A v \in known[q] : v \in Admits[tree.peer[p][q]] => v >= installed[p][q]
==============================================================================
