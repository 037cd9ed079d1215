------------------------------ MODULE FigureSite -----------------------------
(* The figures on an Astro site (tools/figures: astro.mjs, serve.mjs and     *)
(* checkSite of checks.mjs): a plugin puts each figure's html, from its      *)
(* JSON, in the place of its fence; `astro build` keeps the pages it has     *)
(* rendered before and copies the images beside them, and the development    *)
(* server restarts when a JSON changes.                                      *)
(*                                                                           *)
(* The files of docs/assets/figures are written one at a time by build.mjs   *)
(* (module Figures); here each is a version or missing.  One page stands for *)
(* all.  Astro's data store and its server are external.                     *)
EXTENDS Naturals, Sequences

CONSTANTS
    Slugs,
    Versions,       \* of a figure
    None,
    MaxFences,      \* bound: figure fences of the page
    MaxChanges      \* bound: files written and pages edited

VARIABLES
    json, svg,      \* the committed outputs
    own,            \* images the site itself holds at the figures' paths
    page,           \* the slugs its fences name
    store,          \* Astro's data store: the page as last rendered
    astro,          \* the site build under way
    site,           \* the built site, and whether anything has changed since
    stirred,        \* history: was a JSON written during a site build?
    dev,            \* the development server
    missed,         \* history: was a JSON written while a server that had read
                    \* them did not watch them yet?
    command,        \* what is run: `astro build`, time and again, or `astro dev`
    changes

outputs == <<json, svg>>
vars == <<outputs, own, page, store, astro, site, stirred, dev, missed, command, changes>>

Pages == UNION {[1..n -> Slugs] : n \in 0..MaxFences}
Down == [state |-> "down", digest |-> None, timer |-> FALSE]

Init ==
    /\ json = [s \in Slugs |-> None] /\ svg = [s \in Slugs |-> None]
    /\ own \in SUBSET Slugs
    /\ page \in Pages
    /\ store = [digest |-> None, page |-> None, shown |-> None]
    /\ astro = [step |-> "idle", shown |-> None]
    /\ site = [built |-> FALSE, fresh |-> FALSE, shown |-> <<>>, files |-> <<>>]
    /\ stirred = FALSE
    /\ dev = Down /\ missed = FALSE
    /\ command \in {"build", "dev"}
    /\ changes = 0

Change ==
    /\ changes < MaxChanges
    /\ changes' = changes + 1
    /\ site' = [site EXCEPT !.fresh = FALSE]

(* watchFigures(): an event of a figure's JSON, and of no other file, starts *)
(* the delay again.                                                          *)
OnEvent == dev' = [dev EXCEPT !.timer = @ \/ dev.state = "up"]

WriteJson(s) ==
    /\ json' \in {[json EXCEPT ![s] = v] : v \in (Versions \cup {None}) \ {json[s]}}
    /\ Change
    /\ OnEvent
    /\ stirred' = (stirred \/ astro.step # "idle")
    /\ missed' = (missed \/ dev.state = "set up")
    /\ UNCHANGED <<svg, own, page, store, astro, command>>

WriteSvg(s) ==
    /\ svg' \in {[svg EXCEPT ![s] = v] : v \in (Versions \cup {None}) \ {svg[s]}}
    /\ Change
    /\ UNCHANGED <<json, own, page, store, astro, stirred, dev, missed, command>>

EditPage ==
    /\ page' \in Pages \ {page}
    /\ Change
    /\ UNCHANGED <<outputs, own, store, astro, stirred, dev, missed, command>>

-------------------------------------------------------------------------------
\* mistake: of the names only.
Names == [s \in Slugs |-> json[s] # None]

(* figuresDigest(): of the bytes of every figure JSON there is.              *)
Digest == json

(* 'astro:config:setup': the plugin's options carry the digest, and Astro    *)
(* drops the pages of its store when its configuration has changed.          *)
ConfigSetup ==
    /\ command = "build" /\ astro.step = "idle"
    /\ astro' = [step |-> "set up", shown |-> None]
    /\ store' = IF Digest = store.digest THEN store
                ELSE [digest |-> Digest, page |-> None, shown |-> None]
    /\ site' = [built |-> FALSE, fresh |-> TRUE, shown |-> <<>>, files |-> <<>>]
    /\ UNCHANGED <<outputs, own, page, stirred, dev, missed, command, changes>>

(* replaceFigures() and figureNode(): the html of each fence's JSON.         *)
Replaceable == \A i \in DOMAIN page : json[page[i]] # None
Replaced == [i \in DOMAIN page |-> [slug |-> page[i], html |-> json[page[i]]]]

(* A page whose bytes are those of the store is not rendered again.  A fence *)
(* without a JSON throws: an .mdx page fails the build, an .md page is built *)
(* without its content.                                                      *)
Reuse ==
    /\ astro.step = "set up"
    /\ store.page = page
    /\ astro' = [step |-> "rendered", shown |-> store.shown]
    /\ UNCHANGED <<outputs, own, page, store, site, stirred, dev, missed, command, changes>>

Render ==
    /\ astro.step = "set up"
    /\ store.page # page
    /\ IF Replaceable
       THEN /\ astro' = [step |-> "rendered", shown |-> Replaced]
            /\ store' = [store EXCEPT !.page = page, !.shown = Replaced]
       ELSE /\ astro' \in {[step |-> "idle", shown |-> None], [step |-> "rendered", shown |-> <<>>]}
            /\ store' = [store EXCEPT !.page = None, !.shown = None]
    /\ UNCHANGED <<outputs, own, page, site, stirred, dev, missed, command, changes>>

(* 'astro:build:done', publish(): a file the site holds already is kept.     *)
Published == [s \in Slugs |-> IF s \in own THEN "own" ELSE svg[s]]
BuildDone ==
    /\ astro.step = "rendered"
    /\ site' = [built |-> TRUE, fresh |-> site.fresh, shown |-> astro.shown, files |-> Published]
    /\ astro' = [step |-> "idle", shown |-> None]
    /\ UNCHANGED <<outputs, own, page, store, stirred, dev, missed, command, changes>>

-------------------------------------------------------------------------------
(* The development server is started, or restarted: the setup reads the      *)
(* digest, and later 'astro:server:setup' begins to watch.                   *)
DevSetup ==
    /\ command = "dev" /\ dev.state \in {"down", "restarting"}
    /\ dev' = [state |-> "set up", digest |-> Digest, timer |-> FALSE]
    /\ UNCHANGED <<outputs, own, page, store, astro, site, stirred, missed, command, changes>>

ServerSetup ==
    /\ dev.state = "set up"
    /\ dev' = [dev EXCEPT !.state = "up"]
    /\ UNCHANGED <<outputs, own, page, store, astro, site, stirred, missed, command, changes>>

(* The figures have been quiet for RESTART_DELAY_MS.  A restart that fails   *)
(* is logged, and the old server goes on.                                    *)
Restart ==
    /\ dev.state = "up" /\ dev.timer
    /\ dev' \in {[dev EXCEPT !.state = "restarting", !.timer = FALSE],
                 [dev EXCEPT !.state = "failed", !.timer = FALSE]}
    /\ UNCHANGED <<outputs, own, page, store, astro, site, stirred, missed, command, changes>>

DevStop ==
    /\ dev.state \in {"up", "failed"}
    /\ dev' = Down
    /\ UNCHANGED <<outputs, own, page, store, astro, site, stirred, missed, command, changes>>

Next ==
    \/ \E s \in Slugs : WriteJson(s) \/ WriteSvg(s)
    \/ EditPage
    \/ ConfigSetup \/ Reuse \/ Render \/ BuildDone
    \/ DevSetup \/ ServerSetup \/ Restart \/ DevStop

Spec == Init /\ [][Next]_vars

-------------------------------------------------------------------------------
(* figureErrors(): the built page holds the figures its fences name, in      *)
(* their order, and each image is a file of the site.                        *)
SitePasses ==
    /\ site.built
    /\ DOMAIN site.shown = DOMAIN page
    /\ \A i \in DOMAIN page : site.shown[i].slug = page[i] /\ site.files[page[i]] # None

(* Where `site` passes for a site built since the last edit, its page shows  *)
(* what the figures' JSON says now, although Astro renders only pages that   *)
(* have changed, unless a JSON was ever written under a site build; and the  *)
(* images are the committed ones, but those the site holds itself            *)
(* (astro.mjs:27-31).  A development server that has nothing to restart for  *)
(* has read the figures as they are, unless one changed before it watched or *)
(* its restart failed.                                                       *)
ShowsCurrentFigures ==
    /\ SitePasses /\ site.fresh /\ ~stirred => \A i \in DOMAIN page :
        /\ site.shown[i].html = json[page[i]]
        /\ page[i] \notin own => site.files[page[i]] = svg[page[i]]
    /\ dev.state = "up" /\ ~dev.timer /\ ~missed => dev.digest = Digest
==============================================================================
