----------------------------- MODULE MCPackages ------------------------------
(* An instance of Packages for TLC: one run checks its modules side by side. *)
(* `part` names the one that moves, the others rest in their first state.    *)
EXTENDS Packages

CONSTANTS
    e1, e2, e3, e4,                   \* emulator: mounts, e4 of an unknown core
    copy, cut, quit                   \* ui: commands

VARIABLES
    part

queryVars == <<reconciles, remote, cache, fetch, failing, mutations, previous, alone, outrun>>
loaderVars == <<overlaps, hasMount, mounts, globals, attached, loading, booted>>
aiVars == <<proxying, events, assembled, given, log, browser>>
flowVars == <<nodes, edges, task, indegree, ready, order, root, frames, visited, stack,
              cycles, start, queue, reached, steps, answer>>
authVars == <<rethrows, signIns, live, tokens, expired, jar, tab, request>>
uiVars == <<dismissible, inner, registry, query, active, open, dialog, shown, focus,
            returnFocus, landing, before, strayed, moved, sunk>>
dataVars == <<mounted, rows, tableState, count, overscan, scrollTop, viewportHeight,
              focusIndex, position, followed>>
collabVars == <<kind, excludeLocal, content, inTransaction, unsaid, stage, snapshot, missed>>
mediaVars == <<medium, player, viewType, tracks, autoplay, paused, time, duration, volume, silent,
               muted, native, unmuted, rewired, late, widths, loaded, pictured, offset, aim, presses,
               status, renditionId, instances, offered, limit>>

-------------------------------------------------------------------------------
MCOptional(m) == CASE m = e1 -> {"bios"} [] m = e2 -> {"name"} [] OTHER -> {}

(* "cut" is one title and begins or skips through others; "t" is the end of  *)
(* one keyword, the subtitle of one command and inside the title of another. *)
Compares(c, q) ==
    CASE q = "cut" -> [title |-> IF c = cut THEN "is" ELSE IF c = copy THEN "no" ELSE "subsequence",
                       subtitle |-> FALSE, keywords |-> IF c = copy THEN <<"starts">> ELSE <<>>]
      [] q = "t" /\ c = copy -> [title |-> "no", subtitle |-> TRUE, keywords |-> <<>>]
      [] q = "t" /\ c = cut -> [title |-> "subsequence", subtitle |-> FALSE, keywords |-> <<"no", "includes", "is">>]
      [] OTHER -> [title |-> "includes", subtitle |-> FALSE, keywords |-> <<>>]
MCWords == [c \in {copy, cut, quit} |-> [q \in {"", "cut", "t"} |-> Compares(c, q)]]

(* One column sorts, both are searched; b has no value in the one that sorts. *)
Cells(r, c) == CASE c = "size" -> IF r = "b" THEN 0 ELSE 2 [] OTHER -> IF r = "c" THEN 1 ELSE 3
MCCell == [r \in {"a", "b", "c"} |-> [c \in {"size", "kind"} |-> Cells(r, c)]]

(* A bitrate of 5 outweighs a line of height, as one of megabits would.      *)
MCRenditions == [height : {Absent, 1, 2}, bitrate : {1, 5}, preferred : BOOLEAN]

Rests(p) == part # p

MCInit ==
    /\ part \in {"provider", "query", "emulator", "ai", "flow", "auth", "api", "ui", "data", "collab", "media"}
    /\ Rests("provider") => session = None /\ usesProtocol = FALSE
    /\ Rests("query") => reconciles = TRUE /\ cache = Absent
    /\ Rests("emulator") => overlaps = TRUE /\ hasMount = TRUE
    /\ Rests("api") => oldest = 0
    /\ Rests("auth") => rethrows = FALSE
    /\ Rests("ui") => dismissible = TRUE /\ inner = <<>>
    /\ Rests("data") => mounted = "table" /\ overscan = 0
    /\ Rests("collab") => kind = "array" /\ excludeLocal = FALSE /\ content = <<>>
    /\ Rests("media") => medium = "headless"
    /\ Init /\ Query!Init /\ Loader!Init /\ Ai!Init /\ Flow!Init /\ Auth!Init /\ ApiInit /\ Ui!Init /\ Data!Init
    /\ Collab!Init /\ Film!Init

Moves(p) ==
    /\ part = p
    /\ UNCHANGED part
    /\ Rests("provider") => UNCHANGED vars
    /\ Rests("query") => UNCHANGED queryVars
    /\ Rests("emulator") => UNCHANGED loaderVars
    /\ Rests("ai") => UNCHANGED aiVars
    /\ Rests("flow") => UNCHANGED flowVars
    /\ Rests("auth") => UNCHANGED authVars
    /\ Rests("api") => UNCHANGED apiVars
    /\ Rests("ui") => UNCHANGED uiVars
    /\ Rests("data") => UNCHANGED dataVars
    /\ Rests("collab") => UNCHANGED collabVars
    /\ Rests("media") => UNCHANGED mediaVars

MCNext ==
    \/ Moves("provider") /\ Next
    \/ Moves("query") /\ Query!Next
    \/ Moves("emulator") /\ Loader!Next
    \/ Moves("ai") /\ Ai!Next
    \/ Moves("flow") /\ Flow!Next
    \/ Moves("auth") /\ Auth!Next
    \/ Moves("api") /\ ApiNext
    \/ Moves("ui") /\ Ui!Next
    \/ Moves("data") /\ Data!Next
    \/ Moves("collab") /\ Collab!Next
    \/ Moves("media") /\ Film!Next

MCSpec ==
    MCInit /\ [][MCNext]_<<part, vars, queryVars, loaderVars, aiVars, flowVars, authVars, apiVars, uiVars,
                       dataVars, collabVars, mediaVars>>
==============================================================================
