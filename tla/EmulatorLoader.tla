---------------------------- MODULE EmulatorLoader ---------------------------
(* injectEmulatorScript of packages/emulator/src/loader.ts, and the $effect  *)
(* of Emulator.svelte that calls it and its cleanup: components that share   *)
(* the page's EJS_* globals and one <script> element, and the script, which  *)
(* reads the globals whenever the browser gets round to running it.          *)
EXTENDS Naturals, FiniteSets

CONSTANTS
    Mounts,         \* runs of the $effect
    Keys,           \* the EJS_* names
    Required,       \* those buildEmulatorConfig always sets
    Optional(_),    \* those a mount's options add (biosUrl, gameName, extra)
    Playable,       \* mounts whose `core` resolveCore() knows
    Nobody

VARIABLES
    overlaps,       \* a page mounts one emulator before it drops another
    hasMount,       \* the document has a <body> or <head>
    phase,          \* what became of each mount
    globals,        \* which mount wrote each global, or Nobody
    attached,       \* the script elements in the document
    loading,        \* the scripts the browser still has to run
    booted          \* what each script found in the globals when it ran

vars == <<overlaps, hasMount, phase, globals, attached, loading, booted>>

Phases == {"new", "mounted", "unknown", "failed", "gone"}

(* The keys of config.globals for a mount.                                   *)
Globals(m) == Required \cup Optional(m)

(* What a script of m should find: its own keys, and nothing else.           *)
Own(m) == [k \in Keys |-> IF k \in Globals(m) THEN m ELSE Nobody]

Init ==
    /\ overlaps \in BOOLEAN
    /\ hasMount \in BOOLEAN
    /\ phase = [m \in Mounts |-> "new"]
    /\ globals = [k \in Keys |-> Nobody]
    /\ attached = {}
    /\ loading = {}
    /\ booted = [m \in Mounts |-> Own(m)]

(* No emulator is on the page.                                               *)
Free == \A m \in Mounts : phase[m] # "mounted"

(* What is left of the script elements once the prior one is removed.        *)
PriorRemoved == {}

(* UnknownPlatformError, before anything is touched.                         *)
InjectUnknown(m) ==
    /\ phase[m] = "new"
    /\ m \notin Playable
    /\ overlaps \/ Free
    /\ phase' = [phase EXCEPT ![m] = "unknown"]
    /\ UNCHANGED <<overlaps, hasMount, globals, attached, loading, booted>>

(* injectEmulatorScript(): every global, then the script; a document with    *)
(* neither <body> nor <head> throws after the globals were written.          *)
Inject(m) ==
    /\ phase[m] = "new"
    /\ m \in Playable
    /\ overlaps \/ Free
    /\ globals' = [k \in Keys |-> IF k \in Globals(m) THEN m ELSE globals[k]]
    /\ phase' = [phase EXCEPT ![m] = IF hasMount THEN "mounted" ELSE "failed"]
    /\ attached' = IF hasMount THEN PriorRemoved \cup {m} ELSE PriorRemoved
    /\ loading' = IF hasMount THEN loading \cup {m} ELSE loading
    /\ UNCHANGED <<overlaps, hasMount, booted>>

\* mistake: cleanup clears the globals every mount has, not those it set.
RequiredOnly(m) == Required

(* setKeys: the globals cleanup() deletes, by name.                          *)
SetKeys(m) == Globals(m)

(* cleanup(), when the component goes or its options change.                 *)
Cleanup(m) ==
    /\ phase[m] = "mounted"
    /\ phase' = [phase EXCEPT ![m] = "gone"]
    /\ attached' = attached \ {m}
    /\ globals' = [k \in Keys |-> IF k \in SetKeys(m) THEN Nobody ELSE globals[k]]
    /\ UNCHANGED <<overlaps, hasMount, loading, booted>>

(* The browser runs a script it has fetched, removed from the page or not.   *)
RunScript(m) ==
    /\ m \in loading
    /\ loading' = loading \ {m}
    /\ booted' = [booted EXCEPT ![m] = globals]
    /\ UNCHANGED <<overlaps, hasMount, phase, globals, attached>>

Next ==
    \E m \in Mounts : InjectUnknown(m) \/ Inject(m) \/ Cleanup(m) \/ RunScript(m)

Spec == Init /\ [][Next]_vars

-------------------------------------------------------------------------------
(* However often the component is mounted, re-run and dropped, the page has  *)
(* one loader script at most; and on a page that drops one emulator before   *)
(* it mounts the next, a script that runs while its emulator is mounted      *)
(* finds exactly the globals of its own options: no BIOS, name or override   *)
(* of an emulator before it (loader.ts:178-187).  With two on a page at once *)
(* the second part is false: cleanup() deletes by name.                      *)
FindsItsOwn ==
    /\ Cardinality(attached) <= 1
    /\ \A m \in Mounts :
        phase[m] = "mounted" /\ ~overlaps => globals = Own(m) /\ booted[m] = Own(m)
==============================================================================
