------------------------------ MODULE Packages -------------------------------
(* The modules that need neither fairness nor symmetry, side by side: the    *)
(* provider's credentials, the bearer tokens, the query cache, the emulator  *)
(* loader, the sign-in, the AI gateway, the stores over a shared document,   *)
(* the flow graph, the overlays and data views of the user interface, and    *)
(* the media components.  They share no state; constants and variables that  *)
(* two of them share a name of are renamed.                                  *)
EXTENDS ProviderAuth, AuthMiddleware, Sequences, FiniteSets

CONSTANTS
    Mutations, Plain, MaxRetries, Absent,                        \* see QueryCache
    Mounts, Keys, Required, Optional(_), Playable, Nobody,       \* see EmulatorLoader
    Tabs, MaxSignIns, MaxTokens,                                 \* see SignIn
    Proxied, Streaming, Audited, Chunks, Empty, MaxEvents,       \* see AiGateway
    Items, Slots, People, Me, Nothing, MaxLength,                \* see CollabStores
    MaxId, MaxEdges,                                             \* see FlowGraph
    Commands, Queries, Blank, Words, Opens, PageElements, Apple, \* see Overlays
    Rows, Columns, Cell, Sortable, Filterable, Needles,          \* see DataViews
    RowHeight, ClientHeight, MaxItems, MaxPages,
    SeekStep, MaxTime, Loudest, Renditions, Scale, Widths,       \* see Media
    Slides, SlideWidth, Gap, PageWidth

VARIABLES
    reconciles, remote, cache, fetch, failing, mutations, previous, alone, outrun,
    overlaps, hasMount, mounts, globals, attached, loading, booted,
    rethrows, signIns, live, tokens, expired, jar, tab, request,
    proxying, events, assembled, given, log, browser,
    kind, excludeLocal, content, inTransaction, unsaid, stage, snapshot, missed,
    nodes, edges, task, indegree, ready, order, root, frames, visited, stack,
    cycles, start, queue, reached, steps, answer,
    dismissible, inner, registry, query, active, open, dialog, shown, focus,
    returnFocus, landing, before, strayed, moved, sunk,
    mounted, rows, tableState, count, overscan, scrollTop, viewportHeight,
    focusIndex, position, followed,
    medium, player, viewType, tracks, autoplay, paused, time, duration, volume, silent,
    muted, native, unmuted, rewired, late, widths, loaded, pictured, offset, aim,
    presses, status, renditionId, instances, offered, limit

Query == INSTANCE QueryCache WITH server <- remote, phase <- mutations
Loader == INSTANCE EmulatorLoader WITH phase <- mounts
Auth == INSTANCE SignIn
Ai == INSTANCE AiGateway WITH Requests <- Proxied, phase <- proxying
Collab == INSTANCE CollabStores
Flow == INSTANCE FlowGraph
Ui == INSTANCE Overlays
Data == INSTANCE DataViews
Film == INSTANCE Media WITH mounted <- player

-------------------------------------------------------------------------------
(* The properties, each stated and explained in its module.                  *)
Reconciled == Query!Reconciled
FindsItsOwn == Loader!FindsItsOwn
ActsForItsPage == Auth!ActsForItsPage
AuditIsTrue == Ai!AuditIsTrue
ShowsDocument == Collab!ShowsDocument
AnswersRight == Flow!AnswersRight
RightTarget == Ui!RightTarget
ShowsEveryRow == Data!ShowsEveryRow
ShowsMedia == Film!ShowsMedia
==============================================================================
