# A verification of sveltesentio

TLA+ models of the parts of this monorepo whose correctness is a matter of
order: clients that reconnect, queues of waiting calls, callbacks that call
back, loops that outlive the call that was meant to end them, checks whose
verdict must mean something. Each model is translated from the TypeScript and
Svelte under `packages/` or from the scripts under `tools/` and `scripts/`,
checked by TLC on small instances, and, for twenty-five of them, proved about with
TLAPS for every value of their constants.

    tlc -workers 2 -config ConnectStream.cfg MCConnectStream   # one run
    tlapm ConnectStream_proofs.tla                             # one proof

`PROJECT.json` ties it together: which definition models which lines (`map`),
what each run checks (`runs`), a plausible bug that each property finds
(`mutants`), where the code is exposed (`hazards`), where it departs from what
its docs say (`findings`), and what is proved (`theorems`).

Contents: [the system](#1-the-system) · [how the code is
modelled](#2-how-the-code-is-modelled) · [module by module](#3-module-by-module)
· [runs and bounds](#4-the-runs-and-their-bounds) · [fairness](#5-fairness) ·
[proofs](#6-the-proofs) · [where code and docs disagree](#7-where-the-code-and-its-documentation-disagree)
· [what is not modelled](#8-what-is-not-modelled) · [plan](#9-plan)

## 1. The system

sveltesentio is a library of SvelteKit packages with no process of its own,
together with the scripts that guard its documents, figures, packages and
workflows. A package's state lives in the browser tab (or, for `ipc-sockmap` and
the hooks, in a Node process) that imports it, on one JavaScript thread; where
there are others (a web worker, the rule's worker, the gate's children) they
share nothing and send messages. What makes it hard is therefore never a data
race but *when* things run: a handler that was suspended at an `await`, a timer
that was armed before `close()`, a callback of the application that calls the
object it is called from; and, for the scripts, what changes between the moment
they look and the moment their verdict is used.

| Component | State it keeps | Operations | Talks to | Hard part | Correct if |
|---|---|---|---|---|---|
| `realtime` streaming machine (`connect-stream.ts`, `reconnect-scheduler.ts`, `backoff.ts`) | state, run token, controller, attempt, retry timer | `start`, `stop` | a Connect-RPC stream, the consumer's callbacks, timers | superseded loops, calls from callbacks, microtask between two awaits | one attempt per token; stopped is stopped; nothing late is delivered; streams are cancelled |
| `realtime` SSE client (`sse-client.ts`) | state, source, attempt, retry timer | `start`, `close` | `EventSource`, callbacks, timers | same, without a token | one feed; state matches the work; closed is closed |
| `realtime` SSE hook (`use-sse.svelte.ts`, `stream-status`, `message-buffer`, `bounded-history`, `buffered-emitter`) | reactive cells, history, batch | `connect`, `close` | the SSE client, the component | throttle timer against close; history at its limit | the cells agree with the client; no message lost or reordered |
| `ipc-sockmap` client (`client.ts`, `pending-queue.ts`, `transport.ts`) | FIFO of waiters, timers, decoder buffer, failure | `request`, `close` | a Unix socket | answers without ids, timeouts, partial frames, error then close | each promise settled once, by its own answer |
| `uploads` (`resumable.ts`, `tus-launcher.ts`) | state, current tus upload | `start`, `pause`, `resume`, `abort` | dynamic import, tus-js-client, server | calls during the import | one upload; pause pauses; resume continues |
| `ai` chat (`client.svelte.ts`) | messages, streaming, error, controller | `send`, `stop`, `reset` | an async-iterable transport | several `send` loops alive at once | flag belongs to the current reply; replies do not mix |
| `flow` layout worker (`layout-worker.ts`) | ids, listeners | `layout`, `terminate` | a Web Worker | answers in any order, crashes | each layout settled once, by its own result |
| `api` auth middleware (`auth-middleware.ts`) | none but the token store | `onRequest`, `onResponse` | token store, refresh endpoint, API | several refreshes at once | a retry carries a newer token |
| `collab` provider (`provider.ts`) | provider params and protocols, binding | `connectProvider`, `bindProviderAuth`, `disconnect` | y-websocket | token resolved at one time, used at another | a dial carries the current token |
| `query` (`mutation.ts`, `connect-query.ts`, `query-client.ts`) | a cache entry, the snapshots of mutations | queries, optimistic and plain mutations | TanStack Query, the server | overlapping mutations that roll back, lost answers | what is left at the end is what the server holds |
| `emulator` loader (`loader.ts`, `Emulator.svelte`) | global variables of the page, one `<script>` | mount, re-run, cleanup | EmulatorJS's loader script | a script that runs after its emulator has gone | a script finds its own options and no others |
| `ai` gateway (`proxy.ts`, `server.ts`, `audit.ts`) | text assembled, the log | `complete`, `stream`, `record` | browser, route, provider, sink | failing and leaving at any chunk | the log holds what was delivered, once |
| `flow` graph (`dag.ts`, `nodes.ts`) | nodes, edges, the walks' stacks | create, connect, delete, sort, find cycles, reach | the canvas | dangling, parallel, circular edges | the answers are those of the definitions |
| `auth` (`session-hook.ts`, `csrf-hook.ts`, `csrf.ts`, `oidc.ts`) | cookies, sessions, tokens, per tab | sign in, load, submit, end | the identity provider, the application's routes | tabs that share one cookie jar | a mutation acts for the session of its page |
| `collab` stores (`createYjs*.svelte.ts`, `presence-store.svelte.ts`) | a snapshot, a subscription | mount, write, unmount | Yjs, an awareness | changes between creation and mount, inside transactions | a mounted component shows the document |
| `ui` overlays (`registry.ts`, `keybinding.ts`, `CommandPalette.svelte`, `dialog.ts`, `Dialog.svelte`) | query, highlight, open overlays, focus | keys, pointer, commands | the DOM, Svelte's flush | effects and microtasks between two keys | a key acts on what is highlighted; focus comes back |
| `ui` data views (`model.ts`, `virtual.ts`, `DataTable.svelte`, `VirtualList.svelte`) | table state, scroll state | sort, filter, page, scroll, move | the application's rows, the browser's scroll | rows replaced at any time | every row is shown once; what is in view is rendered |
| `media` (`Player`, `Image`, `Carousel`, `player.ts`) | element state and its copy, load state, where the carousel is and is gliding to, playback machine | keys, native controls, props, renditions | the media element, hls.js | two writers of one value | the copy is true; the picture shows; the last slide is reached |
| Markdown gate (`tools/markdownlint/verify.mjs`) | phase, clock, what was linted | install, inventory, rule, lint, verdict | child processes | deadlines of children within a deadline | exit 0 means linted and free of private links |
| private-link rule (`no-private-scratch-links.mjs`) | requests, a worker, findings | scan, time out, retire | a worker thread | late answers of a retired worker, bounds | the status is about all of the files; nothing is hidden |
| CI pipeline (`ci-affected.mjs`, `ci-gate.mjs`, `ci.yml`) | outputs, results | detect, run, skip, cancel, gate | GitHub | a skipped job counts as a success | green means checked |
| documentation figures (`tools/figures/`) | specs, committed outputs, a site | build, check, refresh, serve | Astro, MkDocs, the engine | builds broken off, caches, several readers of one file | a check that passes means the page shows the figure |
| package checks (`check-import-cycles`, `check-declared-imports`, `check-package-archives`, `pin-peer-floors`) | a search, floors | walk, pack, view, install, verify | pnpm, npm, dependency-cruiser | a registry that grows meanwhile | what passes can be installed |
| workflow checks (`check-platform-legs`, `check-job-timeouts`, `check-playwright-image`, `scorecard-threshold`) | findings, attempts | read, report, fetch | GitHub, api.scorecard.dev | rules that hold only across files | what passes is enforced |
| `forms`, `shell`, `charts`, `i18n`, `mcp`, `core`, `testing`, apps | see section 8 | | | | |

The components interact little. `MarkdownGate` runs the private-link rule, which
is two models: `PrivateLinkScan` (the protocol between its threads) and
`LinkScanner` (one document); its globs are `StyleGlobs`. `FigureSite` takes the
files that `Figures` builds, and `SitePages` what a generator made of them.
The hooks wrap the clients (`useSSE` drives an `SseClient` and a message buffer; modelled as a composition). The two callers
of another party that answers, `IpcClient` and `LayoutWorker`, owe their
callers the same thing, which is the abstract specification `RequestResponse`.

## 2. How the code is modelled

**A step is what JavaScript runs without giving way**: a call, an event
handler, a timer, a continuation after an `await`. Where such a step invokes a
callback of the application in its middle, the step ends there, because the
application may call the object again. `ConnectStream` and `SseClient` keep the
part of the call stack that matters in `stack`: one frame per callback that is
running, with the statement the code goes on with when it returns (`at`).
Events, timers and microtasks wait until the stack is empty; the consumer's
calls do not. Where the callback is the last thing a handler does
(`ResumableUpload`), a call from it is simply the next step and there is no
stack.

**What is assumed is named.** Several guarantees hold only for an application
that refrains from something. There are three ways to say so. What is given at
construction is a *rigid variable*, chosen in `Init`, so that one run covers
every choice. What the application may do too early is a *history variable*
that records that it has, so that the steps are all there and the property says
what it is worth. What would change nearly every property of a module is a
constant.

| Name | Module | Says |
|---|---|---|
| `Callbacks` (constant) | ConnectStream, SseClient | the callbacks from which the application calls the machine again |
| `MicrotaskCalls` (constant) | ConnectStream | may it call between the microtask that ends `drainStream` and the one that resumes `runAttempt`? |
| `Timed`, `Closes` (constants) | IpcClient | is a timeout set; is `close()` called? |
| `Cooperative` (constant) | LLMChat | does the transport heed its abort signal? |
| `hasty`, `displaced` (history) | LLMChat | a `send()` was made before an earlier one had settled; the sends whose turn a `reset()` removed while they were read |
| `buffered` (rigid) | MessageBuffer, UseSse | is `bufferMs` set? |
| `thrown`, `crossed` (history) | SseClient | the factory threw when it was last asked; `close()` has been called from a handler that was half way |
| `injected`, `uploadUrl` (rigid) | ResumableUpload | options given |
| `usesProtocol` (rigid) | ProviderAuth | does the token travel as a subprotocol too? |
| `overlapped` (history) | ResumableUpload | the application has begun again during an import |
| `thrown` (history) | ResumableUpload | the last constructor threw |
| `unposted` (history) | LayoutWorker | calls whose graph could not be cloned |
| `overlapped` (history) | AuthMiddleware | a refresh has begun before another had ended |
| `stale` (history) | ProviderAuth | the token has changed since it was resolved, with nothing connected |
| `reconciles` (rigid); `alone`, `outrun` (history) | QueryCache | is the key invalidated on settling; has a mutation overlapped with anything; did the last invalidation find no data and a fetch that already had its answer? |
| `overlaps`, `hasMount` (rigid) | EmulatorLoader | are two emulators on the page at once; is there a `<body>`? |
| `rethrows` (rigid) | SignIn | `onResolveError` |
| `strayed`, `moved`, `sunk` (history) | Overlays | a click or the palette took the focus from the dialog; the user moved the highlight, or moved it in an empty list |
| `followed` (history) | DataViews | the last move in the list was a key, not the wheel |
| `kind`, `excludeLocal` (rigid), `missed` (history) | CollabStores | which store; a change came between its creation and its effect |
| `medium` (rigid); `native`, `unmuted`, `rewired`, `late` (history) | Media | which component; the native controls were used, the user has unmuted, the captions were changed or autoplay turned on after the mount |
| `persists` (rigid) | PrivateLinkScan | does the caller go on after a file that failed? |
| `gaps` (history) | Figures | a spec was edited between the two reads of one build |
| `stirred`, `missed` (history) | FigureSite | a JSON was written under a site build; a change came before the server watched, or a restart failed |

Section 7 says what the code does where an assumption fails.

**Data** is reduced to what the properties tell apart. A message is a number in
the order of arrival, a chunk is named by the `send()` that reads it, a
response by the request it answers, a token by its age. Frames may be cut at
any byte; the decoder's buffer can only tell whether it is inside a frame, so a
frame arrives in at most two parts. Delays of `computeBackoff` are not
modelled: an armed timer goes off at some time or, without fairness, never. The
deadlines of the tools are the exception: `MarkdownGate` counts time, because its property is
that all of them fit into one. What a tool reads is abstracted the same way: a
name is the set of patterns that match it, a document is the tree that its
parser makes of it, a hash is the thing hashed, a built page is the sequence of
tags that its check tells apart.

**Definitions marked "mistake"** stand just before the definition they get
wrong. They are used by nothing in the model; each is a plausible bug
(a dropped check, a forgotten reset, a wrong end of a queue) under which the
property named in `PROJECT.json` must fail. That is how each property is known
to say something about the code.

## 3. Module by module

### ConnectStream - `packages/realtime/src/connect-stream.ts`, `reconnect-scheduler.ts`

State: `current`, `runToken`, `controller`, `attempt`, `handle` are the fields of
the machine and of its scheduler. A *run* is one call of `runAttempt`; `phase`,
`token` and membership in `aborted` are what the code holds in that call's
locals and closure.

| Action | Code |
|---|---|
| `Start`, `Stop` | `start()`, `stop()` up to their callback |
| `Open`, `OpenThrows` | `consume()` and the call of the stream factory, once `onStateChange('streaming')` has returned |
| `Deliver(r)`, `Complete(r)`, `Fail(r)` | the `for await` loop of `drainStream`: a value, its end, a throw (`Catch`) |
| `Close(r)`, `AnnounceClose` | the continuation of `runAttempt` with the result of `drainStream` |
| `ScheduleReconnect`, `Arm` | the catch block after `onError`, the scheduler's `schedule` after `onStateChange` |
| `Fire(r)` | the retry timer with its check of the token |
| `Return` | a callback returns and nothing is left to do in its caller |

`Complete` and `Close` are separate because `drainStream` is itself `async`:
its result is used one microtask after it was computed.

Properties. `OneRunPerToken`: an attempt and the retry that follows it never
exist side by side. `NoLeakedStream`: every superseded stream has been told to
cancel. `StopIsFinal`, `StreamingMeansWork` (liveness): closed stays closed;
streaming gets back to a stream. `DeliversCurrent` (an action property): a message
is handed over by the attempt whose controller is held and not aborted, on a
machine that is started; a superseded or stopped stream that yields late is ignored.

### SseClient - `packages/realtime/src/sse-client.ts`

The same service without run tokens: what `start()` and `close()` undo is what
the fields `source` and `reconnectHandle` point to. `feed` and `armed` say which
sources and timers are really there; the properties relate the two. Actions:
`Start`, `Close`; `Dial`, `AnnounceOpen`, `Teardown`, `Arm`, `Return` resume after a
callback; `DialThrows` is a factory that throws, which leaves the handlers on the
stack up to a callback that catches; `HandleOpen`, `HandleMessage`, `HandleError`,
`Fire` are the events.

Properties. `StateIsTrue` is three: no source is listened to but the one the
client holds (`OneFeed`); 'open' has a source, 'connecting' a source or a timer
and not both, neither if the factory has thrown, from which only `close()`
recovers (`StateMatchesWork`); after `close()` neither, until `start()`
(`CloseIsFinal`). The consumer calls from every callback. Two of the points it may
call from lie in the middle of a handler that goes on to dial or to arm a timer:
`onStateChange('connecting')`, in `connect()` and in `scheduleReconnect()`, and
`onError`. A `close()` from there is undone by the rest of the handler (section 7);
`crossed` records that there was one, and from then on nothing is claimed.
`KeepsConnecting` (liveness) has no such exception.

### UseSse, MessageBuffer - `use-sse.svelte.ts`, `stream-status.svelte.ts`, `message-buffer.svelte.ts`, `bounded-history.ts`, `buffered-emitter.ts`

`UseSse` is a composition: it extends `SseClient`, which it calls between two tasks
only (the hook's callbacks never call the client, so `Callbacks` plays no part), and
has `Buffer == INSTANCE MessageBuffer`. A cell is written in the step that invokes the
callback writing it: `Called` is the callback a step of the client pushes. Actions of
`HookNext`: `Connect`, `Unmount` (the hook's close), `Proceed`, `Event`, `Flush`.

Properties: `NothingLost` is three: the cells are what the client is (`CellsAgree`:
the state cell equals the client's state, no error is shown while it is open, and the
attempt cell is the number the last error came with, one less than the client's own
counter, for nothing but an error writes it); a hook that was closed shows 'closed'
and has no source, retry or flush left that could change what it shows
(`QuietOnceClosed`); and history and batch hold the newest messages, in order and as
many as the limit keeps, the last message being the history's end. The third is about
a throttle that was not stopped, for `close()` stops it for good.
`EveryMessageShown` (liveness) is for the throttle.

### IpcClient - `packages/ipc-sockmap/src/client.ts`, `pending-queue.ts`, `transport.ts`

State: `queue`, `timers`, `failure` are `PendingQueue`, `closed` and `decoder` the
client's; `status` and `answer` are the promises; `socket`, `peerEnded`, `toServer`,
`toClient` the socket and an in-order server. Actions: `Request`, `RequestRefused`
(already failed or closed), `RequestUnwritten` (the write throws), `Timeout`,
`Close`; `DataPart`, `Data`, `GarbledData`, `BadData` for the frame decoder;
`SocketError`, `SocketClose`; `Serve`, `PeerEnd` for the other side.

Properties. `Bookkeeping`: queue, timers and pending promises are the same set.
`PromisesKept`: the client implements `RequestResponse`, so that each request is
settled once and gets its own response (`AnswersMatch`). `EveryRequestSettles`
(liveness).

### ResumableUpload - `packages/uploads/src/resumable.ts`, `tus-launcher.ts`

State: `state` of the handle, `imports` under way, `tus` (the upload the launcher
can still reach), and for each upload its `transfer` and `offset`; `stored` is what
the server holds at `options.uploadUrl`. Actions: `Start`, `Pause`, `Resume`, `Abort`;
`Loaded`, `LoadFails` (the dynamic import settles and asks `shouldProceed`);
`Accept`, `Succeed`, `Fail` (tus and the server).

Properties: `TransfersAsAsked`: until the application has begun again during an
import, one upload at most transfers (`OneTransfer`) and none while paused
(`PauseStopsTransfer`), and a handle that says it uploads has an upload or an import
under way unless a constructor throws (`UploadingMeansWork`). `ResumeContinues` (with `options.uploadUrl`): every upload after the first
continues, under a server that keeps what it was sent.

### LLMChat - `packages/ai/src/client.svelte.ts`

State: `turns`, `streaming`, `error`, `controller` are the store; `phase`, `slot`,
`aborted` belong to the loop of each `send()`. Actions: `Send`, `Stop`, `Reset`,
`Chunk`, `End`, `Throw`; the last two end with `Finally`. A chunk of a stream whose
reply is gone writes nothing, one whose index has been reused writes there.

Any number of loops may read at once: `stop()` and `reset()` set the flag down and
the next `send()` may come before the old loop has noticed. Properties.
`StreamingIsHeld`: the flag is only up for a loop that nobody has ended and whose
controller is held, so that `stop()` reaches it; and until a `send()` was ever made
before an earlier one settled (`hasty`), the flag is up whenever there is such a loop.
`RepliesPure`: a reply consists of chunks of its own send, whatever streams are read
beside it, but for those in `displaced`, whose turn a `reset()` removed.

### LayoutWorker - `packages/flow/src/layout-worker.ts`

Both ends and both channels. `Layout`, `LayoutRefused` (after terminate),
`LayoutThrows` (`postMessage` throws in the executor), `OnMessage` (each response is
dispatched to every listener, which compares ids), `OnError` (rejects all that
listen), `Terminate`; in the worker `Handle` and `Finish`, with any number of
layouts suspended. Properties: `LayoutsNeverCross` (implements `RequestResponse`),
`ListenersScoped`, `EveryLayoutSettles` (liveness).

### AuthMiddleware - `packages/api/src/auth-middleware.ts`

Requests that share a token store. `OnRequest` decorates; `Accept`,
`OnUnauthorized`, `SecondUnauthorized` are the server's answers; `Mint`,
`RefreshFails`, `SetToken`, `Retry`, `CloneThrows` the steps of `onResponse` between
its awaits; `Expire` is the server's. Tokens are numbered as minted. Properties:
`RetryIsFresher`. Proved besides: `OneRefreshIsEnough` (a request that ends
unauthorized was retried with a token the server has dropped since) and
`StoreKeepsNewest`, until refreshes have overlapped.

### ProviderAuth - `packages/collab/src/provider.ts`

`ConnectProvider`, `Disconnect`, `Apply` (what `resolveAuthParams` and the binding's
listener assign) over y-websocket's `Connect`, `Pause`, `Drop`, `Redial`; `Rotate` is the
application's resolver changing its mind. Properties compare what the last dial
carried with the resolver's token at that time: `DialsWithCurrentToken` (if there
is a token and it has not changed since it was resolved).

### RequestResponse - abstract

What a call that returns a promise owes its caller: settled at most once, with
the answer to this call and no other. `IpcClient` (without timeouts and close)
and `LayoutWorker` (always) implement it; TLC checks both refinements and TLAPS
proves both.

### QueryCache - `packages/query/src/mutation.ts`, `connect-query.ts`, `query-client.ts`

One entry of the cache; a value is the set of the mutations it shows. The query:
`Refetch`, `Read` (the server is read), `Fetched`, `FetchFails` (with the retry policy).
A mutation: `Mutate` (cancels the fetch) and `Apply` (takes the snapshot and writes,
after the await), or `MutatePlain`; `ServerApplies`, `ServerRefuses`, with the answer
lost or not; `RollBack`, `Settle`. What `Settle` invalidates is dropped and fetched
anew, unless the entry has no data: then TanStack joins the fetch under way
(`Joins`). `Reconciled`: once all are settled and the last
refetch is back, the entry is what the server holds, whatever rolled back over
what, unless the last invalidation joined a first fetch whose answer was already
on its way (`outrun`); and a mutation that overlaps with nothing shows its value until
it is settled and, if there was data before, leaves no trace when it fails.

### EmulatorLoader - `packages/emulator/src/loader.ts`, `Emulator.svelte`

`Inject` (of a known core) and `InjectUnknown`, `Cleanup`, and `RunScript`, the browser's
turn, which may come after the emulator has gone. `FindsItsOwn`: there is one
script at most, and what runs finds exactly its own globals, on a page that drops
one emulator before it mounts the next.

### AiGateway - `packages/ai/src/proxy.ts`, `server.ts`, `audit.ts`

The browser's `Post`, `Abort`, `Respond`; `ProviderCompletes`, `ProviderThrows` for a
completion; `Open`, `Event`, `Break`, `End` for a stream, which its caller may leave at
any chunk; `Finish`, `RecordThrows` for the audit. `AuditIsTrue`: what the caller saw
end has one record with its text, all else has none, and no browser has an answer
before its record is written.

### FlowGraph - `packages/flow/src/dag.ts`, `nodes.ts`

The canvas's `CreateNode`, `Connect`, `Delete`, and the loops of `topologicalSort`,
`findCycles` and `reachableFrom`, one action per iteration. `AnswersRight` compares
each answer with a definition of path, cycle and order that uses no algorithm.

### SignIn - `packages/auth/src/oidc.ts`, `session-hook.ts`, `csrf-hook.ts`, `csrf.ts`

Tabs of one browser. `BeginSignIn`, `Return`, `Exchange`, `ExchangeFails` are the code
flow; `LoadPage` takes a page with a token; `Submit`, `ResolveSession`, `ResolveThrows`,
`HandleCsrf`, `Answered` follow one unsafe request through the hooks; `EndSession` and
`ExpireToken` happen at any time. `ActsForItsPage`: a request is carried out only for
the session whose page it was made on, although all tabs send one cookie.

### Overlays - `packages/ui/src/cmd/*`, `dialog/*`

The palette and a dialog on a page with one focus. A handler (`Shortcut`, `Escape`,
arrows, `Enter`, `Type`, `Hover`, clicks, `Tab`) writes state; `Flush` renders it and runs
the effects; `Land` is the dialog's microtask. `Application` registers and removes
commands at any time. `RightTarget`: one of the options is highlighted, the best match
until the user moves it; an open dialog keeps the focus, and closing it gives the
focus back to where it was.

### DataViews - `packages/ui/src/data/*`

The table (`SetRows`, `ToggleSort`, `SetFilter`, `SetPageSize`, `SetPageIndex`) and the list
(`Measure`, `SetItems`, `Wheel`, `OnScroll`, `OnKeydown`), over data that the application
replaces. `ShowsEveryRow`: the pages together show every matching row once, in order,
and the page on show exists; a row in the viewport is rendered, and a row reached
with a key is in the viewport.

### CollabStores - `packages/collab/src/createYjs*.svelte.ts`, `yjs-*.ts`, `presence-store.svelte.ts`

One store of a component over an array, a text, a map or an awareness that peers
write too (`Peer`), with transactions (`Transact`, `Commit`) and the component's life
(`Mount`, `Unmount`). `ShowsDocument`: what a mounted component shows is the document; a
write of one key leaves the other keys as they are, one of an awareness field the
other people's states and this one's other fields, also those a peer's change or an
earlier patch put there; and a component that has gone is left alone.

### Media - `packages/media/src/*`

Five small machines, of which `medium` names one: the player's keys, props and
native controls; the image; the carousel; the playback reducer with its hls.js
attachment; `pickRendition`. `ShowsMedia` says of each what its user relies on: the
copy of `muted` is the element's, no caption-less video, no audible autoplay, an
image that has arrived is seen, `next` reaches the last slide, the quality belongs to
what is loaded and is the best there is. The carousel scrolls in pixels over slides
with a gap: a button asks for a page of the visible width from where the slides are
at that moment (`ScrollByPage`), and the browser goes there at once or over some time
(`Glide`), which another press or a `Drag` may cut short. Whenever it rests it is at
the end, or at least a page further for each press of `next` that found it at rest.

### MarkdownGate, StyleGlobs - `tools/markdownlint/verify.mjs`

`MarkdownGate` is `main()` with a clock: `Install`, `Root`, `Tracked`, `Targets`, `Inventory`,
`ScratchRule`, `Library`, `LintBatch` (once per batch) and `Finish`; each child takes as
long as it likes up to its limit, which is cut to what is left. `TrueInTime`: the gate
ends by its deadline; exit 0 means that the wanted files were linted and are tidy and
that no file has a private link; nothing is left out that is not declared to be.

`StyleGlobs` is `Compile` and `Match`: brace lists, classes, `*` and `**`, the table over
segments, row by row (`Row`), and `tokensMatch`'s loop step by step (`Advance`), with the one
point to go back to and the bound on its steps (`Attempt`). What a segment expands to is the
set of its alternatives: the code drops duplicates and asks only whether one of them
matches. Before all that a path that is spelled as the glob matches (`SpelledAsGlob`):
a directory may be called `[a-z]`. `MatchesAsWritten` compares all this with the grammar's meaning, which chooses
cuts and alternatives freely.

### PrivateLinkScan, LinkScanner - `tools/markdownlint/no-private-scratch-links.mjs`

`PrivateLinkScan`: the main thread's `Scan`, `Expire` (the file's timer), `Deliver` (a
message, an error or an exit of some worker, current or retired) and `Close`; the
worker's `Take`, `Reply`, `RunOut`. `RuleIsTrue`: an answer is that of the file asked
about, the status is about all of the files, and (liveness) every run ends.

`LinkScanner`: one document through `Link`, `Html`, `JsxAttribute`, `JsxSpread`, `Expression`;
`HtmlNode` and `PopFrame` walk nested `srcdoc` documents with a stack, `TreeNode` a
syntax tree. `NothingHidden`: a document that is not refused has exactly as many
findings as it holds private destinations, at whatever depth, up to the limit.

### CiPipeline - `scripts/ci-affected.mjs`, `ci-gate.mjs`, `.github/workflows/ci.yml`

`Detect` (which may fail), the jobs (`RunChangeScoped`, `SkipChangeScoped`, `Run`,
`SkipEvent`), `Cancel`, and `Gate`. `GateMeansChecked`: green means that every package a
change reaches, through dependencies and declared readers too, was checked.
What the filter's `...pkg...` selects is turbo's, hence external: the smallest set
closed under "depends on", and under its converse. `Reached`, which the property
uses, counts steps instead.

### Figures, FigureSite, SitePages - `tools/figures/`

`Figures`: sources, pages and outputs are edited (`EditSpec`, `EditEngine`, `EditPage`,
`Touch`) while a build runs in steps (`StartBuild`, `ReadSpec`, `LoadSpec`, `Rendered`,
`WriteOutput`, `EndBuild`), which may be broken off, and `Refresh` rewrites README blocks.
`PassMeansCurrent`: where the check by hashes passes, what is committed is what the
sources draw, without drawing it.

`FigureSite`: `ConfigSetup`, `Reuse` or `Render`, `BuildDone` are an Astro build over its
cache, `DevSetup`, `ServerSetup`, `Restart`, `DevStop` the development server, while the
JSON and SVG files and the page change. `ShowsCurrentFigures`: a fresh site that passes
shows the figures of now.

`SitePages`: the check of a built site: `List` (the walk of the tree), `Filter` (the
generator's exclusions), `ReadPage` (fences against the built page), `End`.
`PassMeansShown`: every published page shows every diagram its top-level fences ask
for. Its definitions of *published* (gitignore's), of a fence block and of *shown*
are stated apart from the code's: the code scans lines and tags once, with a state
(`ScanLine`, `ScanTag`); the definitions say which lines and tags count by quantifiers.

### PublishChecks - `scripts/check-import-cycles.mjs`, `check-declared-imports.mjs`, `check-package-archives.mjs`, `pin-peer-floors.mjs`

`Walk`, `CruiseFails`, `Cruised`, `NextRoot`, `Search` are the cycle search, frame by frame;
`Declarations` and `Pack` the two checks of manifests and archives; `BeginFloors`, `View`,
`Write`, `Install`, `Verify` the floors of the peers, over a registry that grows
(`Release`). `PassMeansInstallable`: no import cycle, every import declared, one range
per peer, and floors that are what was installed.

### WorkflowChecks - `scripts/check-platform-legs.mjs`, `check-job-timeouts.mjs`, `check-playwright-image.mjs`, `scorecard-threshold.mjs`

Each check reads documents and ends with findings or an exit status; the scorecard
is fetched until it is that of the commit (`Publish`, `Judge`, `FetchFails`).
`PassMeansEnforced` compares what passes with what GitHub makes of the same documents:
which contexts a merge waits for, when a skipped or continuing job counts as
success, how long a job may hold a runner, which environment a test sees.

### Packages, MCPackages, Tooling, MCTooling - modules side by side

`Packages` and `Tooling` instantiate modules that have no state in common, with all of
their constants still open: the proofs are about these instances. `MCPackages` and
`MCTooling` extend them with the values that TLC needs and with the modules that are
only model-checked. The variable `part` names the one that moves; the
others rest in one of their initial states. A behaviour of the composition is
therefore a behaviour of one module, all behaviours of all of them occur, and each
property is checked on all states of its module (and on the one state in which it
rests). The larger constants are defined there, with a comment on the cases they
stand for; the `.cfg` files give the others.

## 4. The runs and their bounds

A bound is a constant or a set of model values, except where said. Symmetry is
used only in runs of invariants and action properties, never with liveness.
`CHECK_DEADLOCK FALSE` throughout: a closed client, a finished set of requests
or an exhausted bound is a legitimate end; the liveness properties say that
nothing stops too early.

| Run | Checks | Under |
|---|---|---|
| `connect` | OneRunPerToken, NoLeakedStream, StopIsFinal, DeliversCurrent, StreamingMeansWork | calls from every callback but onError, none between the two microtasks; fair |
| `sse` | StateIsTrue, KeepsConnecting | calls from every callback; fair |
| `sse_hook` | NothingLost, EveryMessageShown | with and without a throttle; fair |
| `ipc_timed` | Bookkeeping | timeouts and close() |
| `ipc_plain` | PromisesKept, EveryRequestSettles | neither; fair |
| `upload` | TransfersAsAsked, ResumeContinues | constructor injected or imported, with and without `uploadUrl`; fair |
| `chat` | StreamingIsHeld, RepliesPure | up to three loops at once; the transport may ignore its signal |
| `layout` | ListenersScoped, LayoutsNeverCross, EveryLayoutSettles | terminate() and graphs that cannot be cloned; fair |
| `packages` | DialsWithCurrentToken, RetryIsFresher, Reconciled, FindsItsOwn, AuditIsTrue, AnswersRight, ActsForItsPage, RightTarget, ShowsEveryRow, ShowsDocument, ShowsMedia | each module of `MCPackages` by itself |
| `tooling` | TrueInTime, MatchesAsWritten, RuleIsTrue, NothingHidden, GateMeansChecked, PassMeansCurrent, ShowsCurrentFigures, PassMeansShown, PassMeansInstallable, PassMeansEnforced | each module of `MCTooling` by itself; fair where section 5 says |
| `connect_stop_in_error` | StopIsFinal, violated | calls from every callback |
| `ipc_late_answer` | AnswersMatch, violated | timeouts |

Type invariants are left to the proofs (section 6). The last two runs expect a
violation; section 7 says what they show. The violating run of `ConnectStream` has
two calls, all it takes.

Why the bounds are enough for what is checked:

* **ConnectStream** 3 runs, 6 calls. A hazard here is one superseded run, its
  successor and a retry; six calls let the application stop and start again
  three times, nested in callbacks. The theorems remove both bounds for safety.
* **SseClient** 4 sources, 2 timers, 5 calls, 4 attempts: a source, its replacement
  after an error, and a replacement made by a restart, with one to spare; only one
  timer is armed at a time, and the second would be the leak. `MaxAttempts` bounds
  the errors of a source that the client has lost track of after a `close()` half way,
  which could go on for ever; it cuts nothing else off, since each other error uses up
  a source. A client that would dial
  when no source is left simply cannot (`CanDial`): the liveness property asks
  for nothing then.
* **UseSse** 3 sources, 3 calls, 3 attempts, 3 messages, history of 2: the history overflows,
  and a message may be in the batch, in the history and trimmed at once.
* **IpcClient** 4 requests with timeouts, 3 without: the interesting cases need
  two waiters and a response on its way, the third shows that a misalignment
  persists.
* **ResumableUpload** 3 uploads of a file in 2 parts: two pauses and resumes, and
  a pause after the first part.
* **LLMChat** 3 sends of up to 2 chunks: a loop that lingers meets the next and the next
  but one, and all three may be read at once.
* **LayoutWorker** 3 calls, **AuthMiddleware** 3 requests of which one has a body
  (at most one token is minted for each), **ProviderAuth** 3 tokens: one more than
  the two any behaviour described here takes.
* **QueryCache** 2 optimistic mutations and a plain one, 1 retry: the two overlap in
  every order while the third invalidates. **EmulatorLoader** 4 mounts with different
  optional keys, one of an unknown core. **AiGateway** one completion and one stream of
  up to 3 events. **SignIn** 2 tabs, 2 sign-ins, 2 tokens: one tab signs in as somebody
  else while the other is left open.
* **FlowGraph** 3 ids, 2 edges: self-loops, parallel and dangling edges, a cycle of two
  and a path of three.
* **Overlays** 3 commands and 3 queries, one of which each kind of match decides.
  **DataViews** 3 rows in 2 columns with equal and missing cells; a list of up to 5 items
  of 2 pixels under a viewport of 4, scrolled by single pixels. **CollabStores** values
  of length 3, 2 keys, 2 people. **Media** renditions of 2 heights and 2 bitrates, one of
  which outweighs a height; 3 slides of width 3 with a gap of 1 under a page of 3, so that
  pages drift against the slides; widths around every rounding.
* **MarkdownGate** repositories of up to 2 files of every kind, or 4 plain ones, with
  every kind of bad setting; children that take 2 or 4 units under limits of 3 to 5 and
  a deadline of 17, so that a run may end at, before or (in the mistakes) after it.
  **PrivateLinkScan** 2 files of every sort or 3 with a link. **StyleGlobs** every glob of
  two segments of two parts, three segments around `**`, words of 4 characters out of 2,
  and the spellings of the globs of one and two segments, with a third character for
  their punctuation; four globs match only by their spelling.
  **LinkScanner** nesting up to, and one past, each of its bounds.
* **CiPipeline** a chain of 3 packages, so that a dependent of a dependent exists, and a
  file of every sort. **Figures** 2 figures, 2 engines, 2 edits between the steps of
  builds. **FigureSite** 2 figures, one fence, 4 changes: a build, a change, a second
  build and a change under it. **SitePages** trees of up to 3 of 9 names, every page of
  4 lines of 8 kinds, every built page of 3 tags of 10 kinds.
* **PublishChecks** every graph of 3 packages; every import against every declaration;
  2 published packages and a private one. **WorkflowChecks** the documents as they should
  be with every change of one part, and for lists (legs, steps, jobs) every list of up
  to 3.

## 5. Fairness

Only what the JavaScript runtime or the other party's contract gives.

* `ConnectStream`: `WF(Resume)`, `WF(Close(r))`, `WF(Fire(r))`. A call runs to its end,
  a microtask runs, a timer goes off. Nothing is assumed of the server or the
  application; `StreamingMeansWork` asks for a stream that is being read, not for
  messages.
* `SseClient`: `WF(Resume)` and `WF(Fire(t))`, for the same reasons.
* `UseSse`: `WF(Proceed)` and `SF(Flush)`. A flush timer that is due goes off however
  many events come between; a callback in progress disables it again and again,
  which weak fairness would let go on for ever. The event loop does not.
* `IpcClient`: `WF` of `Timeout(r)`, `Data`, `SocketClose` and `Serve`. The last is the
  server's promise to answer what it reads, without which no request without a
  timeout could be promised anything; it may still end the stream.
* `ResumableUpload`: `WF(Loaded \/ LoadFails)`: an import settles. tus may stall.
* `LayoutWorker`: `WF` of `OnMessage`, `Handle` and of some `Finish`: messages are
  delivered and a layout, which is a computation, comes to an end.

* `PrivateLinkScan`: `WF` of `Scan`, `Expire`, `Deliver` and `Close`: a timer goes off
  and an event that was sent is delivered. Nothing is assumed of the worker: a
  parse need never end, which is what the timer is for.

All other modules state safety and action properties only: what must happen in
them depends on a user, a server or a generator that owes nothing.

## 6. The proofs

Every theorem is for all values of the constants, subject to the modules' named
`ASSUME`s, which say only what kind of value a constant is, and to the
assumptions written in the theorem itself. The liveness results stay with TLC,
as do statements with `ENABLED`. All proofs have the same form: a strengthening of
the property, `Init` establishes it, `[Next]_vars` preserves it action by action.

**ConnectStream_proofs.** `TypeInv` adds to `TypeOK` what the stack means (`Frames`:
a frame that has work left belongs to a run in the matching phase, no run has
two such frames) and that the retry handle names a waiting run or nothing.
`TokenInv` adds that no token of an active run exceeds `runToken`: without it a
run could become current again after it was superseded. From it:
`OneRunPerTokenCorrect` and `StoppedIsSupersededCorrect` (after `stop()` no run in
flight is current). `DeliverInv` adds that the current run, while it has a stream, is
the one whose controller is held: from it `DeliveryCorrect`, of `DeliversCurrent`. None
of the three assumes anything about the application. `StopInv` adds that a pending
`scheduleReconnect` is at the top of the stack, which is what "the application
does not call from onError" buys: `StopIsFinalCorrect`. `LeakInv` adds that the
current run with a stream is the one whose controller is held:
`NoLeakedStreamCorrect`, assuming no calls between the two microtasks.

**SseClient_proofs.** There is no token to argue with, so `SseInv` says where every
source and timer is: `Accounted` (what is live or armed is exactly what the
fields point to), `Situation` (what the state, source and timer are at each
statement a callback returns to), `UnfinishedOnTop` (at most the innermost frame
has such a statement left). It holds of a consumer that calls from every callback,
until a `close()` has `crossed` a handler: `start()` from such a point does nothing,
for the client is busy. Hence `StateIsTrueCorrect`, with no assumption but that.

**IpcClient_proofs.** `QueueInv` (pending = queued = timed, no duplicates, a failed
queue is empty) gives `BookkeepingCorrect` and `SettledOnceCorrect` with timeouts and
close(). `OrderInv` adds `Pipeline`: the queue is the responses on their way
followed by the requests the server has not read. This is the invariant a
timeout breaks. With neither timeouts nor close(): `AnswersMatchCorrect` and
`PromisesKeptCorrect`, the refinement of `RequestResponse`.

**ResumableUpload_proofs.** `Launched`: what runs is what `tus` points to, and only
while the state is 'uploading', and there is at most one import. `UploadInv`
claims it until the application has begun again during an import. From it
`OneTransferCorrect`, `PauseStopsTransferCorrect` and `SuccessIsFinalCorrect`.
`UploadingMeansWorkCorrect` needs only the types: every step that takes the last
upload or import away leaves the state or records the throw. Together they are
`TransfersAsAskedCorrect`.

**LLMChat_proofs.** `BaseInv`: each reading loop has its place in the turns or the
turns are gone, which gives `TypeCorrect` and `ResetEmptiesCorrect` (until the next
`send()`; what happens then is the business of `RepliesPure`). `FlagInv`: the flag is
only up for the loop whose controller is held (`Held`), and no aborted loop lingers
beside a live one unless a `send()` was `hasty`: `StreamingIsHeldCorrect`. `TextInv`: a
loop that reads either owns the turn at its index or is `displaced` (`OwnTurn`), which
gives `RepliesPureCorrect` for any number of loops read at once.

**LayoutWorker_proofs.** `IdInv`: ids of calls are distinct while the worker lives,
and every request, suspended layout and response is *signed*, that is, carries
the id of the call whose graph it holds. `LayoutsNeverCrossCorrect` needs nothing
else and assumes nothing: with crashes, `terminate()` and graphs that cannot be
cloned, the handle implements `RequestResponse`. `ListenersScopedCorrect` is
inductive as it stands.

**The hook, in SseClient_proofs.** Every step of `UseSse` is a step of `SseClient` or
leaves the client's variables alone (`HookStep`, a lemma), so the client's invariants
hold inside the hook. `CellsInv`: callbacks do not nest, the state cell agrees with the
client, an error shown while it is open is about to be cleared, and the attempt cell
trails the client's counter by one (`AttemptInv`). `QuietInv`: a hook that was closed has
neither source nor timer nor flush. `ThrottleInv`: until the hook is closed the history
followed by the batch is the last messages delivered, without a gap and as many as the
limit asks for. They give `NothingLostCorrect` for any number of messages and any history
limit but 0.

**Packages_proofs** is about the instances of `Packages`, of which `MCPackages` checks
small ones.

- `ProviderAuth`. `TokenInv`: while no connection is up and the token has not changed
  since it was resolved, the provider's parameters and protocols are those of the
  present token, because the binding applied it when the connection closed. It gives
  `DialsWithCurrentTokenCorrect`.
- `AuthMiddleware`. `FreshInv`: tokens come from the refresh endpoint only, so none is
  newer than the newest minted, and the one minted for a request is newer than the one
  it was refused with. It gives `RetryIsFresherCorrect` and `OneRefreshIsEnoughCorrect`,
  however the refreshes overlap. `SerialInv` adds what one refresh at a time means: the
  token on its way to the store is the newest there is (`StoreKeepsNewestCorrect`).
- `QueryCache`. `SettledInv`: once everything has settled, the fetch has no answer yet or
  what the server still holds, unless it was `outrun`: the last mutation to settle began
  it, or joined one that had not been answered; and while a mutation is alone no other is active and nothing is fetched until it has settled.
  `ReconciledCorrect` needs that a value is not taken for the absence of one.
- `EmulatorLoader`. `OnePage`: as long as nothing is on the page nobody holds a global,
  and a mount that has the page to itself holds all of its own (`FindsItsOwnCorrect`).
- `SignIn`. `FromItsPage`: a page's token was minted for the page's session, and a
  request on its way has session and token from its page, which stays as it is until
  the answer. The cookie plays no part in it: `ActsForItsPageCorrect` is what the HMAC
  over the session id buys.
- `AiGateway`. `LogInv`: what is assembled is the text of the events so far, what is
  given is what was assembled, and a record exists of finished, audited requests only,
  once each (`AuditIsTrueCorrect`).
- `CollabStores`. `CollabInv`: a snapshot that is not the document is one of which a
  change is unsaid, in a transaction, or was missed before the effect ran. All of
  `ShowsDocument` follows (`ShowsDocumentCorrect`).
- `FlowGraph`. `FlowInv` has one part per walk. Sorting (`SortInv`): the order lists, each
  once, nodes all of whose predecessors come before them, the in-degrees count the edges
  from nodes not yet listed, and ready is what has none. Searching (`SearchInv`): the
  stack is a path, `visited` minus the stack is closed under edges and has no cycle as
  long as none was reported, and where the stack is left each frame has looked at the
  edges before its index. Reaching (`ReachInv`): what is reached has a path from the
  start, the successors of what is reached are reached or queued, and the steps taken
  with the queue's length are one more than the edges that leave what is reached, hence
  the bound of edges + 1 is enough. `AnswersRightCorrect` is the whole property, for
  graphs of any size. A path from a to b is defined as b being in every set that is
  closed under edges and holds the targets of a: what a walk has reached when it stops
  is such a set, so no path need be taken apart.
- `Overlays`. `FocusInv`: as long as no dialog is shown the focus is outside it and where
  the effect will remember it; once it is shown, `returnFocus` is the element that had
  it, and unless the dialog was strayed from, the focus is inside it
  (`FocusIsKeptCorrect`, `FocusReturnsCorrect`). `HighlightInv`: once the query on show is
  the query, the highlight is among the results, and at the first unless the user has
  moved it. `SearchIs` says of the ranking that the first result scores best of all
  commands, and was registered first of those that do; with it `RightTargetCorrect` is the whole property, for any commands and queries.
- `Media`. `PlayerInv`: the copy of `muted` is the element's and autoplay is silent, but for
  the steps that section 7 lists, and the time is within the duration. `CarouselInv`: where the
  slides rest, or else where they glide to, is the end or at least a page per press, and
  they never glide further than a page. `pickRendition` is a recursive
  function over the list: by `Recursion` its values are those of its definition, and up
  to each index the best is one that no rendition so far is better than
  (`ShowsMediaCorrect`, with no bound on times, widths, slides or renditions).
- `DataViews`. `TableInv`: each row is in the data once, and a column that sorts has a
  direction. `FilterIs` and `SortIs` say of computeRows() that what it filters and sorts is
  the rows that match, each at one place, in an order in which each is ahead of those
  after it; `PagesJoin`, that SubSeqs cut at multiples of the page size, up to the rounded
  quotient, join to the whole. `ListInv`: a row that was reached with a key is at the top
  of the viewport or the list is scrolled to its end; with the facts that define `\div`
  (`Divides`, `RoundsUp`) the window then covers the viewport. `ShowsEveryRowCorrect` is the
  property for both.

The three share `Places` and `Ranked`: where "before" orders a finite set strictly, each
number below its size is the count of what is before exactly one element. The sorts are
written that way, as the place of each element and not as the loop that moves it,
because the library's `SetToSortSeq` and `SelectSeq` can only be unfolded by induction.

**Tooling_proofs** is about the instances of `Tooling`, of which `MCTooling` checks
small ones.

- `FigureSite`. `FigureSiteInv`: the store's page is what its digest's JSON renders to,
  a running site build's digest is of the JSON there is, and a server that is neither
  missing a change nor about to restart has read it (`ShowsCurrentFiguresCorrect`).
- `PrivateLinkScan`. `ScanInv`: until a worker is retired, it and the messages on their
  way are of the one request that is asked, and what was emitted is the links of the
  files before the one being scanned. `RuleIsTrueCorrect`
  states the safety half of the run's property; that the rule ends stays with TLC.
- `Figures`. `FiguresInv`: what a JSON on disk or a running build's output records is the
  rendering of a valid spec, the one whose hash it holds unless that spec was edited
  between the two reads of a build; so a hash that agrees decides
  (`PassMeansCurrentCorrect`).
- `MarkdownGate`. `GateInv`: the clock is within the deadline, each phase that is past has
  accepted what it looks at, and what was linted together with the queue's batches is
  what is wanted: the packing leaves no file out (`TrueInTimeCorrect`).
- `CiPipeline`. `CiInv` ties each result to the scope its job had. Besides it the proof
  shows that the filter's dependents, defined as the smallest set closed under "depends
  on", are what any number of steps reaches (`GateMeansCheckedCorrect`).
- `WorkflowChecks`. `ChecksInv`: of the files read so far all are as they must be, or a
  finding was noted, or the check has ended (`PassMeansEnforcedCorrect`).
- `PublishChecks`. `SearchInv`: the frames are a path of the grey packages, what each has
  looked at is black or next on it (`OnPath`), and the black packages can be numbered so
  that each imports lower ones only (`LeftInOrder`); a graph with such an order has no
  cycle. `WithinSteps` counts what is left to do: each step but the last leaves a package
  or uses up an edge, so the search's limit is never what ends it. `VerdictInv` keeps what
  the two other checks have accepted, `FloorInv` that a floor, once read, is the least
  release all ranges of its peer admit, among those known to be there when the script
  began: releases made meanwhile do not undo it (`PassMeansInstallableCorrect`).
- `SitePages`. `PagesInv` follows the three phases: a page the walk has not found is below a
  directory still to list (`WalkInv`), a published page is unread or its errors are
  complaints (`ReadInv`), and a site that passes has none (`EndInv`). The rest of the proof is
  about one page: what the scans of lines and tags have after n steps is what the
  definitions say of the first n (`Scanned` and its like, by the induction below), so that
  the blocks are the fence blocks and an accepted page shows each of them
  (`PassMeansShownCorrect`).
- `StyleGlobs`. `GlobInv` says only that a verdict is the matcher's, or a match for a path
  that is spelled as the glob; what is proved is the matcher. With `Cuttable`, whether a range of items can be given a range of things: after
  each step of the loop the text can be spelled if and only if its rest can be from where
  the loop is, or from the last `*` one character on (`AdvanceReads`), because what an
  earlier `*` could still take, the last one can take as well (`NoUseGoingBack`). A
  potential that grows with each step and stays below the bound (`Far`) shows that the loop
  ends by itself. Then `RowIs`: a row of the table says which segments can name which parts;
  and a trailing `**` with `AnySegment` before it names what the grammar says a `**` there
  does, at least one part (`MatchesAsWrittenCorrect`).

Sums, texts, batches, distances, scans and the rows of the globs' table are recursive
functions in these models (`Text`, `Sum`, `Batches`, `Reached`, `ScanLines`,
`SegmentsMatch`, `PickRendition`). What such a function computes is known to the provers
only when one exists, which takes an induction. The library's induction rules need an
operator as parameter, so the proofs make their own: `LeastNumber` (a set of numbers
that is not empty has a least one, from the well-foundedness of <) turns a claim about
all n into one about the least n it is false of, and `Recursion` and its like
(over `AreKept`, `AreSums`, `AreWithin`) show that the function exists.

The assumptions a theorem states say what kind of value a parameter is: a limit is a
number, a repository's files are a sequence, `None` and `Absent` are none of the values
they stand beside (`ScanAssumption`, `FiguresAssumption`, `GateAssumption`,
`CiAssumption`, `ChecksAssumption`, `OutsideAssumption`, `PublishAssumption`,
`PagesAssumption`, `GlobAssumption`, `UiAssumption`, `MediaAssumption`,
`DataAssumption`). They are stated there rather than in the modules because those are
instantiated. Five say more: `GateAssumption` that a child takes longer than the unit
the clock counts in, `UseSse`'s `MessageAssumption` that the history holds at least one
message, `PublishAssumption` that a workspace has finitely many packages,
`PagesAssumption` that a tree of documents has finitely many directories, each entry in
one that is in the tree, and `DataAssumption` that a row of the list has a height (for
no height the code renders an empty window).

Model-checked only:

- all liveness, of every module, and `ResumeContinues`;
- `NothingHidden` (the document walk), whose documents are trees: the number of private
  destinations in one is a RECURSIVE operator over its nesting.

## 7. Where the code and its documentation disagree

Two of these are runs that check one sentence of the repository and find a
behaviour of the code that contradicts it; `PROJECT.json` quotes the sentence
with its line.

| Run | Property | What happens |
|---|---|---|
| `connect_stop_in_error` | StopIsFinal | `stop()` from `onError` is undone by the `scheduleReconnect` that follows |
| `ipc_late_answer` | AnswersMatch | the response to a timed-out request goes to the next waiter |

The others were met while modelling and are the reason for the assumptions of
section 2. The third column says how to see each: a change of a `.cfg`, or a
guard of a property to take away.

| Code | What happens | To see it |
|---|---|---|
| `connect-stream.ts:150` | `stop(); start()` one microtask after a stream ends: the old run closes the new one, although the comment at 56-58 says its completion "must not be acted on" | `ConnectStream.cfg` with `MicrotaskCalls = TRUE`: NoLeakedStream |
| `sse-client.ts:127` | `close()` from `onError` is undone by `scheduleReconnect`, although `use-sse.svelte.ts:41` says it stops reconnecting | StateIsTrue without `~crossed` |
| `sse-client.ts:79` | `close()` from `onStateChange('connecting')` inside `connect()` is undone by the rest of it: a closed client listens to a source | the same, with `Callbacks = {"onConnecting"}` |
| `use-sse.svelte.ts:74` | after `close()` and `connect()` the stopped throttle drops every message | NothingLost without `~stopped` |
| `use-sse.svelte.ts:62` | `onOpen` clears the error and not the attempt cell, although line 35 says that it "resets to 0 on a successful open" | an invariant that `shownAttempt` is 0 while open |
| `pending-queue.ts:93` | the close event replaces "the error that killed the connection" | an action property that `failure` never changes once set |
| `tus-launcher.ts:77` | start, pause, resume during one import make two uploads, and a pause reaches only the second | TransfersAsAsked without `~overlapped` |
| `tus-launcher.ts:61` | without `options.uploadUrl`, `resume()` makes an upload that starts at the first byte, although `resumable.ts:147` says it continues "from the last accepted byte" | ResumeContinues without `uploadUrl` |
| `tus-launcher.ts:78` | a constructor that throws leaves the handle uploading, although line 40 says it goes to `onError` | TransfersAsAsked without `thrown` |
| `client.svelte.ts:126` (ai) | after `stop()` and a new `send()`, the old `finally` clears the flag and the controller of the new one, although line 39 says the flag is up "while a reply is streaming" | StreamingIsHeld without `~hasty` |
| `client.svelte.ts:121` (ai) | after `reset()` and a new `send()`, a chunk of the old stream lands in the new reply, at the index it had captured | RepliesPure without `displaced` |
| `client.svelte.ts:124` (ai) | the abort caused by `reset()` sets the error that `reset()` had cleared | an invariant that `error` is `NoSend` after `reset()` |
| `layout-worker.ts:143` | `postMessage` throws and the listeners stay, although 109-110 says they are torn down on settle | ListenersScoped without `unposted` |
| `auth-middleware.ts:46` | a request with a body cannot be cloned after `fetch` has used it, so it is refreshed and not retried | an invariant that no request is 'thrown' |
| `provider.ts:128` | the token is resolved when a connection closes and used after the backoff, although line 11 says "resolved at connect time" | DialsWithCurrentToken without `~dialed.stale` |
| `provider.ts:123` | when the resolver returns null, `Object.assign` leaves the old token in place, although 17-18 says "anonymous connect" | an invariant that `dialed.params` is `None` where `dialed.session` is |
| `loader.ts:221` (emulator) | `cleanup()` deletes the globals by name, also those a second emulator on the page has set | FindsItsOwn without `~overlaps` |
| `mutation.ts:34` (query) | an invalidation that finds no data joins the first fetch, even one that was answered before the mutation, although 22-24 says the keys are refetched on settle | Reconciled without `~outrun` |
| `createYjsStore.svelte.ts:22` | a change between the creation of the store and its `$effect` is shown only with the next one | ShowsDocument without `~missed` |
| `Player.svelte:72` | the element's native mute is not heard: the copy of `muted` is wrong until the next key | ShowsMedia without `native` |
| `Player.svelte:50` | the captions contract is checked when the component mounts, not when `tracks` changes | ShowsMedia without `rewired` |
| `Player.svelte:58` | autoplay that is turned on after the mount is not muted | ShowsMedia without `late` |
| `Image.svelte:69` | a new `src` does not bring the placeholder back | an invariant `loaded => pictured` |
| `Carousel.svelte:53` | the buttons ask `options.duration` alone whether to scroll smoothly, and it is 25 by default: they do under reduced motion too, although `carousel.ts:50-54` says its breakpoint, which makes scrolling instant, is always present | a reading of the two; no property is about motion |
| `Carousel.svelte:51` | a press while the slides still glide starts from where they are, so two quick presses go less than two pages | ShowsMedia counting every press |
| `player.ts:49` | a bitrate of at least the weight of a line outweighs a higher picture | ShowsMedia without the last disjunct of `IsBest` |
| `image.ts:33` | a width below a half rounds to 0 and stays in the srcset | ShowsMedia without its exception for widths below a half |
| `DataTable.svelte:104` | `aria-rowindex` starts again on every page | ShowsEveryRow without `view.pageIndex = 0` |

## 8. What is not modelled

* **Delays.** Backoff, throttle and timeout lengths; a timer is armed or not. Only the
  Markdown gate counts time.
* **Parts left out of modelled components.** Named SSE events (delivered like
  `message`); byte contents of frames; chunk sizes of uploads; status and sync
  callbacks of the collaboration provider; the layout that runs on the main thread;
  positions of nodes; MFA; `diffPresence`; time labels, the media session, placeholders'
  styles; markup of cells and options.
* **`Overlays`** promises nothing of the focus in a dialog once the palette was opened
  over it or a click has left it. **`Media`** leaves embla out: the carousel is what its
  buttons and a drag do, horizontally, without the points a stylesheet may make the slides
  snap to and in whole units.
* **`Figures`, `FigureSite`**: the drawing engine and the loader in the browser; nobody
  writes a hash by hand. A build loads the engine (`build.mjs:30`) and hashes it (`:70`) in
  one step, so an edit of the engine between the two is outside the model.
* **`LinkScanner`** charges the budget of CSS tokens for sheets and style attributes, not
  for lists in attributes (`no-private-scratch-links.mjs:853-866`) and values in style
  expressions (`:967-979`): the source refuses more documents than the model, and hides nothing more.
* **`CiPipeline`**: a rename is listed by its new path. **`SitePages`**: sites whose
  pages would be built to one file (`README` beside `index`), the text of globs and of
  configurations, the sites of other origins, raw elements within raw elements, the limit on the walk's visits. The
  reading of text into tags is the generator's or the parser's.
* **`PublishChecks`**: how imports are read out of sources and files out of an archive;
  pnpm, npm and dependency-cruiser are external. **`WorkflowChecks`**: YAML and JSON as
  text, `needs`, exclusions of refs beyond a name, `~ALL` and a trailing star, a job
  and a container that disagree about the browsers' path.
* **Self-tests of the tools** (`verify.mjs:1112-1980`, `no-private-scratch-links.mjs:1198-1515`)
  are fixtures with expected answers: they test what is modelled.
* **realtime transport and `useConnectStream`**: configuration, and a wrapper to be
  composed like `UseSse`.
* **`uploads` validation, `core`, `charts`, `i18n`, `testing`, `forms`, `shell`, `mcp`, the rest of
  `ui`**: pure shaping, markup, wrappers of libraries, or one handler without state
  that outlives it.
* **Libraries**: Yjs, y-websocket, tus-js-client, TanStack Query, superforms, elkjs,
  Astro, MkDocs, the Markdown, HTML and JavaScript parsers, Svelte's scheduler, the
  browser. What the code relies on is modelled where it is used and marked external
  in `map`.
* **Apps, docs, examples**: they only display.

## 9. Plan

Written, in order of importance: the clients and queues of section 3 down to
`ProviderAuth` with the proofs of section 6; then the cache, the loader, the gateway,
the graph, the sign-in and the user interface's components (`packages`); then the
repository's tools (`tooling`).

Next:

1. `UseConnectStream`: the other hook, composed from `ConnectStream` and `MessageBuffer`.
2. A `Subscription` specification (what a reconnecting consumer promises), implemented
   by `ConnectStream` and by `SseClient`.
3. Larger compositions: a chat over the gateway whose stream is cut; the gate with the
   rule's worker inside it.
4. Outcomes to add: a server that answers an IPC request with several frames; a
   second tab for the emulator's page; MFA.
