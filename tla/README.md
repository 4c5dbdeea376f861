# A TLA+ model of perfuncted

perfuncted drives a Linux desktop from Go: it opens a session on a target (the
host's desktop, an explicit environment, or a headless or nested Sway that it
starts itself), injects input, looks at windows, pixels and the accessibility
tree, launches applications, waits for conditions and tears everything down.
Most of it is glue to compositors and buses. The part that is hard to get right
is the concurrency around the glue: calls that race with Close, backends that
are replaced while they are in use, connections that several backends share,
deadlines that pass between two messages, and processes that outlive the one
that started them. That part is what these modules are about.

## 1. Inventory

| Part | State | Operations | What makes it correct |
|---|---|---|---|
| Operation tracker (`internal/operation/tracker.go`) and the operation gate of the input backends | closing flag, number of admitted operations, idle and done channels, cancel functions, gate token | `Begin`, `finish`, `Close`, `withOperation` | resources are released once, after the last operation; every Close waits for and returns the same result |
| Accessibility owner (`accessibility_owner*.go`) | current and retired generations, lease counts, subscriptions with their pumps, capability | queries, `Events`, `eventsAcrossReopens`, `Invalidate`, `reopen`, `Close` | no backend is used after its close or leaked; no event or handle of an old generation passes for a new one |
| Session waits (`session_wait.go`) | invalidation hub (epoch, waiters), forwarders per source, failure tally | `Wait`, `WaitWithEvidence`, `All`, `Any`, `Not` | no lost wakeup; the verdict follows from the readings; a wait ends |
| Session life (`session.go`, `session_app.go`) | capabilities, applications, closed flag | `Open`, `Launch`, `Stop`, `Close` | nothing outlives Close unreported; a failed Open leaves nothing; infrastructure goes last |
| Managed infrastructure (`session_infra.go`, `session_process.go`) | helpers (dbus-daemon, AT-SPI launcher, Sway, wl-paste), runtime directory, signal handler, `stopOnce` | `startSession`, `stop`, `CleanupOnSignal` | every helper's group is ended, directory last, failed startup leaves nothing |
| Stale session cleanup (`session_cleanup.go`) | last scan, attempt number; directories, pid files and processes on the system | `CleanupStaleSessionsContext` | living sessions and strangers are spared, nothing mounted is removed, scans are spaced |
| Wayland session cache (`internal/wl/session.go`) | cache from socket to connection with reference count | `NewSession`, handle `Close` | open handles are usable and shared; the last one closes |
| Wayland connection (`internal/wl/wl.go`) | object registry, operation, dispatch and round trip gates, globals, socket position | `RoundTripContext`, `DispatchContext`, `WithOperationContext`, `Close` | a round trip is a barrier; one user's cancellation does not harm another |
| uinput backend (`input/uinput.go`, `input/keysend.go`) | held keys and modifiers, device state | `Type`, `KeyDown`, `KeyUp`, mouse buttons | the recorded holds are the device's |
| Wayland virtual keyboard (`input/wl_keyboard.go`) | modifiers, held slots, last keymap; the compositor's keymap, slots and modifiers | `sendkeys`, `pressKey`, `releaseKey` | held keys keep their meaning through every keymap |
| Portal and EIS input (`input/portal.go`, `eis.go`, `portal_token_linux.go`) | writer and reader goroutines, revocation, held keys; devices seen during setup; the token file | `Type`, `KeyDown`, mouse calls through `submit`, `setupEISender`, `OpenRemoteDesktopContext`, `Close` | what is held is what the peer was told; no success after a command failed; only complete, resumed devices are used; a restore token is offered once |
| XTEST (`input/xtest.go`) | held modifiers, keymap | same interface | text comes out as meant; temporary modifiers go, held ones stay |
| AT-SPI observations (`accessibility/snapshot.go`, `cache.go`, `node.go`, `window_scope.go`, `backend_dbus.go`) | copy of the providers' caches, snapshot cache, history of changes, incarnations and parents of objects | `Snapshot`, `FindApplicationFresh`, `ResolveWindowFresh`, signals | a snapshot is the tree or fails; a handle keeps its object; a cut snapshot fits and says so |
| AT-SPI events (`accessibility/events.go`, `lifecycle.go`) | shared setup, dispatcher, subscribers with buffers | `Events`, `Close`, `RetireEventsForReopen` | registrations match the dispatcher; losses are counted; one caller's cancellation is its own |
| Locator and automation (`accessibility_locator.go`, `bundle_accessibility.go`, `accessibility/automation.go`) | none between calls | `Action`, `Fill`, mutations | an action reaches the provider at most once and the receipt is true |
| Window managers (`window/`) | per compositor connection, change channel | list, find, activate, move, `WindowChanges` | a change is announced; Close ends the streams |
| Screen capture (`screen/`, `bundle_screen.go`) | cached connection with proxies and shared memory, janitor, active capture | `Grab`, pixel reads, `Close` | a capture shows its own frame; no use of a closed connection |
| Output (`output/`) | output list | list | |
| Clipboard (`clipboard/`) | owner process, deadline | get, set | the latest set wins |
| GNOME bridge (`internal/gnomebridge/`) | D-Bus client, bounded event queue, installed extension | calls, events, install | coalescing loses no final state |
| Search and polling (`find/`, `poll/`) | none | search, colour, hashes, waits for pixels | the first exact match or none; a wait succeeds on what it has captured |
| Bundles, CLI, diagnostics, tests | none | delegation, formatting | |

How they interact. `Open` cleans up stale sessions, starts the managed
infrastructure and opens the backends. Each backend admits its calls through a
tracker (input) or a life cycle of its own; the Wayland backends share one
connection per socket through the cache. The owner wraps the accessibility
backend. Waits evaluate conditions through the backends and are woken by the hub,
which window streams, accessibility subscriptions and application reapers feed.
`Close` stops applications, closes the backends in reverse and stops the
infrastructure; a signal handler may be in `stop` at the same time.

What is hard: everything runs on the callers' goroutines and on goroutines of
its own (pumps, forwarders, reapers, signal handler, `AfterFunc` callbacks);
Close, cancellation and timeouts may fall between any two steps; helpers are
other processes that fork, die and leave pids behind; connections are shared.
`PROJECT.json` lists the hazards line by line.

## 2. Modules

Each module starts with a comment on what a step is. Mutated definitions, named
and marked as mutants, stand before the definition they vary; each shows that a
property fails when the code has the corresponding fault.

* **OperationTracker** models one call of `withOperation` per member of `Ops` and
  one call of `Close` per member of `Closers`. A step is one critical section of
  `t.mu`, one channel operation or one context check. Channels are numbered in
  the order in which Begin makes them, so closing one twice, or nil, can be seen.
  The uinput, XTEST and virtual Wayland backends use this protocol; the virtual
  Wayland backend checks its context without `contextOutcome`'s join and
  `screen/extcapture.go` uses the tracker without a gate. **TrackerContract** is the
  abstract specification of the tracker: what its users may rely on, without mutex,
  channels or cancel functions. OperationTracker instantiates it (`Contract`).
* **AccessibilityOwner** models queries, streams, invalidations, reopens, closes
  and persistent subscriptions with their pumps over a set of generations. A step
  is a critical section of `o.mu`, a lock of `epochMu` or `reopenMu`, a channel or
  context operation, or the return of one backend call; backends answer as they
  like. The queries differ only in the method they call and are one action.
* **WaitFailures** holds the failure tally of a wait as operators,
  **WaitFailureLog** compares it with a definition over the whole history, and
  **SessionWait** composes it with waiters, hub, forwarders and the session's end.
  A condition is a mode over facts of the desktop that change while a waiter reads
  them one after the other.
* **ProcessGroup** holds what the kernel and `managedProc` know of a group that
  was started, including that its pid may be used again. **SessionLifecycle** and
  **SessionInfra** both build on it: the first models Open, Launch, Stop and Close,
  the second the helpers' startup, the signal handler and `stop`, with accesses to
  the helper fields as separate, unlocked steps.
* **SessionCleanup** models the rate limit and the scan against owners that start
  up, crash at any point and leave a helper behind. A file system may be mounted in a
  directory at any step from the writing of its pid file on, since D-Bus starts services
  that no pid file names and that outlive owner and helpers. `RemoveAll` is one step: a
  mount in the middle of it is seen as one before it.
* **WaylandSession** models the cache of connections; a connection is named by
  the call that dialled it. **WaylandContext** models the traffic on one
  connection: users behind the operation gate or bare, the two reads of a message,
  and a compositor that announces globals and answers in order. The context of a user in
  `Cutters` may end in the middle of a message (`stream`). The next read then begins in
  the rest of it (`ReadAstray`), which may be no header, wait for more than there is, or
  pass for an event of any object; the size it claims decides how many of the messages
  behind it are swallowed and whether the read after it begins at a message again.
* **UinputBackend** and **WlKeyboard** model a call as a batch of parsed actions,
  validated as a whole and then sent event by event, and keep the device's or the
  compositor's state beside the backend's. A keymap of WlKeyboard is a function from keys
  to slots; two keymaps with equal slots may still be different texts, so either may be
  uploaded after the other. Any action may have temporary modifiers, a modifier's own
  included: the parser does not know the names `control_l`, `alt_l`, `shift_l` and
  `super_l`. **KeySequence** holds what a key is held by before an action of
  a batch, which the four backends that validate batches ask.
* **RemoteDesktop** models callers of the portal backend, the one writer that takes
  their commands, the reader that answers pings on the same socket, revocation and
  Close, with what the peer was told beside what the backend records. **EisSetup**
  models the setup of the EIS connection against a server that announces, changes
  and removes devices at any time, and the watcher afterwards. **PortalSetup** models
  the opening of the portal with the store of restore tokens, by processes that may
  die between any two steps on the files.
* **XTestBackend** models batches over layouts of the X server: which keycode and
  which modifiers produce a character, and what stays down when an event is refused.
* **AtspiBackend** models a walk over a live tree, object by object, while the tree
  changes and the signals of the changes wait to be dispatched; the record `b` is
  what `b.mu` guards. **AtspiEvents** models the callers of `Events`, the setup they
  share, the dispatcher, and the ways in which it ends.
* **SemanticSnapshot** (what the byte budget leaves of a tree, whether a partly failed
  observation can answer a selector, and the answer) and **ScreenSearch** (decoding,
  hashes, searches, region scans, pixel reads) are pure algorithms: operators that
  follow the loops of the code, compared with what they are meant to compute, one
  query per behaviour. Hashes are the content hashed; sizes are numbers of bytes with
  the structure of the code's estimates and smaller constants. SemanticSnapshot uses
  recursive operators, so nothing is proved about it.
* **ScreenWait** models the polling waits and the adaptive interval, **ScreenCapture**
  captures that take turns on a cached connection with a janitor and Close, and
  **Locator** the calls that resolve a target, act on it once and may resolve it again.
* The theorems are in eight modules that extend the modules they are about:
  **OperationTrackerProofs**; **AccessibilityOwnerProofs**; **SessionWaitProofs**
  (SessionWait, WaitFailureLog); **SessionProofs** (SessionLifecycle, SessionInfra,
  SessionCleanup); **WaylandProofs** (WaylandSession, WaylandContext); **InputProofs**
  (UinputBackend, WlKeyboard, PortalSetup, EisSetup, RemoteDesktop, XTestBackend);
  **AtspiEventsProofs**; **DesktopProofs** (ScreenCapture, Locator,
  ScreenWait, ScreenSearch).
* The **MC** modules name the constants of the instances. They extend the modules with
  theorems, so that a run and a theorem speak of the same definition, and instantiate the
  others. Names of definitions therefore differ between modules that one MC module
  extends. Most put several
  questions into one run: the first state chooses what the behaviour is about
  (`part`, `backend`), and every step leaves that choice alone; the components of the
  other questions keep their first state. **MCSession** chooses between tracker, life
  cycle, infrastructure and cleanup; **MCLiveness** between those of them that wait,
  the owner, a wait, event streams and the portal; **MCWayland** between the cache and
  the users of one connection; **MCInput** between the input backends (a session has
  one); **MCAtspi** between observations and event streams; **MCDesktop** between
  waits, failure history, searches, snapshots, visual waits, captures and the locator.
  Within a module the same is done by `Casts` (AccessibilityOwner: which calls
  take part), `Scenes` (SessionWait: which facts and conditions; SessionCleanup:
  which directories and calls; RemoteDesktop, AtspiEvents: which calls and which
  ends) and `Worlds` (AtspiBackend: which tree, calls and signals). A choice only
  removes actors, so each behaviour is one of the program.

## 3. What is checked

| Run | Property | Shows |
|---|---|---|
| `session` | `ImplementsContract`, `CloseAgreement`, `ShutdownEndsWork` | two operations and two closers of a tracker: it implements TrackerContract (one release, after the drain and after admission ended); all closers agree; once Close has sent its cancellations no operation begins to use the device, and none that was using it reports success |
| | `TeardownIsExact` | no backend and no application outlives Close, or the desktop, unreported; a failed Open leaves nothing; no stop of an application signals a stranger that has its pid |
| | `BystandersAreSpared` | a scan spares living owners, and signals no stranger that has a recorded helper's pid |
| | `RuntimeGoesLast` | all helpers are reached, the directory goes after them and after the mounts, and goes when startup fails |
| | `ScansAreSpaced`, `SeenMountsAreSpared` | a failed scan gives back its own claim only; a removal descends into nothing that the scan could see mounted, only into what was mounted after its last look |
| `liveness` | `EveryCallReturns` | operations, Open, Launch, startup, reopen, `Events`, portal commands and every Close return, whatever applications, helpers and backends do |
| | `WaitsEnd` | a wait ends once its condition holds for good, cannot be read, is cancelled or the session closes; the forwarders end with the session |
| `owner_safety` | `NoUseAfterClose`, `ClosedOnceOrOwned`, `CloseIsComplete` | no use after close, no double close, no leak; Close is complete, also when another goroutine had begun to close a generation |
| | `NothingRevives`, `StaleEventsEnd` | handles of a replaced backend and an abandoned capability stay dead; after a reopen has returned no old event is delivered |
| `wayland` | `HandlesAreSound`, `NoConnectionLeaks` | an open handle has an open connection, shared per socket, and none leaks |
| | `RoundTripIsBarrier`, `UnharmedUntilCut`, `CallsReturn` | until a read is cut in the middle of a message, a round trip is a barrier for a coherent view of the globals, nobody is harmed by another's cancellation, and calls return |
| `input` | `DownIsHeld`, `HoldsSurvive` | on uinput the backend's holds are the device's through failures and cancellation, and a call ends no hold but those it names |
| | `HeldKeepTheirMeaning` | on the virtual keyboard every held key keeps its meaning through every keymap (`MeaningsAreKept`), its slot is down and no other slots but those of modifiers that are held or were pressed with themselves are (`SlotsAreDown`), and held modifiers are declared (`ModifiersDeclared`) |
| | `RemoteHoldsAreExact`, `OnlyUsableDevices`, `TokensAreSingleUse` | the portal backend's holds are what its peer was told and its receipts true; only complete and resumed devices are used; no token is offered twice |
| | `XTestIsExact` | XTEST text produces its characters and modifiers end as they were |
| `atspi` | `SnapshotsAreCurrent`, `HandlesKeepTheirObject` | a snapshot that is called complete is the tree, once the signals up to it are dispatched; a current handle denotes the object it was given for, although providers use paths again |
| | `RegistrationsMatchRuns`, `StreamsAreExact`, `CancellationIsPrivate` | setups that fail half way leave no registration; every stream is closed once and says what it lost; nobody is cancelled in another's stead |
| `desktop` | `WakeupsAreExact`, `VerdictFollowsReadings` | no announced change is lost between subscription, evaluation and sleep, and none wakes twice; sleep and success follow from the readings |
| | `SearchesAreExact` | searches with anchors find the first match, scans the first region, hashes of parts are those of the screen, colours and points are found and read where they are |
| | `AnswersAreExact` | a cut snapshot is the longest prefix that fits, and a selector is answered exactly or refused; polling slows down to its limit |
| | `WaitsAreTrue`, `GivesUpExactly` | visual waits succeed on the captures they claim; the failure tally of a wait, which is kept incrementally, gives up exactly when the history exceeds a limit |
| | `CapturesAreExact`, `DispatchesAreExact` | a capture shows its own frame, over one connection; an action is sent at most once and its receipt says what happened |

Runs that find the code at odds with its own comments (the findings of
`PROJECT.json` quote both sides):

* `cleanup_foreign`: another user's directory in `/tmp` ends every scan, and every
  managed Open with it.
* `wayland_cancel`: a context that ends in the middle of a message leaves the shared
  connection out of step for others (`OthersAreUnharmed`). Of such a stream nothing is
  true any more: the rest of a message may be taken for the answer to a round trip, or
  for an event that takes a global away. The properties of the passing run, in which this
  happens too, therefore end where a message was cut (`stream = "whole"`).
* `atspi_copy`: a `GetItems` reply that overtakes queued `AddAccessible` signals leaves
  wrong child counts in the copy. The passing run's properties except answers from a
  copy that met this race (`unsound`); fresh observations do not use the copy.
* `atspi_orphan`: a caller of `Events` that fails after the last other stream has left
  keeps a dispatcher without subscribers, and every later call waits for it.
* `capture_close`: Close of the screencopy backend may miss the capture that it should
  cancel, and then waits for the compositor.

### Deviations stated as exceptions

In more places the model can do what a reader of the code would not expect.
Where a property meets one of them it names it as an exception, with a history
variable that is set at the step in question and nowhere else; everything
before, after and around it is still checked.

| Where | What | Exception |
|---|---|---|
| `session_infra.go:337` | a signal while startup is between a helper's start and the assignment of its field: `stop` does not see the helper, `stopOnce` is spent, descendants stay | `early` in `StopReachesAll` and `DirectoryGoesLast`, the parts of `RuntimeGoesLast` |
| `input/keysend.go:136` | `{ctrl+control_l down}`: the parser refuses a combination that ends with a modifier but does not know the aliases of the key table; the hold is recorded and the key released | `aliased` in `DownIsHeld`, `HoldsSurvive` of UinputBackend |
| `input/wl_keyboard.go:244` | `{ab}` releases an `a` that the caller holds, as validation looks up the whole name | `loosed` in `SlotsAreDown` |
| `input/keysend.go:158`, `input/wl_keyboard.go:639` | `{ctrl+control_l down}`: the parser refuses a combination that ends with a modifier but does not know the aliases; the key stays down, `clearTempMods` withdraws its bit, and KeyUp is refused as not held (`wl_keyboard.go:706`) | `stranded` in `SlotsAreDown` of WlKeyboard, until the key goes down and up again |
| `session_cleanup.go:198` | a service of the session mounts between the scan's last look at mountinfo (`:225`, `:252`) and `RemoveAll`, which then deletes what is in that file system, although `:204` says that all mounts must be proved gone | `missed` in `SeenMountsAreSpared` |
| `input/wl_keyboard.go:138` | the context ends between the upload of a keymap and the declaration of the held modifiers | `lapsed` in `ModifiersDeclared`, until the next keyboard call |
| `accessibility_owner.go:503` | `Events` may hand out the stream of a retired generation, since `streamCtx` is cancelled on a goroutine of its own; the stream ends when the backend closes | none: no property speaks of it |
| `accessibility/backend_dbus.go:611` | `GetItems` fails while signals have already filled a part of the copy, which is then read as if it were whole | `unsound` in `CachedIsCurrent`, `HandlesKeepTheirObject` |
| `accessibility/events.go:571` | signals sent while no dispatcher runs are lost | `lost` in the properties of AtspiBackend |
| `accessibility/node.go:204-226` | ASCII text that is longer than the limit is cut and `TextTruncated` stays false, so a selector on text is answered from the part that was read | `CutUnmarked` in `SelectionIsExact` |
| `input/xtest.go:185` | a caller that holds Shift changes what text produces; ordinary keys are not recorded as held | `TextIsExact` speaks of calls without such a hold |

Others were met while reading and are outside of what the runs ask: `FindColor` returns
a point in pixels of the image when the output has scale 2 or the rectangle begins
left of the output, although its comment promises the absolute point
(`find/find.go:1215`; colour queries here have scale 1 and lie inside); `WaitFor`
returns 0 and not the last hash when it is cancelled at the top of its loop
(`find/find.go:471`); a crop that reaches outside the output is padded with black,
which a search may match; with scale 2 a clipped rectangle may pass for uniform;
`consumeSetupEvent` ignores a device that is destroyed during setup; another
caller's command may still run between Close's `releaseHeldInput` and the stop of the
writer; `subscribeEventMatches` does not undo an `AddMatch` with an unknown outcome;
after a rescope the locator compares the scope but has no first identity for its
second attempt (`accessibility_locator.go:378`).

One is a choice: a permanent error of one alternative of `Any` ends a wait that
another alternative could still satisfy (`session_wait.go:199`); `Joined` has it so.

### Bounds

Calls are model values; the instances have the smallest number of each that lets
the cases meet: two operations, one inside and one at the gate, either of which may
also arrive after Close; two closers so that one joins the other; three generations
so that a reopen races with a reopen; two waiters so that a wakeup can be stolen;
one application, since each interacts only with Close and its reaper; two helpers,
the second not essential; three calls for one socket, so that a connection can be
closed, dialled again and raced for. Counters that the code does not bound are
bounded by named constants:

* `MaxGens` 3 backends; `MaxNumber` 2, since a fresh backend has the old one's number
  plus one and is abandoned only if the old one has overtaken it twice;
* `changes`, `faults` of a scene (a change, a fault and a recovery), `MaxTime`;
  `LogTime` 4 and `MaxEvaluations` 7, which exceed each of `FailureLimit` 2,
  `TotalLimit` 3 and `StreakBudget` 2 with successes in between (the limits keep the
  order of the source's);
* `MaxActions` and `MaxSends` 2 per batch, `MaxStuck` and `MaxRefusals` 1: how many keys
  or events a failing device or server may refuse; `DynSlots` 2 is less than the keys of a
  batch, so slots run out;
* `MaxChanges` 1 of the compositor's globals; one of three users in `Cutters`, so that the
  other two read after it; `MaxTokens` 3 tokens for three openers;
  `MaxConns` 3 connections for three captures; `MaxRounds` 5 captures and `MaxRepaints` 3 of a wait that
  needs up to 3 equal ones;
* in a world of AtspiBackend two changes happen below one walk, `MaxTracked` 3 objects
  are fewer than the five there are, and a history of one or two changes overflows; in a
  scene of AtspiEvents three callers, since a caller that is cancelled, one that
  waits for it and one that comes later are needed, `Buffer` 1 and three signals;
* images have up to six pixels of two or three shades and references up to four, with
  `Window` and `Fallback` scaled down so that the anchor is used and given up;
  snapshots have three nodes and every budget from too small to ample;
* in `session`, of the calls of a cleanup scene one at most is cancelled
  (`OneGivesUp`) and they begin in a fixed order (`InOrder`), as they are alike;
* in `liveness` each part has one of each call: two operations and two closers, one
  application, one helper, one reopen with one subscription and Close, one wait on two
  facts, two streams and Close, one command with Close and a peer that stops reading.

No symmetry is used. `CHECK_DEADLOCK FALSE` marks instances whose calls all come to
an end; that nobody waits for ever is what `EveryCallReturns`, `WaitsEnd` and
`CallsReturn` say.

### Fairness

Weak fairness of a goroutine's own steps: Go's scheduler runs what can run. A
backend call or an operation's body may block for ever until its context is done,
so only its return after that is fair (`Told(a) /\ CallReturns(a)`,
`o \in cancelled /\ BodyReturns(o)`). Timers and tickers fire. Strong fairness is
assumed in two places: for a pump's `select`, where Go chooses at random among the
ready cases, so a case that is ready again and again is taken
(`ForwardEnds`), and for the entry to a gate, a channel whose waiters Go serves in
order (`EnterGate`). The compositor is assumed to answer in the liveness run of
WaylandContext. Users are never obliged to act, except that the session of the
wait and of the owner in `liveness` is closed at last.

MCLiveness restates each module's fairness conjunct by conjunct, restricted to the
behaviours of its part. A call is made once and neither a cancellation nor a close is
taken back, so "every call that has to return does" is the same as "again and again no
such call is under way": `[]<>Quiet`, where `Quiet` of each module lists those calls.

## 4. What is proved

Every theorem holds for all values of the constants that meet the `ASSUME`s of its
module. TLC evaluates these on every run. Most say that sets of calls are finite, that
`Nil`, `None`, `"free"` and the like are none of the values they stand beside, that
limits are natural numbers, and that a call, a wait, an action or a batch is of one kind.
Three say something of the surroundings: `QueriesAreQueries`, what a caller may ask of
which images (`IsQuery` of ScreenSearch); `KeysAreDistinct`, that the names of the virtual
keyboard's keys are different keys, and `LayoutsAreKeyboards`, that keycodes of the X
server are bytes and that the key of a modifier has nothing else on it that a caller can
name. Invariants were tried with TLC on the runs' instances before they were proved. In
each proof one lemma per action, or per group of actions that disturb the same conjuncts,
shows that the invariant is preserved.

| Property of a run | Theorem | Module |
|---|---|---|
| `ImplementsContract`, `CloseAgreement`, `ShutdownEndsWork` | `KeepsContract`, `ClosersAgree`, `WorkIsEnded` | OperationTrackerProofs |
| `TeardownIsExact` | `NothingIsLeft` | SessionProofs |
| `RuntimeGoesLast` | `RuntimeIsLast` | SessionProofs |
| `BystandersAreSpared`, `ScansAreSpaced`, `SeenMountsAreSpared` | `Spared`, `Spacing`, `MountsSpared` | SessionProofs |
| `NoUseAfterClose`, `ClosedOnceOrOwned`, `CloseIsComplete` | `BackendsAreOpenWhenUsed`, `BackendsAreAccountedFor`, `CloseReturnsLast` | AccessibilityOwnerProofs |
| `NothingRevives`, `StaleEventsEnd` | `TheDeadStayDead`, `OldEventsEnd` | AccessibilityOwnerProofs |
| `HandlesAreSound`, `NoConnectionLeaks` | `HandlesSound`, `ConnectionsReleased` | WaylandProofs |
| `RoundTripIsBarrier`, `UnharmedUntilCut` | `Barriers`, `Unharmed` | WaylandProofs |
| `DownIsHeld`, `HoldsSurvive` | `KeysAreReleased`, `HoldsAreKept` | InputProofs |
| `HeldKeepTheirMeaning`, `RemoteHoldsAreExact`, `XTestIsExact` | `MeaningsHold`, `RemoteHolds`, `XTestIsRight` | InputProofs |
| `OnlyUsableDevices`, `TokensAreSingleUse` | `UsableDevices`, `SingleUse` | InputProofs |
| `RegistrationsMatchRuns`, `StreamsAreExact`, `CancellationIsPrivate` | `RegistrationsAreTakenBack`, `StreamsAreClosedAndCounted`, `CancellationStaysPrivate` | AtspiEventsProofs |
| `WakeupsAreExact`, `VerdictFollowsReadings`, `GivesUpExactly` | `Wakeups`, `Verdicts`, `GivesUp` | SessionWaitProofs |
| `CapturesAreExact`, `DispatchesAreExact`, `WaitsAreTrue` | `Captures`, `Dispatches`, `ScreenWaits` | DesktopProofs |
| `SearchesAreExact` | `Searches` | DesktopProofs |

### OperationTracker

For any sets of operations and closers: type
correctness, `ReleaseAfterDrain`, `ReleaseOnce`, `CloseAgreement`,
`NoChannelPanic`, `GateToken` and the action properties `AdmissionSealed` and
`ShutdownEndsWork`. None of the state
properties is inductive: that release starts after the drain depends on the channel
that the leading closer copied being the one that the last finish closes, which depends
on nothing being admitted after `closed` was set, and on the other closers waiting for
`done`. `IInv` is the conjunction of `TypeOK`, `ActiveInv` (`t.active` holds exactly the
operations between Begin and finish, and `t.activeDone` is an open channel exactly
while there are some),
`LeaderInv` (one closer leads), `DrainInv` (what a closer that waits for a channel
may conclude), `CancelInv` (whatever is active has been cancelled or is still to be, by
the closer that leads), `ReleaseInv` and `ResultInv` (what follows for release and for
what closers return) and `GateToken`. `ShutdownEndsWork` rests on `CancelInv`: the copy
of `t.active` is complete because nothing is admitted after it was made, so past the
cancellations every admitted operation is cancelled (`SentIsEnded`), and the checks
before and after the gate and behind the body see it.

`KeepsContract` is the refinement of TrackerContract. Its mapping shows of a tracker the
phase of the shutdown (`ShutdownPhase`), `t.active`, `t.closeErr` and the answers given
(`Answers`). BeginAdmits is Admit, Finish is Leave, CloseBegins is Shut, ReleaseStarts is
Release, ClosePublishes is Settle and JoinReads is Report; every other step is a stutter.
That Release finds no work and Settle is the first to return comes from `IInv`. The
contract has no fairness: that every call returns is checked by the run `liveness`.

### SessionLifecycle, SessionInfra and SessionCleanup

For any applications, capabilities and calls, `TeardownIsExact`: the invariant `LifeInv`
ties each application that may have a process to where it is found. `LaunchInv`: a
launch that is past the check of `s.closed` has `lifecycleMu`, so once the session is
marked closed nobody starts an application, and an application is launched exactly when
it is in `s.apps`. `CloseInv`: after the mark, an application with a process is still in
what Close has to do, or has its error. `GoneInv`: what was seen gone has no process of
ours, so no stop signals a stranger. `OpenInv`: Close runs only on a session that Open
is done with.

For any sequence of helpers and any of them essential, `RuntimeGoesLast`. Startup, the
signal handler and `stop` share the helpers without a lock. `StartInv`: what has started
is known to `stop` but for the one helper that is being assigned. `StopInv`: how far the
one body of `stop` is, and what has become of the directory. `OrderlyInv` holds as long
as no signal came before startup was over (`~early`): nothing starts any more, each
helper is still to be stopped, has ended or was killed, and nothing is mounted when the
directory goes.

For any directories, calls, times and limits: `ScansAreSpaced`, the action property
`SeenMountsAreSpared`, and `BystandersAreSpared`. What a scan does to a directory is
decided several steps after it looked. `ScanInv` says for each step of a scan what of
the earlier look is still true, and it holds because what decides is stable: an owner
that has died stays dead, and then nobody starts or records a helper (`OwnerInv`,
`PidInv`). Mounts are not stable: anybody may mount again after a look. `MissedInv`:
what is mounted in a directory that a scan is about to remove was mounted since that
scan's last look. `ClaimInv` and `SpacingInv` are about the claim on
`last`: who made it, and that only its maker takes it back. The listing of `/tmp` is any
sequence of the directories that exist, in place of a particular sorted one.

### SessionWait and WaitFailureLog

For any waiters, conditions, sources and number of changes: type correctness,
`WakeupsAreExact` and `VerdictFollowsReadings`. That no wakeup is lost rests on the order
in which a waiter takes its epoch and reads: `HubInv` says that an epoch that is held is
the current one or closed, and that who holds none has read nothing; `WakeInv`, that an
announced change of what a waiter has read has closed its epoch or is on its way
to. That none wakes twice is a matter of counting: `EvidenceInv` bounds the wakeups that
a waiter has counted for a source by the number of that source's notices before its
epoch, a cardinality that a notice raises by one. `VerdictInv` gives for each place of a
waiter what its readings must be there.

For a history of any length and any limits, `GivesUpExactly`. The tally is kept
incrementally and forgets; the history does not. `TallyInv`: the total is the number of
failures in the log, and there is a position from which on all evaluations failed and
before which none did, which gives the length and the beginning of the streak. That there
is only one such position is a lemma, so no recursion over the log is needed.

### AccessibilityOwner

For any finite set of calls and any number of backends, `AccessibilityOwnerProofs`
shows `NoUseAfterClose`, `ClosedOnceOrOwned`, `CloseIsComplete` and that a retired
generation that nobody closes is leased (`RetiredIsClosed`). The reference count has
no owner: it is raised in `acquire`, in the refreshes of the capability and by Close
itself, and whoever lowers it to zero in a retired generation closes the backend.
`CountInv` says that `active[g]` is the number of calls that hold a lease of `g`, each
at a place where it returns it once; `PinInv` that no lease is one of a generation
whose close has begun. From `PlaceInv` (what each place of each kind of call knows),
`GenInv`, `ClosingInv`, `BackendInv`, `FreshInv` (a backend between its opening and its
publication belongs to one reopen) and `CloserInv` (what the leading Close has seen)
the rest follows.

The second half of the module is about the sequence of backends: `NothingRevives`
and `StaleEventsEnd`. `EpochInv` is the mutual exclusion of `epochMu`; `NumInv` orders
the numbers by which handles are told apart: the current backend's is above all that it
replaced, since a replaced backend's dispatcher is stopped before the successor is
numbered and `epochMu` keeps Invalidate out until it is published. `BindInv` orders the
bindings of persistent subscriptions: a reopen waits for every pump that runs, and a
pump completes no binding beyond its own generation.

### AtspiEvents

For any finite set of callers, any families, buffer, retry limit and number of
signals: `RegistrationsMatchRuns`, `StreamsAreExact` and `CancellationIsPrivate`. One
caller at a time sets up (`SetupInv`) and one dispatcher at a time is not over
(`RunInv`), never both, so that at every place of either it is known what the registry
sends (`RemoteInv`), an unknown outcome of a registration included. Whose stream is
closed follows from where its caller is and whether it is listed (`SubInv`), which also
holds between the last subscriber's leaving and the cancellation of its dispatcher.
`FailureInv` counts the setups that failed because their callers were cancelled: each
has a cancelled caller of its own, a waiter's retries are at most as many of them as are
not the one it waits for, and one that gives up has met more than `RetryLimit`.
`DropsInv` carries the running totals of missed events, which a delivery extends, a loss
leaves and the consumer shortens. `DropsAreCounted` asks for these totals with an
existential quantifier, so that no recursion over the channel is needed.

### WaylandSession and WaylandContext

For any finite set of calls and any sockets:
`HandlesAreSound` (a usable connection, one for all handles of a socket) and
`NoConnectionLeaks`. Here `IInv` says that the
cache holds exactly the connections with handles (`CacheInv`), that the reference
count is the cardinality of the set of holders (`RefsInv`), and who may still close
a connection (`CloserInv`, `OpenInv`). The lemmas on `Holders` carry the arithmetic:
a set of handles grows and shrinks by one.

For any users and globals of one connection: type correctness, `RoundTripIsBarrier`,
`UnharmedUntilCut`, and that nobody is harmed at all when `Cutters` is empty
(`UnharmedWithoutCuts`). What is under way means what was sent only until a message is
cut, so the invariant has a part that always holds (`ReaderInv`, `IdInv`, `OkInv`) and
one that holds of a whole stream (`Intact`); that no step makes a cut stream whole again
is a part of every lemma. `ViewInv` is the barrier: there is a stamp for every message under way, the number of
changes that the client will have applied with it, such that applying the announcements
in their order passes through the compositor's views one by one, and an answer comes
after the view that its user had asked in. `IdInv` and `FreshInv` keep the answers of
different callbacks apart, `AskInv` says what an answered user's view has, `ReaderInv`
that one user reads at a time.

### UinputBackend, WlKeyboard, RemoteDesktop and XTestBackend

All four validate a batch against what is held and then send it one event at a time, with
an end possible after each. Their properties speak of what is down between calls; the
invariants say what is left of a batch, that it can still be carried out from the holds of
now, and which keys that are down have yet to be released.

* `DownIsHeld` and the action property `HoldsSurvive`, for any keys and modifiers, any
  batches and any number of stuck keys. `KeyInv`: what is down and not held is stuck or
  will be released, and a key that is held and will be released is `aliased`.
  `BatchInv` gives the second half, since an action never presses what is held.
* `HeldKeepTheirMeaning`, for any characters, keys and modifiers and any number of
  dynamic slots. `MapInv`: the keymap gives every held key the slot that it holds, and no
  two keys the same. This rests on `takeSlot` giving the n-th of the new keys the n-th
  free slot, so that two keys with the same slot would have equally many before them;
  a slot is found by a least number, which well-founded induction gives (`Least`).
  `IsSendable`: what is left of a call is in the keymap and taps nothing that is
  held then. It says nothing of the modifier keys: after one was pressed with itself the
  call may still find that the release it was promised is refused (`RefuseRelease`). `DeclarationInv`: unless it has lapsed, the declaration is behind only
  between an upload and the declaration that follows.
* `RemoteHoldsAreExact`, for any callers, inputs and operations. `RecordInv`: until a
  write fails or the socket is closed, `heldKeys` is what the peer was told. `RunInv`:
  the frames and actions that are left are permitted from `heldKeys`; excepted are combinations
  of a modifier with itself, as in the property. `HandInv` ties the writer's command to a
  call without a receipt, so that a receipt is true of its command.
* `XTestIsExact`, for any layouts and batches. `XHoldInv`: what is held is down and will
  not be released, what else is down is the caller's, stuck or will be released.
  `XActionInv`: while an action is carried out, what it wants is held, pressed or to
  be pressed, and nothing else is pressed. That two wanted modifiers have different
  keycodes follows from `LayoutsAreKeyboards`, and from both that the level at
  which a key is tapped is the one its character is on (`LevelIs`).

### PortalSetup and EisSetup

For any number of processes and tokens, `TokensAreSingleUse`, and that at most one
process is between the lock of the token store and its release (`StoreIsExclusive`). A
token is in one place
at most (`PlaceInv`): the file, one process that carries it, a temporary file that a
dead process left (`TempInv`); one that was offered is in none. `LockInv` says which
steps hold the lock.

For any devices, objects and interfaces, `OnlyUsableDevices`: the identities of all that
is announced are distinct in every phase (`DistinctInv`), not only once the session is
live.

### ScreenCapture, Locator, ScreenWait and ScreenSearch

For any callers, geometries and number of connections: type correctness and
`CapturesAreExact`. `HolderInv` is the mutual exclusion of `ctxMu` between `Lock` and the
last step of a capture; `ConnInv`: the open connection is the cached one, and whoever is
past its connection has it with its own proxies; `FrameInv`: what a frame says of itself
is what is in the shared memory; `ShutInv`: after Close nobody takes the mutex.

For any tasks, `DispatchesAreExact` (`LocatorInv`: up to each place, nothing was sent
twice, and the receipt is that of the place). For any contents and waits, `WaitsAreTrue`
(`ScreenInv`: the streak that is kept is a run of equal captures at the end of the
history, which one more equal capture makes longer and another one starts again).

For images of any size and content, any regions, any number of channels and any values of
`locateAnchorFallbackCandidates` and `locateAnchorWindowBytes`, `SearchesAreExact`. The
invariant only says that what was found is the `Result` of the query; the work is in the
operators, which are written without recursion:

* The exact search. Every anchor that a pass may use lies inside the reference
  (`FirstIsAnchor`, `SelectedIsAnchor`); where all of the reference is, its anchor's bytes
  are, a whole number of pixels from the start of the row (`AnchorIsThere`, from the
  arithmetic of `PixelOf` and `PixelsOn`), so no pass skips a match and what it finds does
  not depend on its anchor (`PassFinds`). That the pixel of the false candidate at which
  the search begins again exists is `NthExists`: of more than n points one has exactly n
  before it.
* Hashes and scans. What is captured of a region has its size and its pixels, whether
  bounds are on the output or at the origin (`Grabbed`); hence the hash of a part of a
  common capture, of a capture of its own and of the frame agree (`HashesAgree`,
  `OwnHash`, `FrameHash`), and the choice that `UseBbox` makes is never seen.
* Colours and points. Translation keeps the first point (`Colours`); scaling up and back
  is exact (`ScaledUp`), and a capture that was clipped is not uniform (`Reads`).

The least and greatest elements that `First`, `Best`, `Min` and `Max` choose exist because
`LeastNat` follows from the well-foundedness of `<` (`WFMin`), and a shortest prefix of a
sequence without bounds would be one number longer than one with bounds (`SeqIsBounded`).

### Only model-checked

* All liveness (`EveryCallReturns`, `WaitsEnd`, `CallsReturn`, `EventsSettle`): fairness
  and ENABLED are beyond the prover.
* `AnswersAreExact`: what SemanticSnapshot's `RECURSIVE` operators
  compute for every input, and what the interval of `AdaptivePoll` is after any number of
  polls, are facts about definitions by recursion.
* `SnapshotsAreCurrent` and `HandlesKeepTheirObject` of AtspiBackend: what a removal revokes
  is the closure of the recorded parents (`Below`), and the copy of a provider's cache is
  adjusted by folds over sets in an order that the code leaves open, so every step of an
  invariant would need facts about definitions by recursion.

`TypeOK`, `NoChannelPanic`, `ReleaseOnce`, `GateToken` and `AdmissionSealed` of
the tracker are proved and not repeated as runs.

## 5. Not modelled

* Window managers, outputs, clipboard, GNOME bridge: exchanges with compositors and
  external programs, whose other half is not in this repository. What the session
  relies on, streams of change hints that may be lost, is the environment of
  SessionWait.
* In the parts that are modelled partly: redaction, `VisibleOnly` and `SkipRoles` of
  snapshots and resolutions that are not fresh; the life cycles of the capture
  backends other than wlr-screencopy, though their decoders are modelled; portal
  sessions without a persistent permission; `poll.WaitFunc`; the reading of an object's
  properties is one step, and signals of the desktop are taken to carry the registry's
  well-known name.
* Wire formats, keymap texts, D-Bus marshalling, OCR, log and diagnostic output, the
  command line.

Worth doing next: the snapshots and handles of AtspiBackend proved, over a closure that is
not a recursive function; window change streams shown to implement the source that
SessionWait assumes; AtspiBackend and AtspiEvents as an implementation of the backend
that AccessibilityOwner's environment describes.
