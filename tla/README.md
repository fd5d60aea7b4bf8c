# Specifications of spider_chrome

TLA+ models of `spider_chrome` (`chromiumoxide`), the Rust client for the
Chrome DevTools Protocol (CDP) in this repository, with the TLC configurations
that check them and the TLAPS proofs about them.  `PROJECT.json` maps every
definition to the lines it models and lists the runs, the faulty variants each
property must reject, the hazards of the code and the theorems.  Paths below
are relative to `src/src/` of the workspace, the crate's own `src/`.

## The system

A program holds `Browser`, `Page` and `Element` handles.  Each handle sends
messages with a one-shot sender to one *handler*, which owns the WebSocket to
the browser, and awaits the one-shot.

| Part | State | Operations | Talks to |
|---|---|---|---|
| `Handler` (`handler/mod.rs`) | `pending_commands`, `navigations`, `targets`, `target_ids`, `sessions`, `closing`, ids | messages of `Browser`, responses, events, target events, eviction, shutdown; driven as a `Stream` (`poll_next`) or as a task (`run`) | everything |
| `Target`, `CommandChain` (`handler/target.rs`, `cmd.rs`) | `init_state`, session, page, initiator, five lists of waiters, `queued_events` | `poll` / `advance`, `on_event`, `on_response`, `on_page_message` | Handler, managers below |
| `FrameManager` (`handler/frame.rs`) | frames, main frame, queue of navigations, the active one with its deadline | frame and lifecycle events, `goto`, `poll` | Target |
| `NetworkManager` (`handler/network.rs`) | requests, two buffers that pair `requestWillBeSent` with `requestPaused`, byte budget, block lists | network and fetch events, eviction of stale entries | Target |
| `CommandFuture`, `TargetMessageFuture`, `PageSender` | message to send, parked send, deadline, one-shot | send or park, deadline, answer; `notify_one` after every send | page channel |
| parallel handler (`handler/parallel/`) | router: slots, routes, parked initiators; one task per target with its own `pending` and `navigations` | routing of responses and events, spawn, shutdown, evictions | bounded inboxes both ways |
| `Connection` (`conn.rs`) | queue of commands, decode pipeline, deferred error | read loop, write loop, connect with retries | socket, Handler |
| `EventListeners` (`listeners.rs`) | queue per listener | add, send, flush, prune | Handler, Target |
| background workers (`bg_cleanup.rs`, `runtime_release.rs`, `cache/`) | once-initialised channels, batches | enqueue from `Drop`, dispatch | Page |
| `dns.rs` | cache with time to live and hard cap | resolve, store, invalidate | Connection |

What is hard: every answer, event, page message, lifecycle report, eviction
tick, crash and shutdown may come in any order; a caller's sender moves between
five places (the message, an entry of `pending_commands`, an entry of
`navigations`, the page channel of a target, the `initiator` of a target) and
must be used or dropped exactly once; the two drivers of the handler are
written twice and differ.  The list `hazards` in `PROJECT.json` names each at
its line, with the properties that cover it or the module that will.

What makes each part correct:

* Handler: a request is resolved once, with an outcome of its kind; nothing is
  held twice or forgotten; commands end; the tables agree with the browser.
* Target: the initialization ends in `Initialized` or `Closing`, each command
  of a chain is sent after the answer to the one before; every waiter fires.
* FrameManager: a navigation is reported once, by the lifecycle of its own
  document, and in the order it was queued.
* NetworkManager: the two events of a request find each other, it is reported
  once, and left alone by the redirect cap until it passed it; what is deducted
  is what is reported.
* Futures: no lost wake-up; a timeout never loses a command half sent.
* Parallel handler: the same promise as the Handler, and slots are released.
* Connection: messages in the order of the socket, errors last; commands in
  the order submitted.

## Modules

| Module | What it is |
|---|---|
| `Promise` | what a handle is promised about a one-shot: at most one answer, never changed, of its kind |
| `Handler` | the event loop, both drivers; implements `Promise` |
| `TargetInit` | one target: chains of init commands, sessions, initiator, waiters, both drivers |
| `Navigations` | what the handler is promised about gotos: in order, one at a time, reported once |
| `FrameManager` | frames, contexts, lifecycle events and navigation watchers; implements `Navigations` |
| `NetworkManager` | requests, interception, redirects, authentication, byte budget, eviction |
| `PageChannel` | the futures of a page, its bounded channel, the `Notify` and the drain of `run()` |
| `ParallelRouter` | the parallel handler: router, session tasks and the channels between them |
| `MCHandler`, `MCFrameManager`, `MCParallelRouter`, `MCNetworkManager` | instances for TLC: symmetry of the handler; slices of the other three |
| `HandlerProofs` | `TypeCorrect` |
| `HandlerSafetyProofs` | `NavigateAnsweredLast`, `NoGhosts`, `DropsAreDue` |
| `HandlerPromiseProofs` | `HeldOnceAlways`, `PromiseKept`, `NavigationsAreTracked` |
| `FrameManagerProofs` | `FrameTypeCorrect`, `TreeKept`, `WorldsStayAlive`, `NewDocumentIsLoaded`, `FollowsMainAlways`, `NavigationsImplemented` |
| `PageChannelProofs` | `NoWakeUpIsLost`, `GaveUpNothingDone`, `ChannelTypeCorrect`, `NavigationAwaitedInFull` |
| `TargetInitProofs` | `InitTypeCorrect`, `CommandsOneByOne`, `WorkIsPolled` |
| `ParallelRouterProofs` | `RouterTypeCorrect`, `TablesStayTogether`, `GotoCompletes`, `RoutesLeadSomewhere` |
| `NetworkManagerProofs` | the safety invariants of `NetworkManager` |

How they fit.  `Handler` is the whole loop with its components reduced to what
the loop can observe: a target's chains are one command, its frame manager
reports any result, its page channel is a set.  `TargetInit`, `FrameManager`
and `PageChannel` open these three up, one target at a time, with the handler
as their environment.  `NetworkManager` is the fourth part of a target; what
it reports is used by nothing else that is modelled.  `ParallelRouter` is the
other way to drive targets and stands beside `Handler`.  `Handler` keeps its
queued navigations as a set, so that the order in `Navigations` is a promise
of `FrameManager` alone; the link between the two is prose.

Every faulty variant of a definition (`...Unguarded`, `...Silently` and so on)
stands before the definition it spoils; its comment says what is wrong.

### Handler

Correspondence with the code:

* A *caller* is one one-shot sender.  A `NavigationId` is the caller that
  navigates (`next_navigation_id` never repeats), so `navigations` maps callers
  to the state of their `NavigationInProgress`: `started`, `responded`
  (`response` is set), `navigated`.
* `pending[i]` is the entry of `pending_commands` for call id `i`: its kind, its
  sender, the target it is bound to.  An `InternalCommand` is listed by its
  method, since `maybe_store_attach_session_id` looks at it.
* `tgt[t]` has the fields of `Target` the loop depends on.  `page` is the
  session the `PageHandle` was made with: the page keeps sending on it after a
  new session is attached.  `inbox` is the page channel together with what
  `run()` moved to `queued_events`.  `queued` and `active` are the
  `FrameManager`'s; `frame` says whether it has a main frame, without which
  `goto` drops the request.
* `Serving` and `Polling` are the control of the two drivers while they close:
  `run()` stops reading at once and polls the targets once more; `poll_next`
  ends its round, and returns at the first response.
* `Full` is `try_send` on the full writer channel, possible in `run()` only.
* One action per message, event or target event, with all that its handler
  does: `AnswerGetTargets` runs `on_target_created` for every target listed,
  `TargetCrashed` cancels, forgets and drops, `Evict` takes every entry that is
  too old at once, and so on.
* `world`, `claimed`, `link` are the browser, as far as it constrains the order
  of what it sends: a target is created, lives and goes; a session is made by
  an attach command or otherwise, attached and then detached; one
  `createTarget` answer per target.  It may withhold any answer.
* `sentNav`, `answeredNav`, `loadedNav`, `homeless` are history variables for
  the properties.

What is abstracted: time (an entry may be evicted whenever it is pending: time
stamps do not follow call ids, because `run()` uses the time its round began);
the chains of initialization commands are one command with one deadline; the
frame manager may report its active navigation as loaded or failed at any
time; the filter by browser context is a choice; the per-round budgets only
limit how much one round does, and any order of steps is allowed here; commands
other than those listed carry no state.  `GetPages` and `InsertContext`,
`AddEventListener` are read and answered in one step and hold no sender;
the effect of `GetPage`/`GetPages` on a target is `GetPage`.

### TargetInit

`phase` is `init_state`, where `InitializingFrame` is split into the chain of
the frame manager and that of the isolated world, which the code runs in the
same state.  `sent` and `waiting` are the `CommandChain`.  `woken` says that the
handler will poll the target again: a poll that reports an event is followed
by another, one that reports nothing ends the debt, and everything that reaches
the target, or wakes the handler's task, renews it.  `poll_next` reads the page
channel only in `Initialized` and fires `WaiterBudget` waiters per poll; `run()`
empties the channel before each poll (`ReadPage`) and fires them all.  Calls on
the wire remember the `Target` object they were made for, because a target that
`on_target_created` replaces may get the answers meant for the one before it.
A session may be attached and detached at any time; an answer may never come.
The other kinds of waiter are drained by the same helper, and the getters are
answered where they are read; neither is modelled.

### FrameManager and Navigations

One action per event handler, plus `goto` and `poll`.  The browser numbers the
documents it commits; `DocumentCommitted` is the lifecycle event `init`, whose
parameter `own` says whether the commit was caused by the active navigation's
`Page.navigate` (`served` remembers it).  `PageLifecycleEvent`,
`FrameStoppedLoading` and `FrameStartedLoading` may come late or not at all.
`frames` is the map of frames with parents and children as the code keeps them,
in both directions; `contextIds` is the map that finds the frame of an execution
context, `alive` what the browser has.  `carried` marks the contexts that a
frame keeps when the main frame changes its id: `context_ids` names the old id,
so no later event finds them.  Deadlines are a flag that may be set at any time
while a navigation is active.  Of `expected_lifecycle` only `load` is modelled,
the default of `goto`.  `ImplementsNavigations` maps the ids of
`pending_navigations` and of `navigation` to the queue and the active entry of
`Navigations`.

### NetworkManager

A hop is the number of redirects a request has made; its interception id is
named after the hop it was given for.  `hop`, `told`, `held`, `over` are
Chrome: each hop is announced once by `requestWillBeSent`, or the event is
lost, and paused once, in either order; a redirect starts
the next hop only after the one before was sent.  The queue of `NetworkEvent`s is read by the
target in order and is reduced to what it says: `open` and `twice` count the
verdicts, `reported` sums `BytesConsumed`.  `forgotten` marks the attempts that
`evict_stale_entries` drops because their request is not tracked.  The age of an
entry is its own step (`Ages`): `old` holds the entries that passed the limit of
their table, and the tick drops exactly those.  The tick is there only with
`Serial`: a session task of `run_parallel()` never calls `evict_stale_entries`.
`stopped` are the requests for which `Page.stopLoading` was queued.  Left out is
the decision between continuing, fulfilling and failing a paused request, which
looks at its url and type, the block lists, `document_reload_tracker` and the
url of the document, and of which every pause gets one answer; that the answer
is given exactly once is therefore not checked.

### PageChannel

A poll of a future is split where another thread can see it: the message is in
the channel (`pushed`) before `notify_one` runs (`NotifyOne`).  The channel is
tokio's: when a message is taken, the room goes to one future that waits, which
uses it at its next poll (`granted`).  `HttpFuture` is a command and then a
navigation, whose delay starts again (`NavigationNext`).  `send_msg` and
`recv_msg` of `PageInner` are the same future with `tokio::time::timeout`
around each half, which drops it (`Cancel`).  The loop is a `round`, in which
every page is drained up to `Budget`, or `waiting` in `select!` for the permit
or any other event; a permit given while it runs ends the next wait at once.

### ParallelRouter

Every `.await` on a full channel is a state: `hand` is the send the router
awaits, `sending` the call for which a session awaits room at the writer, and
`work` what its `drive` has still to submit.  A submission has the code's three
moments: `Submit` mints the id and routes it, then the task waits, and `Written`
puts the call on the wire and notes it in `pending` (and `navigations`), or
`WriterGone` refuses it and leaves the route.  Putting and noting are one step:
only the task itself reads what it notes.  The inbox of a
session is a bounded sequence, the lifecycle channel another, written with
`try_send`, and `wire` the third, drained by the writer until the socket fails.
`phase` is where a session task is: driving, in `select!`, in its exit or
ended.

Chrome may make several sessions of a target, for the attach call of its task
and for users of `Browser::execute`; `link` says of which target and for which
call each one is.  The attach event and the answer register them on two paths,
a later one takes over `named` (`session_id` of the entry) and the earlier keeps
its place in `bySession`, and the end of any of them shuts the task down.
Chrome may answer `createTarget` before `targetCreated`, attach by the
event before the answer, destroy or detach at any time, and withhold any answer
or event.  `stage` is what is left of `init_state`: `InitEnds` ends the chains of
an attached target, and `HandPage` answers the initiator of an initialized one,
only when the main frame is loaded, which events of the session bring and take
away (`mainLoaded`).
A call stands for its `CallId`, since ids are minted once; a slot for its target.
`RouterEnds` is both ways out of the loop.  The ticks of router and sessions may
evict any set of entries.  `lost` remembers a `Detached` that found the lifecycle
channel full.

## Runs

| Run | Instance | Shows |
|---|---|---|
| `handler_safety` | 2 callers, 1 target, 2 sessions, 3 calls, both drivers | `TypeOK`, `HeldOnce`, `NavigateNeedsBoth`, `NavigationTracked`, `NoGhostSession`, `KeepsPromise`, `NoSilentDrop` hold; about 1.7 million states up to symmetry |
| `handler_liveness` | 1 caller, 1 target, 1 session, 6 calls, fairness | `CommandsAnswered`, `NavigationsEnd` hold; about 72,000 states |
| `handler_double_navigate` | 2 callers, 1 target, 1 session, 4 calls | `OneNavigateSent` is violated |
| `handler_crash_navigation` | same | `CrashLeavesTimeout` is violated |
| `handler_fetch_targets` | same | `FetchKeepsInitiators` is violated |
| `frame_navigations` | 2 ids of the main frame, 2 child ids, 2 gotos, 2 contexts, 2 documents, cap 1 | `TypeOK`, `TreeConsistent`, `WorldsAlive`, `FollowsMain`, `LoadedDocument`, `ImplementsNavigations`, `NavigationReported`; about 247,000 states |
| `frame_own_document` | 1 main frame, 2 gotos, 2 documents | `OwnDocument` is violated |
| `page_channel` | 2 futures, one an `HttpFuture`; capacity 1 or 2, budget 1 | `TypeOK`, `NoLostWakeUp`, `GaveUpUnsent`, `NavigationFullTimeout`, `MessagesProcessed`, `EveryFutureEnds`; about 112,000 states |
| `target_init` | 3 users, chains of 2 commands, budget of 1 waiter, 1 replacement, 2 attachments, both drivers | `TypeOK`, `OneCommandAtATime`, `NothingStalls`, `InitializationEnds`; about 875,000 states |
| `parallel_router` | 1 target that is initialized, 1 to be created, 2 callers, 3 sessions, all channels with room for 1, 2 events, in four slices | `TypeOK`, `RoutesPending`, `TablesAgree`, `NavigationComplete`, `RouterUnblocks`, `EveryCallerEnds`; about 417,000 states |
| `parallel_router_reap` | 1 caller, 1 target to be created, 1 session | `SlotsReaped` is violated |
| `network` | 1 document, 1 data url, 2 redirects, cap 1, budget 2, sizes 1 and 3, declared lengths 2 and none, the serial handler, in two slices | `TypeOK`, `NeverWaitsTwice`, `OneVerdict`, `StoppedBeyondCap`, `BudgetConserved`, `CredentialsOnce`, `CredentialsAsked`, `EntriesLeave`; about 265,000 states |

Bounds of the handler.  `MaxCalls` bounds the commands on the wire, answered ones included:
it disables steps that would send more, except where `run()` may drop them.
Three are enough for the attach command, the initialization command and a
command, or for two user commands and a fetch that collide; the proofs remove
the bound for what they cover.  Two callers suffice to have one request evicted,
dropped or answered while another of any kind is in progress; two sessions to
have a target reattached.  In `handler_liveness` one caller and the target can cause at most seven commands
(TLC finds no more with a larger bound): `Target.getTargets`, and the attach,
initialization and, when that fails, `Target.closeTarget` of the target and of
the one that replaces it.  Six calls leave out only the seventh, the
`closeTarget` of the second target, by when the one caller has its answer.

Bounds of the others.  Two navigations are one that is active and one that is
queued; two documents are the one before a goto and its own; a cap of one is
passed by the second commit.  `MCFrameManager` splits the behaviours in two,
those without contexts and child frames and those without navigations, which
share only the tree of frames; `FrameTypeCorrect` and the other theorems speak
of `FrameManager` unsplit.  A channel of one message is full at once, which is
when futures park, the router waits and `try_send` fails; a budget of one
leaves something over as soon as there are two.  Three users of a target
are one command and two waiters, one more than the budget.  A chain of two
commands has a first, a last and an order.  Two redirects pass a cap of one.
Against a budget of 2, a response of size 1 without a declared length leaves
something, a second one uses it up, one of size 3 saturates, and a declared
length of 2 does not fit what size 1 leaves; `BytesAddUp` covers all others.

`MCParallelRouter` has one target whose page is there and one that is still to
be created, of which a behaviour uses one, in one of four ways (`slice`): a
caller may ask for the new page; a caller may attach a second session to the
new target, the one that takes over; a caller uses the page while Chrome sends
two events, as many as a goto needs to be loaded and the main frame to change;
two callers use the page without events, so that their calls meet in the
channels.  The router treats the targets alike, and the slices share nothing
but the channels: the graph of all four at once is too large for the liveness
check.  Sessions are alike, and so are callers, so both are taken in one order.
No slice of it blocks a step that fairness asks for.

`MCNetworkManager` splits the behaviours in two: in one, requests of both kinds
share budget and modes; in the other only the document is announced and its
entries grow old.  `EntriesLeave` is a question to the second: fairness makes
entries grow old.

No run checks deadlock: every part may really stop, as a handler that has
ended, a target that is gone, futures that are all done, a browser that commits
no more documents, or a network manager whose settings no user changes.

Fairness (`Fairness` in `Handler`).  The eviction of every pending entry: the
periodic job wakes the handler for as long as it is polled, and an entry gets
older.  The polling of the targets: every round of either driver polls every
target, and the deadline of an active navigation and of a chain is checked
there.  The shutdown once `closing` is set.  Nothing is assumed of the
browser, and no caller has to ask for anything.

Fairness of the others.

* `FrameManager`: `Poll`, since every round polls every target, and
  `DeadlinePasses`: time goes on.  Nothing of the browser's events.
* `TargetInit`: `Poll` and `ReadPage` of a target that is woken, the passing of
  a deadline, and `Tick`: the periodic job of the stream and the interval of
  `run()`, without which a deadline is never looked at.
* `PageChannel`: a future that can make progress is polled (its waker was
  called), its delay runs out, the loop goes on, and `OtherEvent`, the interval
  of `run()`, comes for ever: it is what rescues messages beyond the budget.
* `ParallelRouter`: every task, the ticks, the end of the chains of an attached
  target (their deadline passes and a tick finds it), and a writer that takes
  calls while the socket does, or closes.  Nothing of Chrome: the page of an
  initialized target is handed out only if its main frame happens to be loaded.
* `NetworkManager`: an entry that stays passes the limit of its table, and the
  tick comes again and again, in the serial handler only (`mod.rs:1074-1077` and
  `1418-1421` are the callers).  A sweep drops what is old at that moment; an
  entry written anew has to age again.

What the five violated runs say is in `findings`.  `run()` submits
`Page.navigate` itself and again when the `FrameManager` asks for it, and so
does a session task of the parallel handler (the calls `navigate` and
`renavigate` of `ParallelRouter`); a crash leaves navigations that no
timeout reaches, against the comment of `on_target_crashed`; the answer to
`FetchTargets` replaces a target whose page somebody waits for; a goto can
be completed by a document, or a change of the hash, that it did not cause,
because its watcher notes the loader when it is queued and not when it starts;
and the slot of a session task whose `Detached` was lost is never reaped,
against the comment at its `try_send`.

Two more disagreements follow from the models and have no run.  `EntriesLeave`
is a property of the serial handler: with `Serial` false, as in the session
tasks of `run_parallel()`, nothing evicts, and an entry whose other events are
lost stays, although `network.rs:615-618` says that lost events "cannot cause
unbounded map growth".  And a listener of `Fetch.requestPaused` sets the flag of
an enabled `Fetch` without enabling it (`target.rs:871-877`): the announced hops
then wait for pauses that never come, and `max_redirects` aborts nothing.
`StoppedBeyondCap` says only that the cap never strikes too early.

Some properties hold only with an exemption that says what the code leaves
open.  `WorldsAlive` exempts contexts carried over a change of the main frame's
id.  `OneCommandAtATime` exempts answers meant for a replaced target.
`InitializationEnds` exempts a target that never gets a
session, for which no deadline runs.  `EveryCallerEnds` exempts the initiator
that such a target holds, one that holds it while its main frame is not loaded,
for which there is no deadline either, and one that got it when it was closing,
where `advance` returns before it looks.  `NoSilentDrop` lists the drops the code
means: the end of the handler, the loss or replacement of the target that holds
the sender, and what `run()` refuses with a full writer channel or for a closing
target.  `TablesAgree` and `RoutesPending` exempt a task on its way out, a
`Detached` that was lost (which `SlotsReaped` does not exempt), calls refused by a
writer that is gone, and, for the names of sessions, a target that got a second
one.  `NoLostWakeUp` exempts messages beyond
the budget of a drain, for which `MessagesProcessed` needs the interval.
`CredentialsOnce` exempts attempts the eviction forgot, and `CredentialsAsked` a
flag that a listener set without `Fetch.enable`.

## Proofs

`TypeCorrect` (`Spec => []TypeOK`): for every set of callers, targets and
sessions and every bound, from the two assumptions of `Handler`: `None` is
none of them and no call id, and `MaxCalls` is a natural number.  `TypeOK` is inductive; the
records `PendingRequest` and `Target` carry the facts it needs (an entry of an
owning kind has a sender, an internal one a target, a channel needs a page).

`NavigateAnsweredLast` (`Spec => []NavigateNeedsBoth`): `NavigateNeedsBoth`
alone is not inductive.  It is strengthened by `KindsMatch`, what every place
that holds a sender or the id of a navigation says about what its caller asked
(an entry that answers `Ok` on a plain response never belongs to a
navigation), and by `NavigationMatches`, what the state of a navigation says
about its history.  `KindsNext` shows that every step keeps the kinds, one lemma per
group of actions; `OtherOk` that only the response and the lifecycle can give
`Ok` to a navigation; `NavigationOk` that these two do so only when the other
has happened.

`HeldOnceAlways` (`Spec => []HeldOnce`): the inductive invariant `IInv` adds to
`HeldOnce` and `TypeOK` three facts.  `FreshIds`: a call id not given out has no
entry, or `submit_command` would overwrite the entry that holds a sender.
`Claimed`: a target gets at most one initiator, since the browser answers one
`createTarget` per target, or a second one would replace the first.
`KindsMatch`: the initiator of a target asked for a page and what is in its
channel did not, so that taking a message out of the channel leaves the caller
in no other place of the same target.  `HeldFor` is `HeldOnce` for one caller,
and each step does one of three things to a caller: it leaves it where it is
(`UntouchedHeld`), resolves it and removes it from its only place
(`ResolvedHeld`), or moves it to one other place (`ToPendingHeld`,
`ToTargetHeld`, `ToNavigationHeld`).  `EntriesRemoved` and `TargetsReplaced`
say what goes when several entries or targets do: eviction, crash, fetch.

`PromiseKept` (`Spec => KeepsPromise`): the refinement.  Under `IInv` every step
is an `Ask`, a `Resolve` or a stutter of `Promise`: by `HoldersWait` whoever a
step resolves was still waiting, and `KindsMatch` gives that the outcome is one
of its kind.

`NoGhosts` (`Spec => []NoGhostSession`): `SessionsInv` adds three facts.
`Numbered`: while the attach command that made a session is still pending, the
session is open and is of the target in that entry, and unless the target is
gone the attach event has already registered the session under it, so the
answer finds it there.  `Registered`: the session a target took is in the table
under that target for as long as it is open.  `Vacant`: a target the
handler does not know has no session.  Most steps only let go of sessions
(`Continues`); the attach event, the attach answer, the detach event and the
removal of a target have a lemma each.

`DropsAreDue` (`Spec => NoSilentDrop`): an action property that needs types
only; `DropsNext` goes through everything that makes a sender `canceled`, in both
drivers.  A refusal by `run()` is told from every other drop by the message it
takes: it sends nothing, and the sender was in no table before.

`NavigationsAreTracked` (`Spec => []NavigationTracked`): a navigation is
resolved by two reports, and the invariant has to say of each that it can
still come.  `Followed`: while the lifecycle is to come, the frame manager has
the navigation queued or active; while the response is to come of one whose
`Page.navigate` was asked for, that call is pending.  `Untaken`: what is in a
page channel was never given to a frame manager, so that taking it out cannot
disturb a navigation that is under way.

`FrameTypeCorrect`, `FollowsMainAlways`, `NavigationsImplemented`
(`FrameManagerProofs`).  `TypeOK` is split into four parts (frames, contexts,
navigations, documents), and each action is shown to keep the parts it touches
and to stutter on the rest.  `FollowsMain` needs no more than that: only
`FrameNavigated` and `FrameTree` change the main frame, and `Follow` moves the
watcher; `Poll` never starts a watcher while another is active.  The refinement
maps sequences of watchers to sequences of ids: `Goto` appends, `PollPending`
takes the head, a verdict ends the active one, and everything else stutters.

`TreeKept` (`Spec => []TreeConsistent`).  `Under`, what
`remove_frames_recursively` removes, is the smallest set that follows the lists
of children, so that a proof about subtrees exhibits a set that is `Closed`
instead of an induction.  One fact makes `TreeConsistent` inductive: the main
frame has no parent (`Rooted`).  From it and from every frame being reached,
`NoCycle` gives that no frame has its parent below it, which is what a
navigation of a child needs: the frame stays while all below it goes.
`NothingRemains`: a navigation of the main frame leaves nothing else.

`WorldsStayAlive` (`Spec => []WorldsAlive`).  `KnownWorld`: a world that was not
carried along is alive and `context_ids` names its frame, so the event that
destroys the context finds it; and no context is both worlds of a frame, where
`destroy_context` would clear only one.

`NewDocumentIsLoaded` (`Spec => LoadedDocument`).  `LoadInv`: of the ids a main
frame may have only the main frame's is in the table, it has a url, and a
`load` among its events belongs to the document it shows; no other frame has
events.  `EndedByPoll`: nothing but `poll` ends the active navigation.

`NoWakeUpIsLost`, `GaveUpNothingDone` (`PageChannelProofs`).  `NoLostWakeUp`
speaks of the loop while it waits, but a message may reach a page that was
drained earlier in the round: `Noticed` says the same of every page the round
is done with, while there is no permit, and is inductive.  For the other,
`Handed` are the messages of futures that got past the channel: it only grows,
and holds all that is in a channel or was taken.

`NetworkTypeCorrect`, `NoMissedMeeting`, `AtMostOneVerdict`, `NoEarlyStop`,
`BytesAddUp`, `NoSecondAttempt`, `FetchEnabled` (`NetworkManagerProofs`).  The
invariants need each other and four more: `Tracked` (what is in `requests` was
reported, so a verdict is due), `Ordered` (a buffered hop is newer than the
tracked one, and chains are no longer than the hops made, which is why the cap
never strikes early), `Remembered` (a hop that got the credentials is past its
pause and its announcement, so that no step but its end or the tick drops the
attempt) and `ModesAgree` (credentials come with the
flag, the flag with `Fetch.enable` or a listener).

`ChannelTypeCorrect`, `NavigationAwaitedInFull` (`PageChannelProofs`).  That a
channel never holds more messages than its capacity is not inductive: a
message taken out hands its room to a future that waits, which uses it later.
`Counted` bounds the messages and those grants together, as the semaphore does
(`ChannelBounded`).  `Awaited`: a delay that ran out in the second part of an
`HttpFuture` was awaited there, since the switch resets it.

`InitTypeCorrect`, `CommandsOneByOne`, `WorkIsPolled` (`TargetInitProofs`).
Answers are matched by method alone.  `OneInv` says why that is enough: no call
on the wire is from a `Target` to come, and of the present one there is at most
the command awaited (`Single`, which also covers targets that are gone, where
nothing may be left).  `NothingStalls` is inductive with the types.

`RouterTypeCorrect`, `TablesStayTogether`, `GotoCompletes`,
`RoutesLeadSomewhere` (`ParallelRouterProofs`), for any capacities of the
channels and any number of sessions of a target.  `TablesAgree` is proved in two
parts, `Registered` (the entries and sessions) and `Ending` (the entry of an ended
task is about to go).  `Linked`: what is told to a task about a session is about
a session of its target.  `Reported`: a task's `Attached` comes while its entry
is there, and its `Detached` comes last.  `Spawned`: a task runs only for an
announced target that has an entry.  `LeavingNext`: a task that is leaving goes
on leaving until its entry is gone.
`Authentic`: no message, table or channel holds a call that its caller did not
ask for.  `Recorded`: the record of a navigation says only what has come.
`Fresh`: an id is used once, so a call still to be submitted is on no channel
and in no table, and one that is being sent is only routed; `RoutesInv`: an
answer on its way to a session has left the
routing table.  The `Flow...` lemmas say what each step adds to what is under
way, and the invariants are shown through them.  `NamesAssumption` says that
targets, callers, `None` and the name of the writer's channel are different
things, as their Rust types make them.

All of these hold for every value of the constants under the named
assumptions of their modules.

Every safety property of a passing run is proved.  Only model-checked are the
liveness properties, which the prover cannot do under fairness:
`CommandsAnswered` and `NavigationsEnd` of `Handler`, `NavigationReported` of
`FrameManager`, `MessagesProcessed` and `EveryFutureEnds` of `PageChannel`,
`InitializationEnds` of `TargetInit`, `RouterUnblocks` and `EveryCallerEnds` of
`ParallelRouter`, and `EntriesLeave` of `NetworkManager`.  The five violated
runs are counterexamples and need no proof.

## Plan

1. Proofs: what the liveness properties rest on and TLAPS can state, such as
   steps that only ever bring an end nearer; then the modules below.
2. `ParallelRouter` implements `Promise`: one answer per caller is in
   `Resolved` by construction there, so the refinement is worth its run only
   together with a model of the one-shots.
3. `EvictTimer`: time stamps, the period of the job and the strict comparison.
   A command is never evicted before `request_timeout` has passed and always
   within a multiple of it.
4. `Conn`: the decode pipeline implements a queue; the write loop.
5. Smaller modules: listeners, background workers, the round-robin over
   `target_ids` and the DNS cache as pure algorithms against reference
   definitions.

## Not modelled

The parts with status `not_modelled` in `PROJECT.json`, each with its reason:
those of the plan, and those without a protocol of their own (operating-system
helpers, conversions, generated CDP types and their generator, the fetcher).
Nearly nine tenths of the lines of the repository are the generated types
(`cdp/src/cdp.rs`, `pdl/src/cdp.rs`): data definitions without behaviour, which is
why the share of mapped lines stays small however much of the client is
modelled.  `page.rs`, `browser.rs` and `element.rs` are mostly methods that build
one command and await its answer; what they rely on is `Promise` and
`PageChannel`.  Of the parts that are modelled, each `note` in `PROJECT.json` says
what is left out.
