# Mayfly in TLA+

Mayfly serves short-lived chats for people and agents, in two implementations of
one protocol (`srv/docs/protocol.md`): a Go server (`srv/`) and an edge
deployment on durable objects (`celld/native/`) that adds managed retention,
wikis, reports and summaries. This directory models the parts that carry
concurrency, failure and order, checks them with TLC on small instances, and
proves their safety for every instance with TLAPS: every invariant that a passing run
checks is a theorem, and both chat servers, the channel store and the edge deployment's
Chat object, are proved to implement the abstract log.
Liveness is model-checked.

Contents: [inventory](#inventory), [modules](#modules),
[runs](#runs-and-what-they-show), [findings](#findings),
[proofs](#proofs), [assumptions](#assumptions-that-are-not-checked),
[not modelled](#not-modelled), [plan](#plan).

## Inventory

Each part with its state, its operations, what is hard about it and what makes
it correct. PROJECT.json lists the same parts with their sources and status.

### Go channel store and event handlers (`srv/store.go`, `srv/api.go`, `srv/server.go`)

- State: SQLite rows of channels and events behind a pool of one connection; in
  memory, `waiters`, a map from channel id to a Go channel that is closed to
  wake sleepers; `stopping`, closed by a graceful stop.
- Operations: create, append with the sender's cursor as precondition, paged
  read, long poll, delete, reap by retention, stop, restart.
- Interaction: one goroutine per request and one reaper share the pool and the
  map; clients hold cursors the server never stores.
- Hard: a poll that subscribes and reads between another request's commit and
  its notification; deletion and reaping under a sleeping poll; a reply lost
  after a commit; the same id created anew while requests of the old channel are
  in flight; conflict pages read in a second transaction.
- Correct when: a post is accepted only from a client that received everything
  before it; a cursor acknowledges only what its holder received; no reply
  misstates what happened to its post; no wakeup is lost; the map does not leak.

### Creation quota (`srv/quota.go`, `create` of `celld/native/worker.ts`)

- State: a token bucket per address, in memory; at most `maxQuotaIPs` of them.
- Operations: look at the bucket, create the chat (which may fail), pay; evict a
  random bucket at the limit.
- Hard: requests read the clock before the lock and pay after the creation; the clock
  may be set back; an evicted bucket starts full again.
- Correct when: while a bucket is kept, what an address paid came from its burst and
  from time that gave back one token per interval, each interval once.

### Browser page session (`srv/browser/session.js`, `poll.js`, `view.js`)

- State: the name and whether it is locked, unresolved post attempts
  (evidence), the delivered cursor, a promise queue of deliveries, one poll loop.
- Operations: rename, send (up to 50 tries of seal and post), deliver a page,
  poll, stop when the channel is gone.
- Interaction: posts and long polls to the server; the poll's pages and the
  sends' conflict pages are folded through one queue.
- Hard: every operation yields (crypto, network, the queue); a post that fails
  for the page may be accepted, even later; pages overlap; sends wait for
  deliveries that other sends and the poller queue.
- Correct when: one page speaks under one name; one send posts at most once;
  every event is presented once and in order; nothing waits in a circle.

### Chat object (`celld/native/worker.ts`, class Chat)

- State: one channel row with its generation, events, creation receipts,
  waiters, an expiry alarm.
- Operations: `_create`, read, poll, post (which awaits body and moderation),
  delete, expire, alarm.
- Hard: the awaits of a post overlap expiry, deletion, re-creation and other
  posts; alarms of one generation meet the next.
- Correct when: what is stored was authorized in the present generation and by a
  sender that had read everything before it; no poll sleeps on something it could
  answer; an abandoned chat is erased.
- Modelled in two views: the unmanaged chat and its handlers (`CelldChat`), and its
  creations, receipts and restoration as the gate sees them (`CreationJournal`).

### Creation gate and journal (`celld/native/worker.ts`, class CreationGate; `reports.ts`, `reporting-core.ts`)

- State: a promise queue, quota buckets, `report_chats` (the journal of creation
  attempts), `report_windows`, an alarm.
- Operations: create (journal row, call to the Chat, charge and recorded mark),
  recovery of pending rows by alarm and by cron, closing a report window.
- Interaction: creation spans two durable objects with no common transaction;
  replays are answered from the Chat's receipts; redeployments switch reports and
  the encryption mode.
- Hard: a lost process, call or answer between the Chat's commit and the gate's;
  retries by the client and replays by the gate of the same attempt; deletion and
  restoration of the chat in between.
- Correct when: an attempt creates at most once, is charged at most once and only
  if it created, is acknowledged only to the owner, and is counted exactly in the
  hour of the attempt; every hour is reported in the end.

### Report windows and outbox (`celld/native/reports.ts`, `reporting-core.ts`)

- State: the settings as last observed and the gaps in which reports were off, an
  hourly and a 12-hour window, queued mails with recipient and backoff, an alarm.
- Operations: observe, close a window, queue a mail, cancel by policy, look a
  recipient up, send, retry, clean up.
- Hard: settings change by redeployment while mails wait, recipients are looked up
  and sends are unanswered; reports are off for a while and on again.
- Correct when: a report that missed creations says so; a mail has one reader and is
  not sent after an opt-out; windows and mails come to an end.

### Managed resource lifecycle (`celld/native/management-lifecycle.ts`, `management-core.ts`, `management-storage.ts`)

- State: a record (state, policy, deadlines), at most one job with a stage and a
  cursor, verified receipts, the content tables, attachments in a bucket, backup
  objects in archive storage, an alarm.
- Operations: archive, expire, delete, restore, cancel, policy edits; the alarm
  advances a job one step at a time.
- Interaction: request handlers, administrator and alarm interleave at every
  await of storage; the content belongs to the chat or wiki object.
- Hard: storage calls that fail after taking effect, process loss, a cancel that
  replaces the job under an awaited call, writes that checked availability before
  an archive began.
- Correct when: a verified backup is all of the frozen content; nothing is erased
  before that; deleted means empty; a restore gives back the backup; a job ends.

### Management catalog and its replication (`management-lifecycle.ts` push/send, `management.ts`)

- State: the version and the dirty mark of a resource's record, one push in memory,
  the alarm; the catalog's row, by version.
- Operations: save with a mark, flush at the end of a request, push (up to three
  requests, each with a time-out), register, the alarm.
- Hard: versions saved while a push is awaited; requests that reach the catalog after
  their time-out, out of order, or never; a process lost with the push.
- Correct when: an unmarked record is in the catalog as it is; a mark has an alarm or
  a request about to set one; the catalog never goes back and catches up.

### Administrator sign-in (`management-auth.ts`, `management.ts`)

- State: noted (used) sign-in states, bounded by eviction; sessions; the sweep's alarm.
- Operations: login, callback around the exchange with the provider, logout, sweep.
- Hard: callbacks repeated while the first awaits the provider, after an eviction, or
  in the tick in which the sweep forgets a state.
- Correct when: a sign-in starts at most one session, and no session waits without an
  alarm to sweep it, unless the object was lost between the two.

### Wiki attachments (`celld/native/wiki.ts`, upload and alarm)

- State: attachment rows (pending, ready, delete) with reserved sizes, the byte
  counter, files in object storage, an alarm.
- Operations: upload (reserve, set the alarm, put, confirm or requeue), the alarm's
  cleanup in batches, deletion of the wiki.
- Hard: cleanup awaits a delete while the upload of that key ends; a put that
  fails may have stored the file; process loss at any await.
- Correct when: the counter is what the rows reserve; a stored file has a row; an
  acknowledged file stays; leftovers are removed in the end.

### Wiki pages, comments, search (`wiki.ts`, `wiki-core.ts`, `wiki-search.ts`)

- State: pages in a tree with one snapshot per revision, comments with theirs, a
  feed of changes whose number is the wiki's version, cached rankings.
- Operations: create, edit and restore by expected revision, move, delete, comment
  and edit a comment, search by keyword or ranked by a provider, delete the wiki.
- Hard: a write awaits its body between its first look at the page and its
  transaction; a move carries a subtree; a ranking is computed while the wiki
  changes, and concurrent searches join it.
- Correct when: no edit is lost; the live pages are a forest of bounded depth;
  an answer is of the version it names.

### Wiki export (`wiki-export.ts`, `wiki-zip.ts`)

- State: one slot in memory with a state, a deadline, a ticket and entries.
- Operations: prepare (in the background, page by page), status, cancel, download
  (once, with the ticket, the content read again as the client takes it).
- Hard: coroutines of a preparation or a download outlive the slot's state; edits,
  deadlines and a new export come between any two parts.
- Correct when: what is downloaded is one version; one export is active and its
  archive goes to one download.

### Space links (`space-links.ts`, `celld/browser/spaces.js`, `celld/static/spaces.mjs`)

- State: on each side, the companions it names (at most 100); in the client, a plan:
  its two resources, those to create and those it created.
- Operations: create what is missing, write a record on each side, retry, give up;
  remove a shortcut.
- Hard: two objects that know nothing of each other; every request may fail before or
  after its effect; a record is removed or a resource lost before the retry.
- Correct when: a plan that reports success has both records, it creates no second
  resource of a kind however often it is retried, and a retried plan ends.

### Summaries (`summaries.ts`, `celld/browser/summary.js`)

- State: the limiter's slots and starts, one stream per request with its timer, the
  dialog with the turn of its last request.
- Hard: a stream is ended by `[DONE]`, a broken provider, the timer, a revoked reader
  and `cancel()`, two of them for one stream; events of a stopped summary arrive in the
  next one's dialog.
- Correct when: a slot is returned exactly once, a dialog shows its last request only
  and says complete only of a whole summary, and slots come back in the end.

### Posting from the command line (`celld/static/client.mjs`, `srv/static/client.mjs`) and screening (`settings.ts`, `message.ts`, `moderation.ts`, `tagging.ts`)

- State: none in the client; on the server the settings, the mode of the chat, the log.
- Hard: the answer is an error, a proxy's page or nothing, before or after the event
  was stored; settings change between two posts, by mistake too; the provider fails.
- Correct when: what the client prints about its post is true; no readable message is
  stored under moderation that the provider did not answer for.

### Chat page widgets (`srv/browser/view.js`, `conversation.js`)

- State: the heading and its draft, the name and its editor, reactions and the chips
  drawn of them, the composer.
- Hard: deliveries and answers to older posts come while the user types.
- Correct when: each widget shows what the channel said last or what its user has not
  got across yet, under the name posts go out under.

### Wiki page in the browser (`celld/browser/wiki.js`, `wiki-book.js`)

- State: the page shown and its turn (`pageEpoch`), breadcrumbs, comments, the editor
  with the revision it expects, the conflict panel, the search results.
- Hard: every click awaits a request, and answers arrive in any order.
- Correct when: what is shown together belongs together, a save ends however its requests
  go and before the next begins, and no draft is saved over a revision its writer has not
  seen.

## Modules

| Module | Models | Proved about in |
| --- | --- | --- |
| `CasLog` | the abstract compare-and-append log of the protocol | `ChannelStoreProofs`, `CelldChatProofs` |
| `ChannelStore` | the Go store and its handlers; implements `CasLog` | `ChannelStoreProofs` |
| `ResourceLifecycle` | the managed lifecycle and its job runner | `ResourceLifecycleProofs` |
| `CreationJournal` | chat creation across the gate and the Chat objects | `CreationJournalProofs` |
| `ReportOutbox` | coverage gaps, report windows and the mail queue | `ServicesProofs` |
| `BrowserSession` | one page: sends, deliveries, polls, the name | `BrowserSessionProofs` |
| `CelldChat` | one unmanaged chat object: posts, polls, links, expiry, re-creation; implements `CasLog` | `CelldChatProofs` |
| `WikiUploads` | attachments of an unmanaged wiki | `ClientProofs` |
| `WikiPages` | pages, comments, change feed and search of a wiki | `WikiPagesProofs` |
| `WikiExport` | the export slot, its preparation and its downloads | `ClientProofs` |
| `CatalogReplica` | a record's versions, their push and the catalog's row | `ServicesProofs` |
| `CreationQuota` | token buckets by address, their payment and eviction | `ClientProofs` |
| `AdminSignIn` | sign-ins, callbacks, sessions and the sweep | `ClientProofs` |
| `SpaceLinks` | plans that create and link a chat and a wiki | `ServicesProofs` |
| `SummaryStream` | the limiter, the provider's stream and the dialog | `ServicesProofs` |
| `OneShotPost` | a post of the command line client and the server that screens it | `ClientProofs` |
| `ChatView` | title, name, reactions and composer of a chat page | `ClientProofs` |
| `WikiEditor` | one tab on a wiki: pages, editor, comments, search | `ClientProofs` |
| `MCStores` | `ChannelStore` and `WikiUploads` side by side | |
| `MCGate` | `ReportOutbox` and `CreationJournal` side by side | |
| `MCServices` | `ResourceLifecycle`, `CatalogReplica`, `SpaceLinks`, `SummaryStream` side by side | |
| `MCClients` | `AdminSignIn`, `CreationQuota`, `OneShotPost`, `ChatView`, `WikiExport`, `WikiEditor` side by side | |
| `MC...` | small constants for TLC | |

Interaction. `CreationJournal` composes the gate with the Chat objects it calls,
`ReportOutbox` takes its journal as one step, `ChatView` takes posts and deliveries as
`BrowserSession` makes them, `WikiEditor` the answers of the server as `WikiPages`
gives them, `OneShotPost` the screening that `CelldChat` awaits, and
`CatalogReplica` the saves of `ResourceLifecycle`.

Conventions. An action is one stretch of code between two points where something
else may run: a transaction or a map access for Go, a turn between two awaits for
JavaScript. An action whose name carries a suffix (`AppendTx_Blind`) is a variant
with one plausible mistake; it is not part of `Next` and shows that a property can
fail. Byte strings, keys, ciphertexts and texts are identities or versions.

**ChannelStore.** `live`, `gen`, `log` are the rows of one channel id over its
incarnations; `entry` and `subs` the waiters map; `req[r]` is the handler of
connection r with its program counter (`loop`, `read`, `waiting` of WaitEvents;
`append`, `conflict`, `posted` of Append). `cursor`, `fresh`, `seen` are the
clients'. Because the pool holds one connection, a transaction is one step
(`AppendTx`, `ConflictRead`, `ReadPage`); `Subscribe`, `PostNotify`,
`GoneNotify`, `ReapNotify` are the accesses to the map between them. A page may
end anywhere after its first event, which covers the byte limit; `full` may be
answered at any size, for the same reason. A reply is received or lost in the
step that sends it. A graceful stop refuses what arrives (`Restarting`) and ends the
waits, while a creation or deletion already under way still commits. `Restart` may
happen at any time.

**CasLog.** Create, post by a client that knows everything, learn, close. A poster may
count its own event as known when it posts (`CelldChat`) or with a reply (`ChannelStore`).
`ChannelStore` maps `got[c]` to the events of the current incarnation c has
received; it is an implementation for a channel created once (`MaxGen = 1`): a
client that posts to a re-created channel with an old cursor that happens to
match the head is accepted by design, its cursor being unverifiable.

**ResourceLifecycle.** `res` is the row of `management_state` with its job;
content is a version per table and one attachment file. `run`, `call` are the
alarm handler and the storage call it awaits; `StepCall` issues the call,
`StepDone`/`StepPut`/`StepFail` are its outcomes, a failure with or without the
effect. `StorePut` and `PutVerified` are what the archive stores promise: the first
bytes under a key stay, and an object is read back. `writer` is a request between its first check and its commit, during which
an archive may begin. `frozen` and `committed` are history variables.

**CreationJournal.** `gate` is the one handler at the head of the gate's queue,
`journal`, `attempt`, `tokens`, `window` its tables; `chat` and `receipts` the Chat
objects'. `RunCreate` is `_create` in one turn; `CallAnswered` and `CallLost`
deliver, lose before or lose after. `Restart(e)` is a process loss and may install
another environment (reports off, the other encryption mode). While a deployment
spreads, the Worker in front may be ahead of the gate or behind it, so that a request
comes in the mode of any deployment (`Routed`, the mode check of `route`). `births`, `charges`,
`acked`, `counted` are history variables.

**ReportOutbox.** `tracking`, `gaps`, `window`, `rows`, `mail` are the gate's report
tables, `a` its alarm handler from the recovery (taken as a step that succeeds or
fails) through `Prepared` to `Pick`, `Lookup`, `LastCheck`, `Sent` or `Failed`. The
settings `env` belong to a process: `Restart` brings others and applies the policy,
as the constructor does. `created`, `barred` and the `sentTo` of a mail are history
variables; what a report claimed (`count`, `note`) is kept with its mail. A creation
is recorded in one step here, because `CreationJournal` shows that the journal and
the windows agree. A gate restarts with other settings only after the moment it last
observed: two deployments that both handle an event within one millisecond, which a
gap of length zero would hide, are left out.

**BrowserSession.** `snd[k]` is one call of append with its try and the queue
entries it waits for; `queue` the promise chain of deliveries; `attempts` the
evidence; `net` posts under way, which the server may take long after the page
gave up on them. `Observe` and `Present` are the two turns of delivering one event.

**CelldChat.** `live`, `gen`, `log`, `links` are the object's tables, `alarm` and
`alarming` the alarm and its handler between `expire` and `schedule`. `h[c]` is the
request of client c: every request first awaits `expire` (`Arrive`), a post goes on
to `body`, `screen` (the provider) and `commit`, each of which may meet another
chat than the one it was authorized for. `waiting` polls are made `ready` by
`notify`; `Settled` says that they resume before the object takes another event,
because the promise they await is resolved in the turn before. A woken poll may
also find its deadline past and answer the empty page it had built. An event of
`log` carries its sender, the generation it was authorized in and whether the sender
was `Informed` (history). Deletion, expiry and the alarm share `Erase`.

**WikiUploads.** `row` and `bytes` are the SQL state, `objects` the object store,
`upload[f]` the request of file f, `clean` the alarm handler with the rows it
selected. Time is one flag per reservation.

**WikiPages.** `row`, `history`, `comments`, `changes` are the tables. A write is two
actions: `Create`, `Put`, `Comment`, `Patch` look at the page and await the body,
`CreateBody` and so on are the transaction after it; `DeletePage` awaits nothing.
`Save` is the shared transaction with `MayHang`, the check of the tree. A revision is
recorded as the revision its author had read. `SearchAsk` begins or joins a ranking,
`SearchRanked` is its end; `answer` is the reply of the last step only.

**WikiExport.** `slots[n]` is the n-th slot object, `inSlot` the one in `this.slot`:
coroutines keep the object they began with, which is why all are kept. `Prepare`,
`PrepareItem`, `Ready` are the preparation between its pauses; `Download`, `Form`,
`StreamItem`, `StreamEnd`, `Complete`, `Closed` a download as its stream is pulled;
`Got` is the check every request makes of the slot it finds. An export that is
canceled after the last check of its download still becomes complete, as in the
code.

**CatalogReplica.** What a version holds is written once, so a record is its version.
`push` is the one push in memory (`StartPush`, then `PushReplied` or `PushFailed` per
request), `net` the requests that have not reached the catalog, late ones included,
`owed` a request that saved and will flush. Storage calls hold the input gate, so
`Flush` sets the alarm and starts the push in one step, and the process is lost
(`LoseProcess`) only where an alarm is set or the mark is still the first request's.

**CreationQuota.** `Charge` is the look at the bucket with the request's own reading of
the clock, `Paid` and `Unpaid` the two ends of the creation; one token is `Refill`
units of level. The lock, and
in celld the gate's queue, admits one creation at a time. `since` and `charged` are the history of the bucket an address has now.

**AdminSignIn.** `Callback` notes the state (evicting beyond `Limit`) and asks the
provider, `Exchanged` and `SignInDenied` are its answers, `Sweep` the alarm with
`ArmSweep` at every change. The session's row and the alarm behind it are two awaits of
storage, between which no other event comes to the object; but the object may be lost
there (`LostUnarmed`), and while a callback awaits the provider (`SignInLost`). `passes`,
`begun`, `dropped`, `unarmed` are history variables.

**SpaceLinks.** `at[p]` is the next request of plan p and the side it goes to; `Look`,
`New`, `Check`, `Put` are the requests, `RequestFails` their failure with or without the
effect, `Retry` the form submitted again with the same plan. `cut` marks plans whose
pair lost something since they began.

**SummaryStream.** `served[n]` is the server's side of request n, `wire[n]` its events on
the way, `turn` and `pane` the dialog, with `open` while the answer is read. `Done`, `Broken`,
`Cancel`, `ReaderEnds` are the ways a stream ends; the page that hangs up cancels its stream
(`HungUp`). An answer whose last event was read stays open until it is closed
(`AnswerEnds`); stopped or lost before that, a summary shown as complete is called stopped or
failed. `Acquire` counts no start for a reader who was revoked: the check before the
provider is asked follows the limiter in one turn with the same check of the caller
(`worker.ts:221`, `wiki.ts:219`), and cannot fail there.

**OneShotPost.** `cmd` is the client process through `Config`, `Send` and what it prints;
`handler` the server's request through `Arrived`, `Screen`, `Commit` and `AfterCommit`.
`ServerFails` and `NoAnswer` are errors at any of these points and answers lost or
replaced on the way. `Redeploy` brings other settings between two requests.

**ChatView.** `posts` are the page's appends with what they were for, `feed` the events
not presented yet. `Apply` folds one event, `Finish` ends a presentation and draws the
chips; `Blur`, `Escape`, `CommitName`, `SendText`, `ClickChip` and `OpenPicker`, `Pick`,
`ClosePicker` of the reaction picker are the user's.

**WikiEditor.** `calls` are the requests of the tab; an answer is applied, dropped by
its turn, or dropped by comparing the page, as each place of the code does. `of` says what
a request is a part of: a save goes on through the page it opens (`Taken`, `Created`), its
navigation, which may fail without ending anything (`NavigationAnswered`), its comments
and the tree (`ThenComments`, `ThenRefresh`), or through the page read for the conflict panel,
which is the one in the editor when the refusal arrives (`SaveRefused`). `saving` is the
code's flag, and where it is reset is derived from these requests. `editor.agreed` is
history: the revisions the writer agreed to save over.

**Side by side.** The parts of `MCStores`, `MCGate`, `MCServices` and `MCClients` share no variable. A behaviour
is one of the part it starts for; the others start at rest and stay so, and nothing
fairness asks for is enabled in them. One run is therefore the union of the runs of its
parts: each property is checked in every behaviour of its part, and deadlock where the
parts never stop. In `MCServices` only links and summaries may stop, in `MCStores` only the
attachments (`MayStop`).

## Runs and what they show

The bounds are chosen so that every action fires and each property has a mistake
that breaks it under the very same constants (PROJECT.json, "mutants").

| Run | Instance | Shows |
| --- | --- | --- |
| `stores` | log: 2 clients, 1 connection each, 2 events, pages of 1, one incarnation; files: 3 files, 2 at a time, budget for all but one, 1 process loss | `HonestReply`, `Wakeups`, `CursorCovered`, `ReadBeforeReply`, refinement of `CasLog`, `LiveWikiKeepsFiles`; `PollAnswered`, `CleanedUp` under fairness |
| `services` | jobs: 2 tables and a file, 2 writes, 2 jobs; catalog: 4 versions, 3 tries; links: 2 plans, 2 chats, 1 wiki, room for 1 record, 1 failure, 1 loss; summary: 1 page, 2 requests, 1 slot | `BackupComplete`, `ContentMatchesState`, `CatalogHonest`, `LinkedBothWays`, `SummaryHonest`; `JobSettles`, `CatalogConverges`, `LinkRepaired`, `SlotsReturn` under fairness |
| `clients` | sign-in: 2 flows, 1 state kept, 4 ticks; quota: 2 addresses, 1 bucket, burst 2; post: 2 processes, 7 settings; view: 2 posts, 4 acts; export: 2 readers, 2 items, 2 exports, 1 edit; editor: 2 pages, 3 clicks, another writer | `SignInOnce`, `QuotaBound`, `HonestVerdict`, `ScreenedFirst`, `ShownAsAsked`, `OneExport`, `PageCoherent`, `OneSave` |
| `journal` | 2 clients, a plain and a managed chat, 2 attempts, 2 process losses with any redeployment | `OncePerAttempt`, `AckedOwnsChat`, `HourlyCountExact` |
| `gate` | reports: 3 deployments (content, counts to one owner, off), 2 hours, 1 count window, 2 addresses; journal: 1 client, 2 plain chats, 2 hours, 1 process loss | `CoverageHonest`, `RightReader`; `ReportsSettle`, `DueReported` under fairness |
| `journal_managed` | 1 client, 1 managed chat | `DueReported` fails (a finding) |
| `session` | 2 sends of up to 2 tries, 1 peer event, 2 names | `OneName`, `PostedOnce`, and `SendSettles` under fairness |
| `chat` | 2 clients, 2 events, pages of 1, 2 generations, retention | `StoredInGeneration`, and `ExpiresInTheEnd` under fairness |
| `pages` | 2 clients, 3 pages, 1 parent level, 1 comment, 4 changes | `TreeSound`, `NoLostEdit`, `AnswerCurrent` |
| `uploads_deleted` | 1 file, no process loss | `NoOrphanFile` fails (a finding) |
| `editor_restore` | 2 pages, 3 clicks, another writer | `NoBlindOverwrite` fails (a finding) |
| `jobs_disarmed` | 1 table, 1 job, process loss behind `deleteAlarm` only | `JobSettles` fails (a finding) |

The type invariant of a module is the first conjunct of one of these properties, and so
are its weaker invariants: a page presents every event once and in order
(`PostedOnce`), no poll sleeps on what it could answer (`StoredInGeneration`), live
content stays intact until its backup is verified (`LiveContentIntact` in
`ContentMatchesState`), the upload budget's counter is exact (`LiveWikiKeepsFiles`), a
download holds one version (`OneExport`). Those of `ChannelStore`, `ResourceLifecycle`,
`CreationJournal`, `CelldChat` and `WikiPages` are theorems of their own.

Why the bounds are enough. Two clients or two connections are what a race needs;
a third adds only more of the same pairs, since handlers share nothing but the
rows and one map entry. Two events in pages of one give a head, a page that ends
before it and a conflict. The run `stores` creates its channel once, as `CasLog` does; that
the same properties hold when an id is created again under requests in flight is
proved, for any number of incarnations. Two generations of a `chat` give an old and a
new one. In `gate` two ticks are two hours and one count window: long enough to be
switched off and on within one window, and to complete the hourly window before the
count window. Two jobs give
a backup and what follows it (a restore, a delete, a cancel and a second try). Two
attempts on two chats give a retry, a takeover and a conflict; two process losses
one between the Chat's commit and the gate's, one more during recovery, and the
recovery limit of one row makes the batch overflow. Two tries let a send meet a
conflict or a failure, speak again under the name that became locked meanwhile, and
reach the end of its loop. Three pages and one level give a parent, a child that
brings a child along, and a page moved below itself; a longer cycle would need more
levels, and is a chain that is too long at every level. Four changes are the three
creations and a move, or a page edited, deleted and restored under two open edits.
In `services`, one failing request and one loss let a plan meet every one-sided state and
its repair, and the second plan share the wiki and its one place for a record; four
versions let three requests of a push overtake each other with one more saved
meanwhile; two summaries by one page through one slot are a stopped one and its
successor. In `clients`, two flows and one place for a state give an eviction under a
repeated callback, four ticks a state and a session that expire and two sweeps; two
addresses and one bucket an eviction; two processes a conflict; four acts an edit begun, left, begun again
under the answer to the first; three clicks two pages opened and an edit under them.
Two exports are one replaced and one that replaced it; two items give an archive
of which half is read before an edit. The third file in `stores` is
what the budget refuses. Counters (`MaxGen`, `MaxEdits`, `MaxJobs`, `MaxEvents`,
`MaxHours`, `MaxCrashes`, `MaxPeer`, `MaxComments`, `MaxVersion`, `MaxExports`, `MaxNow`, `MaxTime`,
`MaxPasses`, `MaxCuts`, `MaxFails`, `MaxCalls`, `MaxPosts`, `MaxActs`, `MaxRev`, `MaxClicks`, `MaxChanges`) are bounds of the models, in the guards of the
actions they limit; the code's own limits are `MaxEvents`, `PageEvents` of the
store, `MaxTries`, `Capacity`, `RecoverLimit`, `Budget`, `Concurrent`, `Batch`, `MaxDepth`, `MaxSearches`,
`MaxTries` of a push, `Burst`, `Refill`, `MaxIps`, `Limit`, `MaxLinks`, `PerMinute`.
`pages` uses symmetry of clients and of pages; it checks no liveness.
Runs over systems that may stop (bounded counters used up, all sends done) say
`CHECK_DEADLOCK FALSE`; the other models never stop and are checked for
deadlock.

### Fairness

- Log: goroutines run. `PostNotify`, `DeleteNotify`, `GoneNotify`, `Wake`,
  `Subscribe`, `ReadPage` per handler and `ReapNotify` are weakly fair, nothing a
  client or a clock does is. A poll is therefore answered because it is woken,
  not because it times out.
- Services, jobs: the platform fires alarms and resumes handlers, storage calls return,
  and a call repeated for ever succeeds at some time (strong fairness of
  `StepDone`, `StepPut`); crashes and failures are unbounded.
- Services, catalog: a request that owes its flush ends, the alarm is delivered, a push ends
  by answer or time-out, and of ever new requests with the current version the
  catalog gets some (strong fairness of `Register`).
- Services, links: a form that failed is submitted again, and requests end; plans given up,
  or without room or resource (`Hopeless`), are excepted.
- Services, summary: the timer of a stream fires. Nothing asks the provider or the reader to
  act, so that slots come back by the timer alone.
- Journal: the queue is FIFO and alarms are delivered until they run; of the calls to
  Chats and the summaries that are tried again and again, something succeeds now and then.
  For a managed chat this is more than the code gives, which `journal_managed` shows.
- Reports: alarms and cron calls are delivered and backoffs end; a recovery that is tried
  again and again succeeds at some time, and of summaries, lookups and mails something
  does now and then.
- Session: the page's own continuations run, a post is answered or fails, and a
  read repeated for ever is at some time answered with what there is.
- Chat: a woken poll resumes, a set alarm is delivered, and its handler ends. No
  request is fair: an abandoned chat is erased by the alarm alone.
- Uploads: an upload's own steps run, ten minutes pass, the alarm fires, and of the
  deletes asked for again and again some succeed.

## Findings

Each is a run that is expected to fail, and shows the code doing otherwise than a
comment or a document of the repository says.

- `journal_managed` / `DueReported`: the gate withdraws a pending row on 409 and
  412 only. A managed chat whose content was deleted answers `_create` with 410
  (`celld/native/worker.ts:173`), so a create request for its id leaves a row every
  replay of which fails (`worker.ts:364`), and no report window is reached any
  more, against "Delayed calls catch up persisted windows"
  (`celld/docs/scheduled-reports.md:32`), until an administrator restores the chat.
- `uploads_deleted` / `NoOrphanFile`: a wiki is deleted while a put is under way.
  Cleanup deletes the key, the put lands, the upload finds its wiki gone and sets
  its row to delete again, and cleanup, resuming, erases that row by id
  (`celld/native/wiki.ts:505`). The file stays in storage without a row, against
  "Deletion removes live wiki content and queues uploaded files for deletion"
  (`celld/docs/wiki.md:86`).
- `editor_restore` / `NoBlindOverwrite`: "Restore this version" asks for the newest
  revision of the page shown, and makes its draft of the page shown when the answer
  arrives (`celld/browser/wiki.js:224` reads `current` on both sides of the await). If
  another page was opened meanwhile, the draft is of that page and names a revision of the
  first; when a newer revision of it has this number, the server takes the save, and a
  text nobody was shown is no longer the page's (its history keeps it). A merge
  (`wiki.js:241`) does the same with a panel that was read for another draft. This is
  against "A concurrent edit preserves your draft and shows the latest Markdown for a
  manual merge" (`celld/docs/wiki.md:102-103`).
- `jobs_disarmed` / `JobSettles`: a run deletes its safety alarm two awaits before it
  sets the next (`celld/native/management-lifecycle.ts:257`, `82-84`). A process lost in
  between leaves a pending job without an alarm until a request reaches the object,
  against "A safety alarm covers process loss at any await"
  (`management-lifecycle.ts:230`). The run loses the process there only; in `services` it
  is lost between requests, at the storage calls and before the last alarm, and
  `JobSettles` holds.

Limits of the code met while modelling, which the passing runs exclude by a named
constant rather than hide:

- `SlowPuts = TRUE` (a put outlasts its ten minutes): the same erasure by id can
  remove the row and file of an upload confirmed during cleanup's await;
  `LiveWikiKeepsFiles` fails. `stores` assumes puts end within ten minutes.
- `CrashAt` containing `"alarm"` or `"requeue"` in `WikiUploads`: the row commits
  before the awaited alarm (`wiki.ts:464-470`, `483-485`); a process lost in between
  leaves a row without an alarm until another upload sets one, and `CleanedUp`
  fails. `stores` loses the process only while a put is under way.
- `CrashAt` in `services` also leaves out `"armed"` and `"step"`, the awaits between the
  alarm's delivery and its first storage call. A loss there leaves what a loss between
  requests leaves, since the platform delivers the alarm again; but a process lost at that
  place every time makes no progress, and jobs would need one more assumption.
- `LostUnarmed` in `AdminSignIn`: the object may be lost between the row of a session and
  its alarm, two awaits of storage with no other event between; the session then waits for
  the next callback to be swept. `SignInOnce` excepts such sessions (`unarmed`). An expired session
  is refused in any case.
- `scheduled-reports.md` says of `REPORT_CONTENT=0` that it "does not erase already
  prepared or queued email bodies" (`celld/docs/scheduled-reports.md:40-41`); the code
  cancels and empties every queued mail with content
  (`celld/native/reporting-core.ts:98-103`), at the latest when the gate is next
  constructed. The model follows the code: `RightReader` states that such a mail is
  never sent.
- A client whose cursor stems from an earlier incarnation of an id, or is ahead of
  the log, is answered with the head of the new one. `CursorCovered` and
  `ReadBeforeReply` therefore speak of cursors obtained in the current incarnation
  (`fresh`, `lin`).

Seen while modelling, of little weight or outside the properties:

- A title in focus is left, its post fails, and the heading is focused again before the
  answer: the failure is handled as an older save's, the draft stays in the heading, and
  Escape or the next delivery replaces it without a word of the failed save
  (`srv/browser/view.js:222-233`). `TitleKept` follows the code.
- A page asked for before an editor was opened, and answered after, hides the draft.
- A sign-in state is swept in the tick it expires, in which a repeated callback still
  passes; the provider's single use of a code is what keeps a second session from
  starting (`SignInOnce` says exactly this).

## Proofs

`ChannelStoreProofs` proves, from `StoreAssumption` alone (connections belong to
clients, the limits are positive), for any number of clients, connections, events
and incarnations:

| Theorem | Statement |
| --- | --- |
| `StoreTypeOK` | `Spec => []TypeOK`: also that no channel exceeds its event limit |
| `StoreWakeups` | `Spec => []Wakeups`: no lost wakeup and no orphaned map entry |
| `StoreCursorCovered` | `Spec => []CursorCovered` |
| `StoreReadBeforeReply` | `Spec => ReadBeforeReply`, an action property |
| `StoreHonestReply` | `Spec => []HonestReply` |
| `StoreImplementsCasLog` | `Spec /\ [](gen <= 1) => ImplementsCasLog` |

The argument. `Wakeups` is `NoLostWakeup /\ NoOrphanEntry`: together with `TypeOK`
they are inductive, because a step either empties the subscriptions (`Notify`), or
leaves some notification still to be made (`Notifying`), or changes neither the
row nor a sleeper; the lemmas `NotifyWakes`, `NotifyingWakes` and `QuietStep` are
these three cases.

`CursorCovered` is not inductive: a cursor is also held by handlers on their way.
`Ledger` adds that every handler's cursor is covered for the incarnation it was
obtained in (`HandlersCovered`), with the event it appended itself (`HandlersOK`),
that this holds for the clients' cursors in every incarnation (`CursorsCovered`)
and that incarnations in use have been created (`Created`). `ReceiveCovers` is the
central lemma: a reply extends what its client has seen from the request's cursor
to the reply's without a gap. `StoreReadBeforeReply` follows from the ledger at the
step that appends (`AcceptedCovered`), `StoreHonestReply` from `HandlersOK`.

`StoreImplementsCasLog` is the refinement, initial state by initial state and step by
step (`RefineStep`). Under the mapping a client knows the events of the present
incarnation it has seen, so that a commit is a `Post`, a reply a `Learn`, and all that
handlers and the map do a stutter. Two facts beside the ledger make it work (`Trace`):
no handler and no client holds anything of an incarnation that has not been (`Past`), and
while there has been one incarnation every cursor stems from it (`Unmixed`). The
hypothesis `gen <= 1` is the one the run makes by `MaxGen = 1`, said of the behaviour
instead of the constant: a client that posts to a re-created channel under an old cursor
which happens to match is accepted by design (see `CasLog` above), and the abstract log
does not allow it. Every behaviour in which the id is created at most once satisfies it.

`CreationJournalProofs` proves, from `JournalAssumption` (managed chats are chats,
deployments are environments, the limits are numbers, a recovery replays at least one
row), for any chats, clients, deployments, attempts and process losses,

| Theorem | Statement |
| --- | --- |
| `JournalTypeOK` | `Spec => []TypeOK` |
| `JournalOncePerAttempt` | `Spec => []OncePerAttempt` |
| `JournalAckedOwnsChat` | `Spec => []AckedOwnsChat` |
| `JournalHourlyCountExact` | `Spec => []HourlyCountExact` |

None is inductive, and they need each other. The invariant follows an attempt through
what is durable of it: its row against its birth and charge (`Rows`: a recorded row means a
birth, and a journaled attempt that made a chat keeps a row), and the Chat's side
(`Channels`: the receipts of a chat are exactly its journaled attempts that made one, and
a channel, live or in a backup, is of an attempt that did, with its client's hash).
`Gate` is what the one handler knows across its await: its attempt is uncharged and,
when journaled, its row is pending, so that only it can settle it; an answer 204 means a
birth, 409 and 412 of a journaled attempt mean none. That is where the order of the
checks of `_create` is used (`RunKeeps`): the receipt before the settings.
`Reports` closes the hour: no pending row is older than the open window, and none is of
the window being counted, because counting waits for an empty list of pending rows and a
new attempt belongs to the present hour. `EndCreateKeeps`, `ReplayAnsweredKeeps` and
`CompleteHourlyKeeps` are the steps in which these parts meet.

`BrowserSessionProofs` proves, from `SessionAssumption` (at least one send and one try), for
any sends, tries, names and events of others,

| Theorem | Statement |
| --- | --- |
| `PageHasOneName` | `Spec => []OneName`, which includes `TypeOK` |
| `SendsArePostedOnce` | `Spec => []PostedOnce` |

`SessionInv` ties what is on the way, what is evidence and what is in the log to the last
try of its send (`Lists`): a send whose post is out has nothing in the log, and one
that tries again has nothing out. `Named` is the argument for the name. While it is
not locked, every own event is still to be shown and has its attempt as evidence
(`Unlocked`), and so has every post that would be accepted now; so the delivery that
shows the event locks the name first (`ObserveNames`), and whoever seals afterwards does
so under that name. A post is accepted only at the head it was sealed for, hence after all
that stands before it was shown, hence under the name of the own events among it
(`Agrees`, `AcceptedKeeps`). A refusal or a conflict takes evidence only of a try of which
nothing is left (`WithoutKeeps`). The bound of sequence numbers in `TypeOK` needs a count:
own events are of different sends (`OwnAreFew`, `LogBound`).

`CelldChatProofs` proves, from `ChatAssumption` (the limits are positive), for any
clients, events and re-creations,

| Theorem | Statement |
| --- | --- |
| `ChatTypeOK` | `Spec => []TypeOK`: also that an erased chat keeps no event or link |
| `ChatStoredInGeneration` | `Spec => []StoredInGeneration` |
| `ChatImplementsCasLog` | `Spec /\ [](gen <= 1) => ImplementsCasLog` |

The invariant is `Row` (the table, with every event authorized in the present generation by
an informed sender), `Clients`, and for each client `Informs(c)` and `Fit(h[c], c)`: a
client whose newest reply is of this generation has all up to its cursor, and so has a
handler that continues such a reply, up to its `since`. Both hold only while the
chat lives; after an erase a cursor still names the generation whose events are gone,
and it is the new generation's number that tells them apart. `AppendKeeps` is the central
step, a commit after the awaits of body and provider; `EraseKeeps` serves deletion,
expiry and alarm.

`ChatImplementsCasLog` is the refinement: `Create` is `Open`, every erase of a living chat,
whichever handler or alarm begins it, a `Close`, `Append_` a `Post`, a reply a `Learn`, and
everything between the awaits a stutter (`NextMaps`, one lemma per action). It needs one
invariant beside `Inv`: while there has been one generation, a client or a handler
without a generation has an empty cursor (`Sole`), so that every post that fits continues a
reply of this chat and its sender has the whole log (`AppendMaps`). The hypothesis
`gen <= 1` has the reason it has for the store: a post to a chat created again under an old
cursor which happens to match is accepted by design, and `StoredInGeneration` says for all
generations what then still holds. No run checks this property, for the `chat` run creates
the chat twice; it rests on the proof.

`WikiPagesProofs` proves, from `PagesAssumption` (`None` is no page, the limits are
numbers), for any clients and pages, any depth and any number of writes,

| Theorem | Statement |
| --- | --- |
| `PagesTypeOK` | `Spec => []TypeOK`: types, and the tables agree with each other |
| `PagesNoLostEdit` | `Spec => []NoLostEdit` |
| `PagesAnswerCurrent` | `Spec => []AnswerCurrent` |
| `PagesTreeSound` | `Spec => []TreeSound` |

`Kept` relates the tables: a page's revision is the length of its history, the feed tells
each revision once, in order and not ahead of the pages (`FeedPast` is the part the
induction needs), comments stand on pages that exist. `NoLostEdit` is inductive with it:
a transaction commits only if the revision its author read is still the last.
`Rankings` says that a search under way or cached for the present version was read from
it, because until the wiki is deleted its version only grows. `Forest` is `TreeSound`
said of ways instead of chains: a way is a finite climb over live pages written down as a
function, so that a changed parent leaves it alone up to the first page that moved
(`SaveForest`). The moved page's new parent has a way to the root that avoids
it (`MayHang`), and each page below it follows its old way up to it and then that one.
That a way is what `Chain` computes (`WayIsChain`, `ChainIsWay`) is shown by induction on
the length, from the library's well-foundedness of the numbers (`Induct`).

`ResourceLifecycleProofs` proves, from `LifecycleAssumption`, for any number of tables,
writes and jobs,

| Theorem | Statement |
| --- | --- |
| `LifecycleTypeOK` | `Spec => []TypeOK` |
| `LifecycleBackup` | `Spec => []BackupComplete` |
| `LifecycleContent` | `Spec => []ContentMatchesState` |

The invariant has one part per actor. `JobFits`: an action goes through its own stages
only, and an erasure after an archive has its receipt. `CallFits`: what an awaited
storage call may still do, also when its job was canceled long ago (add to a
backup the bytes its job froze, or put a file into content that is being erased, nothing
else). `Stored`: a backup holds nothing but what its job froze, all of it once
verified. `Progress`: the parts the counter has passed are stored. `ContentFits`: the
live content in every state and stage. Requests are lemmas about the record they write
(`RequestSteps`, `TurnKeeps`: the same job, a new one, or none), storage answers one lemma
per kind of call (`SaveDone`, `ManifestDone`, `EraseDone`, `ReadDone`, `StepPutKeeps`),
failures and process loss `DropKeeps`.

`ServicesProofs` proves, from `ReplicaAssumption` (at least one version, one try),
`LinksAssumption` (chats are no wikis, room for one record), `SummaryAssumption` (at least
one stream at a time and a minute) and `ReportAssumption` (positive intervals, owners
that is no owner), for any records, plans, resources, pages, requests, settings and
windows,

| Theorem | Statement |
| --- | --- |
| `CatalogIsHonest` | `CatSpec => []CatalogHonest`: an unmarked record is in the catalog as it is, and a mark has an alarm or a request about to set one |
| `LinksGoBothWays` | `LinksSpec => []LinkedBothWays` |
| `SummariesAreHonest` | `SummarySpec => []SummaryHonest` |
| `CoverageIsHonest` | `Spec => []CoverageHonest`, of `ReportOutbox` |
| `ReadersAreRight` | `Spec => []RightReader`, of `ReportOutbox`, which includes `TypeOK` |

`CatalogHonest` is inductive with its two first parts, the types (no request is of a
version that was not saved, the catalog holds none) and `AnswerMeansStored` (an answered
push has reached the catalog). The step that matters is `PushReplied`, which clears the
mark only of the version it sent: with `AnswerMeansStored` the catalog has that version,
and by its type no later one than the record's.

`LinksInv` says that every record has a plan of its pair (`PairFits`), which keeps it for good
(`CourseKeeps`), and that a plan about to write the wiki's side has the chat's, unless it is
cut. A second record then completes the pair, and a removal that leaves one side finds
the plan to note it with (`LossKeeps`). `SummaryInv` says of a stream whose page still
listens (`TextFits`) that its text is shown or on the wire, and on the wire before any event that
ends the summary; such an event is true of the stream that sent it (`StreamFits`). A page
that hung up never listens to that request again, so what is dropped is never missed.

`ReportInv` follows a creation from its moment to the mail that counts it. One gap is open
exactly while reports were last seen off (`Watched`), so a creation that is not journaled lies
within a gap; rows and gaps go only when no window reaches them, so that every creation a
window may still count has its row or lies in a gap (`Accounted`, kept by `CleanupKeeps`).
A window without a gap therefore counts exactly (`Honest`), which the alarm handler carries
across its await (`HandlerFits`: nothing is created in a window that has ended, and no gap
reaches back) and its mail keeps (`MailFits`). `Chain` says that the windows of a name follow
each other with one mail each, which is why a mail is never written twice. For the reader,
`MailFits` has the owner in the mail as the only one it was sent to, and `HandlerFits` that
what the handler is about to send is none that a constructor canceled (`RestartInv`).

`ClientProofs` holds seven proofs, from the assumptions of their modules (`SignInAssumption`,
`ExportAssumption`, `QuotaAssumption`, `PostAssumption`, `UploadsAssumption`,
`WikiEditorAssumption`, `ChatViewAssumption`: positive or natural bounds, finitely many
posting clients and files, an empty text that nobody types as a name, title or message),
for any sign-ins, exports, addresses, clients, settings, files, pages and texts:

| Theorem | Statement |
| --- | --- |
| `SignInsAreOnce` | `SignInSpec => []SignInOnce` |
| `ExportsAreOne` | `ExportSpec => []OneExport` |
| `QuotaIsBounded` | `QuotaSpec => []QuotaBound` |
| `VerdictIsHonest` | `PostSpec => []HonestVerdict` |
| `MessagesAreScreened` | `PostSpec => []ScreenedFirst` |
| `UploadsTypeOK` | `UploadsSpec => []AttachmentsTyped`: also that the budget counter is what the rows reserve |
| `LiveFilesAreKept` | `~SlowPuts => (UploadsSpec => []LiveWikiKeepsFiles)` |
| `PageIsCoherent` | `EditorSpec => []PageCoherent` |
| `SavesAreOne` | `EditorSpec => []OneSave` |
| `PageShowsWhatWasAsked` | `ViewSpec => []ShownAsAsked` |

`SignInInv` says of each sign-in (`Admitted`) that a callback has passed before anything is
asked or started, that a state which passed is still noted, was evicted, or was
swept at its end, and that a session means a spent code and an armed alarm, or a loss between: the provider honours a code once, so
a second callback that passes still starts nothing. `SweepIsTime` takes the least expiry of a set
of times with the well-order of the naturals, so that an armed alarm has a time.

`ExportInv` rests on what a slot knows (`SlotFits`): its version is no newer than the
wiki's, and while they are equal its archive is what the wiki holds. `Check` compares just
these, so that every item sent after a check is the announced one (`CheckedSends`), and an
edit takes nothing from any slot (`EditKeeps`). A slot leaves "ready" for good (`Moves`,
`Begun`), and a stream begins on a slot that was ready with its ticket, hence on one no
other stream has (`Apart`, `DownloadMoves`). Coroutines of replaced slots are covered: the
invariant speaks of all slots, and only the one in `this.slot` is active.

`QuotaInv` strengthens `QuotaBound` by what a creation under way knows: there is one at
most, its level is what its bucket holds at its reading of the clock (`Level`), and that
bucket is balanced for this reading. `ChargeKeeps` establishes it, `PaidTracked` and
`PaidBalanced` use it: a payment takes from the level what it adds to the account, and
the time of the bucket does not go back, so that no interval is counted twice. An
untracked address starts its account anew with a full bucket (`FullBurst`).

`PostInv` says of each client `c`, beside the types, `Mine(c)`: what the two properties say
of it, `Course(c)` and `Screening(c)`. `Course` relates where the client is, where the
server's handler is and whether the event is stored: nothing is stored before the commit,
and an answer of 200, 409 or `posted: false` settles the question rightly, so that
`ExitKeeps` covers every end of the client. `Screening` is what a handler knows at each
await after the body, the chat's mode and the provider's answer; a redeployment waits for
the handlers (a new process serves what arrives after it). A step of one client leaves
`Mine` of the others as it was (`OthersKeep`), and each action is one lemma.

`UploadInv` needs a sum: the counter is what all rows reserve, and each statement of the
code adds or subtracts one row. The sum is a fold, hence recursive; `SumsExist` builds, by
induction on the number of rows, a function that tells the sum of every set of rows, and
`ReservedChange` follows it when one row changes. `CleanTypes` adds that what cleanup has
selected is still there with the size it was selected with, so that erasing it by id gives back
what it took. `FilesLiveInv` orders an upload in a live wiki: the row and its fresh
reservation come before the object, a ready row has its object, and cleanup holds only rows
whose upload is over. The last needs the hypothesis `~SlowPuts` at one step, the one in which a
reservation becomes stale (`LiveAge`); TLC refutes the property without it
(see [findings](#findings)). Process losses strike anywhere: the theorem makes no
restriction on `CrashAt`.

`EditorInv` ties the requests of the tab to the page they are of: all reads of one turn are of
one page, the page shown is that of its turn, no request is of a later turn than the epoch
(`Turns`), and a search of the last turn is on its way only while its panel is open
(`Searches`). A late answer is then either of the page shown, or of an older turn and dropped.
`OneSave` is inductive with the types and with what each kind of request may be a part of
(`Placed`): an answer that goes on hands its part to one further request, one that ends
resets `saving`, and a click belongs to no save. `NoBlindOverwrite` is no theorem, since the code
violates it.

`ViewInv` has one part per widget. `HeadingFits`: at most one post is of a visit to the
heading, since leaving a heading ends the visit's typing and focusing it begins another; that
post is the heading's draft until it is accepted, so the answer to an older one changes
nothing. `Names`: all events of the page bear one name, which the identity takes when it is
locked, before the event is shown or with its answer (`LockKeeps`), and whatever changes the
name draws the reactions again. `WrittenFits`: the composer holds the text last written or
nothing, and is emptied only by the send of just that text (`SentComposer`).

TLC checked the inductive invariants of the journal, the chat object, the managed resources,
the browser session, the attachments, the reports, the wiki tab and the chat page on the
instances of their runs before they were proved.

Every invariant and action property of the passing runs is a theorem. Only model-checked are
the liveness properties, `PollAnswered`, `JobSettles`, `DueReported`, `ReportsSettle`,
`CatalogConverges`, `LinkRepaired`, `SlotsReturn`, `SendSettles`, `ExpiresInTheEnd` and
`CleanedUp`: liveness under fairness rests on ENABLED, which this version of the prover does
not reason about.
Induction over numbers works where the induction set is written out, by the
library's facts on well-founded relations (`MinIn`, `Induct`), also over the size of a finite
set (`SumsExist`, `ReservedChange`); the library's induction theorems that take an operator do
not. No module uses RECURSIVE, so that all can be proved about.

## Assumptions that are not checked

- SQLite and durable-object storage: a transaction is atomic and durable, writes of
  one turn commit together; an alarm handler that was interrupted is run again.
- Durable objects run one turn at a time; other turns run at awaits of anything but
  their own SQL.
- A call to another object that has not been executed when the caller's process is
  lost is never executed.
- Object storage is strongly consistent: a put or delete takes effect at one moment
  between its call and its answer, or not at all if it fails, which the caller
  cannot tell.
- Fresh nonces and event ids never repeat; whoever holds a key is a participant.

## Not modelled

- Presentation: rows, Markdown, embeds, media previews, colours, scrolling, the tree of
  wiki pages in the browser, the list of known chats, the creation forms and the export
  dialog. They keep no state that another part decides on; their requests are those of
  the modules above.
- The Python and Go clients (`celld/static/client.py`, `client.go`): they promise the
  behaviour of `client.mjs`, which `OneShotPost` follows, and were not read line by line.
- The audit log, the management pages and the download of a backup: read or append only.
- Texts, keys, seals, provider prompts, ranking, budgets in bytes, file names and ZIP layout.
- Rendering of documents, deployment scripts, the container entry, the website:
  stateless or sequential code without the hazards a model checker reaches.

## Plan

The modules planned are written. What could be added:

1. An abstract catalog (its row only grows) for `CatalogReplica` and `ResourceLifecycle`
   together: which states of a job the catalog can show.
2. The uploads of `WikiEditor`, with `WikiUploads`.
3. `ChatView` over `BrowserSession` instead of over its promise.

Further proofs: the liveness properties, once the prover reasons about ENABLED.
