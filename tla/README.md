# VANTARA in TLA+

VANTARA is an application for anime, cinema and manga for a small circle of
friends. One web application (`apps/web`) is shipped as an Android app
(Capacitor and Kotlin, with a native player and torrent engine), a Windows app
(Electron) and a PWA. What friends share goes through a Cloudflare Worker with
a D1 database (`services/sync-worker`); watching together goes through Durable
Objects of the same worker. A frozen content API (`apps/api`) stands beside it.

This directory is a formal model of the parts where the program keeps promises
across devices, crashes and interleavings: the room people watch in, the
device's offline queue and mirror, who a device acts as, the server's log of
operations, what friends may see of a reading history, and when, which devices
are let in and how an account goes, and what paid page translation may cost.
The modules are translated from the source; every definition that models code is listed with
its lines in `PROJECT.json` ("map").

Contents: [1 Inventory](#1-inventory) ·
[2 Modules and code](#2-modules-and-code) · [3 Runs](#3-runs) ·
[4 Fairness](#4-fairness) · [5 Proofs](#5-proofs) ·
[6 Known departures](#6-known-departures) ·
[7 What is abstracted](#7-what-is-abstracted) · [8 Plan](#8-plan)

## 1 Inventory

### 1.1 Parts that keep state together

| Part | Code | State | Operations | Why it is hard |
|---|---|---|---|---|
| Together room, server | `services/sync-worker/src/together-core.ts`, `together.ts` | the room (host, mode, guests, timeline), members and their reports, one alarm, and the copy in storage | open, connect, drop, commands, reports, settings, invitations, alarm; hibernation and restart | memory is lost at any time between events; one alarm serves three deadlines; reconnections replace a seat |
| Together room, client | `apps/web/lib/together/*`, `apps/web/desktop/together-player.js` | socket, newest timeline, clock offset, drift state | connect and retry, apply a timeline, steer the player, prepare the next episode | late frames, clock error, a player that is slower than its commands |
| Offline queue rules | `apps/web/lib/queue.js` | none (pure) | classify, compact, trim, classify failures | compaction must not change what the server ends with |
| Device write path | `apps/web/lib/sync.js` (`enqueue`, `push`, quarantine) | queue, quarantine, attempts, two stored copies | write, push, settle, probe one operation, quarantine, retry, recover | lost, late and repeated requests; kills between the copies; full storage |
| Device read path | `sync.js` (`pull`, `auditMirror`), `account-store.js` | mirror and cursor, operations "landing", two stored copies | pull page by page, full audit, commit, restore | pull and audit run beside each other; a cursor is a claim about every row below it |
| Session ownership | `sync.js` (`signIn`, `signOut`, `refreshSession`, `selectOwner`), `session-store.js` | token, user, data owner, two generations, session record in two copies, queue per account | sign in and out, renew, change the data's owner, start | everything is awaited; a second sign-in, a kill or a renewal comes in between |
| Sync server | `services/sync-worker/src/index.ts` (`handleOps`, `commitAtNextRevision`, `handleSync`) | the revision, `applied_ops`, rows with revisions | apply a push, answer a poll | requests interleave between any two statements and may die at any of them |
| Social history | `index.ts` (`view.*`, `*.complete`, `settings.patch`, `publishDue`, `deltaScope`) | the owner's rows, the projection for friends, switches, revisions; the mirrors of friends | view, remove, complete, switch, publish, poll, purge, audit | a one-hour delay, switches that open and close, and devices that have been away |
| Device trust and accounts | `secure-index.ts`, `accounts.ts`; on the device `sync.js` (`signIn`, `claimDevice`, `deleteAccount`), `screens/accounts.js`, `v35/shell.js` (`showDeleting`) | codes asked for and approved, trusted devices, life cycle of accounts, sweeps; PINs and locks | ask for a code, approve, claim, recover, issue a session, create, delete, undo, sweep | two-step writes, codes that expire, revocation racing issue, an undo in the last second |
| Majlis, presence, weekly figures, media | `index.ts`, `packages/domain` | messages, reactions, votes, receipts, presence, blobs | operations of the same push | counters, time-to-live, references between rows |
| Page translation | `translate.ts`, `translation-batch.ts`; `apps/web/lib/translate*.js` | the month's money, the week's pages and chapters, claims, saved answers, the work's vocabulary; lanes and waits on the device | look, claim, reserve, ask, ask again, correct, save, refund, release; batches | books shared by requests that run side by side, claims of the dead, answers that were paid for and never saved |
| Release updates | `updates.ts`, `collectors.ts`, `manga-sites.ts` | sightings, events | collect, claim, publish | mostly parsing |
| Background work | `apps/web/lib/tasks.js`, `runtime-capacity.js` | a priority queue, admissions | schedule, cancel, admit | starvation and caps |

The rest of the repository (screens and players, catalogue matching, add-ons,
service worker and caches, app updates, the desktop and Android shells, the
content API, the fetch and translation workers, tools) is in "components" of
`PROJECT.json` with the reason it is not modelled.

### 1.2 How they interact

A screen calls `sync.enqueue`; the **write path** stores and sends the
operations under the rules of **queue.js**; the **server** applies each once, at
the next revision of one log; the **read path** of every device polls
`/v1/sync?after=<cursor>` and merges the rows it gets. The queue and mirror in
memory belong to one account, which **session ownership** changes. Some
operations write a second table, the **social history**, which other accounts'
polls read, filtered by the owner's switches and by the hour. Every request of
a device carries a session, which **device trust** issues to devices that were
let in, for accounts that are there. **Page translation** shares the accounts
and D1 with the rest and nothing else. The **together
room** shares only the accounts with all this: its clients talk to the Durable
Object through a WebSocket.

### 1.3 What makes each part correct

* Together room: what sleep may take away is already in storage; one seat per
  person and never too many; deletion and hand-over clocks run exactly when
  somebody is missing; every timeline is a newer version; only a command stops
  playback; rooms nobody is in, hosts who left and next episodes are dealt with
  by the alarm.
* Queue rules: a compacted queue means what the whole queue means; a full queue
  gives up states only.
* Write path: what is counted is counted once, nothing written is lost, the
  furthest progress and the last word win, the queue empties.
* Read path: nothing is missing below the cursor, in memory or after a restart;
  an acknowledged write does not flicker; a pull always gets ahead; after a
  restored backup the device heals, unless what was lost are the owner's rows.
* Session ownership: no write reaches the server as somebody else's; nothing
  that was saved is lost; nobody is signed in who should not be.
* Server: one log of revisions, each operation applied once, truthful answers
  for every request, no row skipped by a poll.
* Social history: nobody learns of a view before its hour; what is shared
  arrives; what is withdrawn disappears; the projection shows only what the
  owner still has.
* Device trust: a device that is let in may open every account it was not signed
  out of; who is approved gets in; an account that is taken back in time, by an
  undo that arrives, stays, and one that is wiped leaves nothing behind.
* Translation: the books balance whoever dies, the month keeps to its budget and
  the week to its limits, a page is paid for once, a saved answer only improves,
  and the pages of a chapter agree on a name.

## 2 Modules and code

MC modules only give constants their values. A `*Proofs` module holds the
theorems about the module it is named after; `SyncWritesProofs` also those
about `SyncQueue` and `SyncQueueRules`.

| Module | Models | Uses |
|---|---|---|
| `TogetherCore` | `RoomCore`: the room as a record and its operations as operators | |
| `TogetherRoom` | the Durable Object around it: sockets, storage, alarm, sleep | `TogetherCore` |
| `SyncQueue` | `queue.js`, and the server's effect of each kind of operation | |
| `SyncQueueRules` | every bounded queue, to compare `compactQueue` with sending everything | `SyncQueue` |
| `SyncWrites` | `enqueue`, `push`, quarantine, stored copies, and a server that applies what arrives | `SyncQueue` |
| `SyncMirror` | `pull`, `auditMirror`, `commitMirror`, recovery, and the pages of `handleSync` | |
| `SyncAccounts` | sign-in, sign-out, renewal, owner changes, session record, start | |
| `SyncLog` | abstract specification: operations join one log at increasing revisions | |
| `SyncServer` | `handleOps`, `commitAtNextRevision`, `applyFieldMerge`, `handleSync`, statement by statement | `SyncLog` (refinement) |
| `SocialHistory` | the public projection of one account's history, and its friends' devices | |
| `DeviceTrust` | codes, approvals and claims, recovery, session issue, sign-out, and the life of accounts, with the screens that drive them | |
| `Translation` | a request for a translation, statement by statement, alone and in batches | |

### TogetherCore, TogetherRoom

`core` is `RoomCore` with the fields that decide something: members (their
connection, when they joined, their report), settings, timeline (`seq`,
playing, content, `autoStart`), `emptySince`, `hostAwaySince`, `hostReadyAt`.
`attachedAt` is what `serializeAttachment` wrote, `stored` what is in storage,
`alarm` the platform's alarm, `now` a clock. A handler is one step because a
Durable Object delivers no event while it waits for storage. `Handle` is
`webSocketMessage` (dispatch, dirty, `persist`), and every action ends, as the
code does, in `apply`: persist when something changed, and set the alarm.
`closing` holds the sockets that the object has closed, because it refused or
replaced them, and whose other side has not answered yet: they keep their
attachment. `Hibernate` rebuilds the object from storage and from the
attachments of all sockets, those included (`restore`); `Restart` does so and
loses the sockets without a `webSocketClose`.

### SyncQueue, SyncQueueRules, SyncWrites

An operation is an identifier, a kind (one for each class and rule of `OPS`), a
key and a value. `replay` is the server's effect, kept to what separates the
classes: progress is a maximum, hearts the last word, time a sum, comments a
set of identifiers. In `SyncWrites`, `StartPush` compacts and sends the first
batch, `Serve` applies it, `ServeLate` applies it after the device gave up
(external: the network), `Answered` settles, `Fail` classifies the failure,
probes, counts and quarantines, `RetryQuarantined` is the user's button,
`Restart` the kill, `Recover` the start's merge of the two copies. `Poison` are
the writes the server fails on every time: a request that carries one fails
before anything is committed (`Choke`), whoever is in the batch with it.
`persist` writes queue and quarantine to localStorage key by key, either of
which may fail alone, and the account's copy as one record.

### SyncMirror

The server's rows with revisions, and the pages it answers with: `page` cuts a
table inside a revision exactly as the query does, `nextDeltaCursor` chooses
the cursor. `handleSync` is followed statement by statement: the revision
(`readRev`), the pages of the tables (`readTables`), the rest of the last
revision of every table that was cut (`readGroup`), the answer; commits may come
between. An own write is committed in one step and answered in another
(`PushServe`, `PushAnswered`). The device's pull and audit are two flows with a
program counter each; `StoreCopy` finishes a storage write, in order. `Backup`
and `Restore` are the database's (external). `shrinks` and `Owned` are the
guards with which an audit refuses an answer that shows fewer of the owner's
rows than the mirror; `refused` says that it would refuse what the server has
now.

### SyncAccounts

Every flow that awaits has a record in `flow`: the start of the app, the
renewal and each sign-in, with the generation and attempt it captured; `out` is
the sign-out, `push` a request with the token it was sent with. `storeJobs` and
`recordJobs` are the chains of storage promises: a flow waits for a number of
jobs to be done. `Check` and `Switch` are the two awaits of `selectOwner`,
`Install` the second half of `persistSession`. Killing the app loses all of
memory and both chains. `Enqueue` joins the data the device holds: those of who
is signed in or, where `Unattended`, whosever they are while nobody is signed in
(the usage clock, app.js:138-145, does not ask). `wrote` records of every write
who was signed in and whose data it joined. `kept`, `wanted` and `lasting` record
what the user was promised: an operation once saved, who may be found signed in,
and who after a kill (a sign-in or a sign-out whose record was not yet saved may
be forgotten).

### SyncServer, SyncLog

A request's program counter follows `handleOps`: which operations are applied
already, field merges one by one, then the rest as one transaction, re-read and
retried when overtaken (`sync_tx_guard`), re-sorted when another request
claimed some of its operations (`DuplicateOpConflict`). One action is one D1
statement or one atomic batch; `Die` cuts a request anywhere. A device's poll
reads the revision and the rows in two steps. `SyncLog` is what the transaction
promises, and knows nothing of requests, claims or retries; the refinement
mapping takes its last revision from `rev`, the operations' revisions from
`applied` and the rows' from `rowRev`, and `IsOneLog` says that the server
implements it.

### SocialHistory

`db` is the account's part of D1 (its own history, its public projection with
`social_at`, completions, works, switches, revisions), `mirror` and `cursor`
the friends' devices. Operations: a view (possibly made earlier, on another
device), a removal, a completion, a patch of the switches, and a push that
carries several of them in the order in which `handleOps` applies them;
`publishDue` runs in front of a poll. `may` is a history variable: since when
each view, completion and work's name may be seen, computed from the switches
at the time of the event and never from the code's own `social_at`.

### DeviceTrust

`account`, `data`, `code` and `trust` are the tables `accounts` (life cycle and
`purge_after`), everything else that holds rows of an account,
`device_requests` and `trusted_devices`; `device` is what a device keeps (its
credential, the undo it offers) and the screen it shows. A request stands in
`req` before the statement it will make next: `ClaimSelect`, `ClaimConsume`,
`ClaimList` and `ClaimTrust` are the four of `claimDevice`, `IssueTrusted`,
`IssueAccount` and `IssueTouch` those of `issueSession`, and so on. `sweep` is
`purgeExpired`, the one flow that nobody asked for. Between the statements any
other request may run, and any may `Die`. The actions `Start...`, `Choose`,
`ShowApproval` and `Poll` are the device's side: which screen leads to which
request. A sign-out, a deletion and an undo may lose their answer or never
arrive; a device that gets no answer to its undo goes on to the end of the
deletion (`finishes`, shell.js:3971-3979). `undone` is a history variable: the
accounts whose deletion was taken back while the device still counted down, by
an undo that was not cut off. Time only matters to deletion: the Worker reads
its clock when a request arrives (`at`), so a request can be decided by an hour
that has passed when its statement runs. A prompt request takes at most
`Patience` from the press to the answer; where `Late`, any time.

### Translation

`usd` and `reserved` are `translation_spend`, `pages` and `chapters` the tables
of the week, `claim` is `translation_inflight`, `row` the saved answers, kept
only as how much of the page they cover, `term` the word of the work that
`translation_terms` remembers. A request's `pc` follows `handleTranslateText`:
`Look` (and `LookAgain` for the fast engine), `Claim` or `Wait`, `Admit` (the
month), `Count` (the week), up to three questions, `Save`, and on any other way
out `Refund` and `Release`. `Flush` is one request to the provider with the
questions of all pages of a batch; the replies are external. Pages sent whole
and lessons from the Arabic chapters take no claim and go the shorter way of
`handleTranslatePage` and `handleTranslateLearn`. `Remember` stores what a batch
learned in the order of its pages. `holds`, `counted`, `opened` and `billed` say
what a request has had of the books and not given back, `cost` what the Worker
was told its questions had cost, and `unheard` what the provider was paid for
answers that were lost on the way to the Worker: they are what the books are
compared with, and the code has no such record.

## 3 Runs

`tlc -config <cfg> <module>`; each takes between a few seconds and about three
and a half minutes on two cores. "Deadlock" is off everywhere: users, failures
and kills are bounded, so a behaviour may end; that it ends well is what the
liveness properties and invariants say.

| Run (cfg) | Instance | Shows |
|---|---|---|
| `room_presence` (`TogetherRoom_presence`) | 3 accounts, 4 connections (one account has two), 2 seats, sockets that are slow to close, 1 restart, time to 3; symmetric connections | `StorageCurrent`, `OneSeatPerPerson` |
| `room_play` (`TogetherRoom_play`) | 2 accounts, 2 versions of the timeline, every mode and report, time to 3, fair | `TimelineVersioned`, `StopsOnlyByCommand`, `EmptyRoomDeleted`, `AbsentHostReplaced`, `NextEpisodeStarts` |
| `queue_rules` (`SyncQueueRules`) | every queue of up to 4 operations on 2 keys, limit 2 | `CompactionKeepsEffect` |
| `writes_counts` (`SyncWrites_counts`) | queue limit 1, batches of 2, 2 attempts; 2 writes (reading time, a heart, a comment the server fails on), 2 failures (none, 401, 500) beside it, a kill; late arrivals, user retries, a failing copy | `CountedOnce`, `NothingDropped` |
| `writes_values` (`SyncWrites_values`) | 3 writes of hearts, progress and a comment the server fails on, 2 failures (none, 400, 500) beside it, a kill; fair | `ProgressKept`, `NewestWins`; `Drains`: the queue empties past the poison |
| `mirror_pull` (`SyncMirror_pull`) | tables {x1,x2} and {y1}, x1 there from revision 0 and written by the device too, any set of rows written by others, pages of 1, 3 revisions, a failure, a kill, failing copies | `NothingBehindCursor`, `SurvivesRestart`, `AckedStaysVisible` |
| `mirror_heals` (`SyncMirror_heals`) | tables {x1} (the account's own row) and {y1,y2}, of which y1 is the owner's; y2 or both are written by others, 1 revision, pages of 1, audits, one restored backup, one failure; fair | `Heals` |
| `accounts` (`SyncAccounts`) | 2 accounts, 2 crossing sign-ins, one sign-out, one renewal, 2 writes, with somebody signed in or nobody, a kill; symmetric accounts | `NeverAsAnother`, `SavedIsKept`, `SessionIsWanted` |
| `server` (`SyncServer`) | 3 requests: two share operations as a retry does, one field merge, one operation with nothing to do; 2 rows, a death, a polling device; fair | `ExactlyOnce`, `AnswerIsTrue`, `NothingBehindCursor`, `Answers`, refinement `IsOneLog` |
| `history` (`SocialHistory`) | one work, a device, two views (one up to an instant late), 4 operations, grace of 1, time to 3; fair | `SecretsKept`, `MirrorMatches`, `ShownIsOwned`, `FriendsCatchUp` |
| `translation` (`Translation`) | 3 pages of 2 chapters, one reader, 3 requests in four plans of calls, a budget of one reservation and a question, limits of 1, one death or failing statement; fair | `BudgetHeld`, `BillCovered`, `QuotaHeld`, `OnePayer`, `EarliestWins`, `NeverWorse`, `Answered` |
| `trust` (`DeviceTrust`) | 2 devices, 2 accounts (one still to be created), one code, 2 requests at a time, 2 credentials a device, grace 2, allowance 4, patience 1, time to 7, six plans of what people do; deaths at any step, the undo's included, and lost answers; fair | `CanOpenAll`, `UndoInTime`, `DeletedIsGone`, `ApprovedGetsIn` |

**Why these bounds.** The hazards are crossings of a few actors, not
quantities, so the bounds are chosen for the crossing to happen:

* Room: three accounts for two seats make refusals and replacement; four
  connections let one account reconnect while its old connection is listed; a
  deadline of 1 for the host and 2 for the room puts both before `MaxTime`, in
  either order; two versions are enough for one to be overtaken by another.
* Writes: a limit of one makes every second write trim; a batch of two carries
  the poison in its first place or in its second, with an innocent beside it;
  two attempts are the fewest for which counting, probing and quarantine differ;
  two failures, beside those of the poison, are one for each of the request and
  its repetition.
* Mirror: a page of one row cuts every table; two tables are needed for one to
  run ahead of the other; a third revision is one that comes between. For
  `Heals`, y1 counts for the shrink guard and y2 does not, so that a restored
  backup loses rows the audit may give up and rows over which it refuses.
* Accounts: two crossing sign-ins are the fewest for which one overtakes the
  other; two writes, one per account, or one while nobody is signed in; one kill
  anywhere.
* Server: two requests that share operations and a third that only overtakes
  them; a request can be overtaken at most as often as others commit, fewer
  times than `MAX_TRIES` = 8.
* History: two views of one work are what a removal, a late view and a merge
  need; `MaxTime` leaves room for two hours (grace periods) one after the other.
* Translation: three requests are what a page asked for twice while a third
  repairs it needs, and what a batch of two and a page beside it are. A
  reservation is three questions, a budget of four admits one request and then
  another only if what the first gave back is given back exactly. With
  `ClaimTTL` = 0 and one instant of time every claim of an ended request is
  an orphan's one instant later. The four plans are the calls that can meet:
  the same page by both engines, a batch beside a whole page, two chapters
  beside the limit of one, lessons beside a page.
* Trust: a device inside and one outside, an account and one that is created
  meanwhile, are the fewest for a claim to cross a creation. `Allowance` is the
  least above `3 * Patience` (`Timely`): a deletion asked for twice and an undo
  each take a `Patience`, and with less TLC finds an undo refused that was
  pressed in time. Time to 7 holds a whole deletion and the sweep after it,
  and the plan with two deletions lets the countdown of the first overlap the
  second. A plan says how often people pair, create, delete, write, sign out,
  reinstall or leave; six plans instead of one with everything keep the run
  short, and each pair that can interfere stands in one of them.

Every property of a passing run is also tried against a mutant, listed in
`PROJECT.json`: a definition that stands for code is replaced by one with a
plausible mistake, and the run has to fail. Most mutants stand in the modules,
in front of what they replace.

## 4 Fairness

Safety properties need none. Liveness uses weak fairness of what the program or
its platform does by itself, never of what users or failures do:

* `TogetherRoom`: time passes (`Advance`) and a due alarm is delivered
  (`Alarm`): Durable Objects guarantee alarms at least once.
* `SyncWrites`: a push starts while something waits (the push timer and the
  poll call it), the server answers what reached it, fails on what it cannot
  take (`Choke`), and a recovery ends.
* `SyncMirror`: pulls and audits are started by timers, their steps and storage
  writes end.
* `SyncServer`: a request that runs goes on (`Handle(r)`), unless it dies.
* `SocialHistory`: friends poll, and time passes.
* `Translation`: while requests are at work, a step of one or a flush to the
  provider comes to its end (Worker and D1 go on, the provider answers or the
  call to it times out).
* `DeviceTrust`: every request goes on (`Serve(r)`), the sweep that the timer of
  every minute starts (`Sweeping`), time passes (`Tick`).

Strong fairness is assumed once, in `DeviceTrust`, of the polls of a device that
waits with a code and of the first two statements of a claim. A poll is disabled
whenever all slots are taken or the previous one is under way, and is repeated
every four seconds (`screens/accounts.js:492`); a Worker may die in any of them.
What is assumed is that not every question the device repeats finds its Worker
dead before its first two statements.

## 5 Proofs

Proved with TLAPS for all values of the constants, under the modules' named
assumptions (`CoreAssumption`, `RoomAssumption`, `QueueAssumption`,
`RulesAssumption`, `WritesAssumption`, `ServerAssumption`, `SocialAssumption`,
`NoRowAssumption`, `MirrorAssumption`, `AccountsAssumption`,
`TranslationAssumption`, `DeviceTrustAssumption`: constants have their types, no
row at all is no row, time limits and the limits of queue, quarantine, batch and
attempts are positive, and there are finitely many connections, rows, accounts
and codes). In each case the
invariant is inductive, was first checked by TLC, and is proved by one lemma for
every action. A theorem with hypotheses on the constants that let failures in
says which it needs; the known departures show what happens without them.

**TogetherRoomProofs** — `RoomTypes`, `RoomVersions` and `RoomStopsByCommand`
without a hypothesis; `RoomSaved`, `RoomSeats` and `RoomClocks` while no sleep
falls into the closing of a socket (`~WakesClosing`; see the known departures).
`Kept` is what the first three need: types, `Clean`, and a stored room that is
the one in memory. `IInv` is `TypeOK /\ Clean /\ StorageCurrent /\
OneSeatPerPerson /\ AbsenceClocks`. `Clean` says that no change waits to
be saved between two events; with `StorageCurrent` a hibernation restores the
very room, so the other conjuncts survive it. `StorageCurrent` is the strong
one: each handler must be shown to persist all that it changed and to leave the
alarm at the next deadline, and the alarm's handler to find work whenever it is
due. `RoomVersions` and `RoomStopsByCommand` are action properties: by
`StorageCurrent` the timeline that a sleep or a restart reads back is the one in
memory. `StopsOnlyByCommand` is proved operation by operation: of everything a
message, a departure or an alarm can lead to, only the pause and the new episode
of somebody inside who may command turn `playing` off.

**SyncServerProofs** — `ServerTypes`, `ServerExactlyOnce`, `ServerAnswers`,
`ServerDeltas`, `ServerIsOneLog`. Beside the four invariants, `IInv` has:
`ClaimsAreApplied` (`op_claims` and `applied_ops` name the same operations),
`NothingAhead` (no operation, row or cursor is beyond the revision) and
`Working` (a request at work has something to commit and an attempt left). Exactly-once
comes from `op_claims` in the same transaction as the effects; deltas from
reading the revision before the rows: a row committed in between has a revision
above the cursor that is returned. `ServerIsOneLog` shows that every step of
`SyncServer` is a step of `SyncLog` or a stutter.

**SocialHistoryProofs** — `HistoryTypes` and `HistorySecrets`, the latter under
`~Overtaken` and `~OpensLate` (see the known departures). `SecretsKept` is about
the devices; it is not inductive, because the next poll hands out what D1 has
and the next publication what `social_at` says. `Keeps` therefore states it of
every row of D1, for now if the row is public and for its `social_at` if it is
not, and `Holds` of every mirror; `Unmade` says that nothing is due for a view
nobody has made.

`HistoryMirrors` (`MirrorMatches`) and `HistoryOwned` (`ShownIsOwned`) hold
under `~Overtaken`, `~OpensLate` and `~ReturnsUnseen`.
`MirrorMatches` speaks of a friend who has polled at the present revision;
nothing about a later poll follows from it, so the invariant speaks of every
cursor. `MirrorInv` is `Owned` (a public row has a row of the history behind
it), `Ordered` (the tables of D1 agree: no row is newer than the last revision,
a withdrawn history has no public row, only what is out is public) and
`Follows`, for each friend's device: it has every row up to its cursor that it
may have, and nothing that is not public any more but what its next poll purges.
One state of D1 is `After` another if what differs is newer and what was out
stays out; a device that follows the one follows the other, and every operation
is shown to lead to such a state. The purge is where `~ReturnsUnseen` is needed:
the one `view_privacy` row must still tell of the withdrawal a device has not
seen.

**SyncWritesProofs** — first the rules. `CompactionIsExact`: for any queue and
any state of the tables, applying the compacted queue leaves what applying the
whole one leaves. Compaction picks places out of the queue, so the lemmas speak
of the places that stay (`Compacts`); the proof walks along the whole queue and
says at each place that the tables of both are `Alike` but for hearts that a
later place still overwrites and progress that one still brings. `replay` is a
recursive function; inductions over the length go through a least
counterexample (`Least`), since the library's theorem of induction takes an
operator. `AnyQueueCompacts` is the same of the module whose states are the
queues (`CompactionKeepsEffect`).

Then the path. `ServerCountsOnce` (`CountedOnce`) needs no hypothesis: both
stored copies may fail, requests may arrive late, any limit may be 1. `CountInv`
says of every queue, stored copy, batch and stray request that what it holds is
`Genuine` (what was written under its identifier, a point of progress apart,
which merging may move), and that the server's sum is that of what it applied.

`NothingIsDropped` (`NothingDropped`) holds while localStorage can be written
(`~LocalMayFail`) and quarantine has room (`Roomy`); the account copy may fail,
requests may come late, the user may retry. `KeepInv` says that memory keeps
every counted operation and event, and that localStorage's copy does too, which
is what survives a kill.

`ProgressIsKept` (`ProgressKept`) and `NewestHeartWins` (`NewestWins`) are about
states, which compaction merges, and hold while no request arrives late, the
user retries nothing, both copies can be written (`~LateArrivals`,
`~UserRetries`, `~LocalMayFail`, `~CopyMayFail`; see the known departures),
quarantine has room, and trimming never has to drop a state (`Uncrowded`).
`RoomForAll` derives the last two where queue and quarantine each hold as much
as the user writes, as in `writes_values`; `Roomy` also holds in
`writes_counts`, whose queue is shorter. Neither property is inductive: which of
several waiting states reaches the server last depends on their order and on
what is under way. `ValueInv` adds, of the operations about one state that still
wait: identifiers rise along the queue and the batch; none was overtaken by a
later one that is applied (`InTurn`); a point of progress under an applied
identifier is reached, even where merging moved it after it had been sent
(`Arrived`); what is under way goes as far as what waits under its identifiers
(`InFlight`); no batch passes an earlier state by (`Behind`); an operation
behind another of its state has not failed yet (`Untried`), so that of two
states in a batch the earlier is given up no later than the other; quarantined
operations wait nowhere else (`Apart`). With these, `Far` (the furthest point is
at the server or going there), `LastHeart` and `HeartKept` (the last heart
applied shows, the last one written is somewhere) are preserved by every step.

**SyncMirrorProofs** — `MirrorMissesNothing` (`NothingBehindCursor`),
`MirrorSurvives` (`SurvivesRestart`) and `MirrorShowsAcked`
(`AckedStaysVisible`), without audits and without a restored database: an audit
beside a pull, or a server that went back in time, leaves holes (known
departures), which the next audit fills. `AuditInstallsWhole` is about audits
too: what one stores and then installs misses nothing up to its own cursor. The
invariant says of the account store's copy, of what a pull has answered and of
what it is storing what the property says of the mirror: every row up to the
cursor is there as the server has it; localStorage's copy may be torn, but not
when its cursor is the newer one. Of a request that is being served, `Asking`
says what the device has of the rows not asked for and what was read of the
others. Between the reading of the tables and that of their last groups, every
row that no cut table has passed was read as it is (`Partial`), and no older
version than the device's was (`Fresh`); once answered, the device's rows and
those of the answer together are complete up to the cursor to come, whatever was
committed meanwhile. A page brings the mirror exactly to the cursor
it comes with, which is where pages cut inside a revision matter. `page` and
`nextDeltaCursor` take the least and the greatest of finite sets of revisions,
which exist because the order is well-founded.

**SyncAccountsProofs** — `AccountsApart` (`NeverAsAnother`), under `~Hasty`, with
any writes to the disk that fail and for any number of sign-ins under way: what
the server gets as somebody was written into that account's data, by whoever is
signed in on it or by nobody (`~Unattended` is not asked for; who may write then
is a known departure); `SavedQueuesKept` (`SavedIsKept`, of what somebody signed
in wrote), under `~Hasty`, `~Overlapping`, `~Unattended` and a disk that takes
its writes; `WantedSignedIn` (`SessionIsWanted`), under `~Hasty` and a
session store that takes its writes (localStorage may refuse all of them).
`Queues` adds to it the copies nobody has installed yet: those on their way to
the account store, and the one a flow has read. The hard part is the request
that is sent again after a renewal under the token of the moment
(`Saved("renew")`). `Renewal` says why that token is still its account's while
the renewed session is being saved: a sign-in of the same session for another
account has to save that account's grant first, in a record behind the
renewal's, and so cannot be answered before; a sign-out's record is behind it
too, and outdates every sign-in; and a sign-in does not start before the
sign-out has ended. The last is `~Hasty`; the first two come from one chain of
records. `Boots` and `Clocks` say that no sign-in goes on before the start is
over, and that generations and attempts only grow.

Of a saved operation `KeepInv` follows every copy. Each write under way to an
account's store holds what the store holds and what the writes before it bring
(`Chained`); the queue in memory and localStorage's copy hold what all of them
bring (`Held`, `Cached`); a flow that changes the data waits for every write of
the account it is about to read (`Waits`), so what it has read is all there is
(`Reads`); localStorage's queue was given to the store before its account's data
are left (`Settled`); and a flow that begins to change the data outdates every
other that had begun (`Entering`), which is what `~Overlapping` is for.

Of the session, `WantInv` says that every record, saved or on its way, names
somebody a kill may leave signed in (`Listed`), that records carry growing
stamps and the newer of the two copies is the one that counts (`Dated`), and
that when a sign-in or sign-out reports that it was saved, its record is in the
session store, everything behind it names the same account, and what
localStorage has does too or is older (`Names`). `Early` is about the time
before the session is read: whoever signs out then leaves nobody, and the record
he has not written yet follows. `Latest` says who may still go on: a sign-in
begun after the last sign-out had ended, a renewal of who is signed in.

**TranslationProofs** — `TranslationTypes`, `MonthOfTranslation`
(`BudgetHeld`) and `BillOfTranslation` (`BillCovered`: what the Worker was told
the provider was paid), both unless `AnswerLost` and where a reservation covers
a request's three questions (`Ample`, which the code's flat reserve does for all
but the longest answers), `WeekOfTranslation` (`QuotaHeld`), `EarliestPageNames`
(`EarliestWins`), `OneClaimant` (`OnePayer`, unless `Slow`) and
`AnswersOnlyImprove` (`NeverWorse`, unless `Slow` or `Overtaken`). The books are
sums over requests, and their proofs are about cardinalities: `MonthBooks` and
`WeekBooks` count the requests that hold, counted or opened, and `Phases` says
at which statements a request can hold, so that every settling statement gives
back what this very request took. `OInv` is `Standing` (a request that claims
has its claim in D1, no older than itself) and `Alone` (of the requests for one
page and engine at most one is between claim and release). `BillInv` says that a
request is billed when it is over and holds nothing, so that the sum over the
billed grows only as `usd` does; `WordInv` that the remembered word is no later
than the pages of its chapter that were kept, and that only text has a word.

**DeviceTrustProofs** — `TrustTypes`, without a hypothesis, `UndoneIsKept`
(`UndoInTime`), under `~Late` and `Timely`, and `TrustIsForAll`. `IInv` is
`Typed`, `Answering`, `Counting` and `Undoing`, of which the last three speak of
times and hold when requests are `Prompt` (`~Late /\ Timely`): then a request
about a deletion takes at most `Patience`. `Answering` says that whoever is told
of a grace asked for the deletion early enough for the whole allowance to be
left, `Counting` that a countdown on a screen ends more than `Patience` before
its account may go, and `Undoing` that of every deletion taken back in time the
account is active or the request is still on its way, and will be decided before
`purge_after`; so no wiping can begin in between. An undo that is cut off is
taken out of `undone`: nothing is promised of it (known departures). Two
deletions of one account that cross, the first of which sets `purge_after` and
the second of which brings the countdown, and the undo cost one `Patience` each,
which is why `Timely` asks for `3 * Patience < Allowance`.
`TrustIsForAll` (`CanOpenAll`) holds when no creation
crosses a claim (`~Crossing`): its invariant says that a device asks for a new
code only after its rows were recovered with the credential it has now, so that
all rows of a device carry one credential and there is one for every account
that was not wiped, an account in its grace included.

**Only model-checked.** Liveness (`EmptyRoomDeleted`, `AbsentHostReplaced`,
`NextEpisodeStarts`, `Drains`, `Heals`, `Answers`, `FriendsCatchUp`, `Answered`,
`DeletedIsGone`, `ApprovedGetsIn`): liveness under fairness and `ENABLED` are
beyond the prover. The invariants and the action properties of the runs all
have a theorem, under the hypotheses named above.

## 6 Known departures

Each of these is a property that the modules define, checked with a constant
that lets in what the code lets in, or a property that no run uses, because TLC
finds a behaviour of the code against it. To see one, change the run's cfg as
described; where nothing is described, the property fails in the run as it is.

*Together room* (`room_presence`, or `room_play` for the liveness ones):

| Property | What happens | Against |
|---|---|---|
| `OneSeatPerPerson` (with `WakesClosing`) | the constructor restores every socket `getWebSockets()` returns (together.ts:69-74), a socket's attachment is written before `join` answers (together.ts:124), and the platform returns a socket whose close handshake is not over: a sleep in between seats a refused (4003, 4005) or replaced (4001) connection, as one too many or as a second seat of its account, until its close arrives | core.ts:196 |
| `StorageCurrent`, `AbsenceClocks` (with `WakesClosing`) | the same wake-up seats somebody in a room that was empty or without its host: storage still says so, and the alarm is that of the empty room | together.ts:10-11 |
| `MembersMayReturn` | `transferHost` (core.ts:391) puts nobody on the guest list: the previous host is inside, and off the list (core.ts:138) once he drops | `docs/VANTARA_TOGETHER.md:159` |
| `SeniorityKept` | a reconnected member is restored from the attachment written before `join` (together.ts:121), as a newcomer: the "oldest member" of the next hand-over is another | together.ts:10-11 |
| `HostlessRoomRecovers` | a host who never connected has no absence to time (core.ts:239), so nobody ever replaces him | core.ts:399 |
| `EmptiedRoomDeleted` (with `MaxRestarts` = 1) | a restart that keeps no socket finds nobody to time and sets no alarm (together.ts:68): the room stays in storage | `docs/VANTARA_TOGETHER.md:85` |
| `ReadyRoomStarts` (`Reported` = {"ready"}) | `hostReadyAt` is armed only by a change of the host's own state (core.ts:366): when the hosting moves to a member who is already ready, everybody is ready and nothing starts | core.ts:21 |

*Device write path* (`writes_counts`, `writes_values`; `mcHearts`, `mcProgress`
and `mcTime` are the `Writes` that show each quickest):

| Property | With | What happens | Against |
|---|---|---|---|
| `NothingDropped` | `MAX_QUARANTINE` = 1 | a second quarantined operation pushes a `usage.add` out (sync.js:478) | queue.js:29 |
| `NothingDropped` | `LocalMayFail` | a write before the recovery ends overwrites the copy it would have recovered from (sync.js:454) | queue.js:29 |
| `NewestWins` | `CopyMayFail` | the copy that missed a compaction brings an older state back behind a newer one (sync.js:438) | queue.js:121-123 |
| `NewestWins` | `LateArrivals` | an abandoned request overtakes a newer one (sync.js:1298) | the comment at sync.js:1297 |
| `ProgressKept` | `UserRetries` | a retried operation joins the end of the queue behind newer ones (sync.js:1402) | queue.js:16-17 |

*Device read path* (`mirror_pull`, with `Audits`):

| Property | What happens | Against |
|---|---|---|
| `NothingBehindCursor` | `auditMirror` replaces mirror and cursor after an await without looking at a pull under way (sync.js:1063). A pull that applies its rows to the mirror being replaced then raises the cursor above them: rows between the snapshot and that cursor are fetched by nobody until the next audit, a day later | the comment at sync.js:1075, "Changes committed after the snapshot are fetched by the ordinary delta." |
| `SurvivesRestart` | an audit stores its snapshot before it installs it, a pull in between stores a newer cursor with older rows (sync.js:1058-1066) | the same |
| `AckedStaysVisible` | the effect of an acknowledged write disappears for a moment when the audit's older snapshot is installed | sync.js:271-277 |
| `Rebuilt` (`mirror_heals`) | after a restored database that lost one of the owner's rows every audit refuses (`mirror_audit_shrank_*`, sync.js:1051-1055): the mirror keeps rows the server does not have, and is not rebuilt | the comment at sync.js:1126-1129, "نُعيد بناء المرآة" (we rebuild the mirror) |

*Session ownership* (`accounts`):

| Property | With | What happens |
|---|---|---|
| `NeverAsAnother` | `Hasty` | a request rejected for its token is renewed and sent again with whatever token the device has by then (sync.js:690): after a sign-out and a sign-in that did not wait for one another, another account's. The app waits (app.js:1431) |
| `SavedIsKept` | `Hasty` | `checkpointOwner` waits for nothing when no data are loaded (sync.js:352): the sign-in reads the account's stored queue before the sign-out has written it, and the next write replaces it |
| `SavedIsKept` | `LocalMayFail` | an account's operations written only to the store are replaced there by a write that comes before `recovered` has read them |
| `SavedIsKept` | `IdbMayFail` | when IndexedDB refuses the checkpoint, the sign-in finds an empty queue, and the next write overwrites `QUEUE_KEY`, which held the operations: `selectOwner` never reads localStorage |
| `SavedIsKept` | `MaxLogins` = 4 and `Overlapping` | a sign-in to another account is overtaken after it had changed the data, and two sign-ins back to the first both read its stored queue. The overtaken one of these switches the data and the user writes; the other then installs its older read, and the next write replaces the operation everywhere: after its awaits `selectOwner` (sync.js:381-401) compares the generation only, not whether the data are still the source's. Sign-ins do overlap: the PIN pad's cancel (screens/accounts.js:421) frees `busy` while one is under way |
| `SessionIsWanted` | `IdbMayFail` | after a sign-out a repeated request without a token is rejected, and `request` (sync.js:696-700) overwrites the tombstone in localStorage by a record that names nobody and cannot be read back; if IndexedDB refused its tombstone too, the next start restores the signed-out account |
| `NobodyWritesAsSomebody` | `Unattended` | `enqueue` refuses a write only when somebody else is signed in (sync.js:1217), and the usage clock (app.js:138-145) writes with nobody signed in: before the start has put a signed-out device's data aside, or after a sign-in that had changed the data was overtaken by one that is refused. The operation joins the data's queue and is later sent as that account; or it is lost with the data it was written into, so `SavedIsKept` promises only what somebody signed in wrote |
| `DataFollowsUser` | `MaxLogins` = 3 | a sign-in that was overtaken after it had changed the data leaves them changed: when the overtaking one is refused (a wrong PIN), the account that is still signed in has another's data, `enqueue` throws and `push` and `pull` do nothing until the next sign-in or start |

*Social history* (`history`):

| Property | With | What happens | Against |
|---|---|---|---|
| `SecretsKept`, `ShownIsOwned` | `Overtaken` | a view older than a removal reaches the server after it (index.ts:2187) and revives the public row with the old `social_at` | `0030_privacy_grace.sql:6,10` |
| `SecretsKept` | `OpensLate` | field merges are applied before the push's other operations (index.ts:2562-2568): a view made while hidden is written under the setting changed after it | `shell.js:4632-4634` |
| `MirrorMatches` | `ReturnsUnseen` | withdrawing the history deletes the public rows and tells devices through one `view_privacy` row, which the next switch overwrites (index.ts:2480): a device that polls only after the history came back never purges and keeps what was withdrawn, until its daily audit | `migrations/0033_public_work_views.sql:22` |
| `CompletionsAreNamed` | | with both "share current" and the history off, a completion is published without its work's name | index.ts:1027-1028 |

*Page translation* (`translation`):

| Property | With | What happens |
|---|---|---|
| `NeverWorse` | `Overtaken` | the saved answer is read before the claim is taken (translate.ts:741-758): an answer saved in between by the request that held the claim is not seen, and is replaced by one that may cover less |
| `OnePayer` | `Slow` | a request that outlasts its claim by a slow provider deletes, on its way out, the claim of the one that took over (translate.ts:203): a third request claims the page while the second still pays for it |
| `BudgetHeld` | `AnswerLost` | a batch that D1 committed and reported as failed is refunded after it was settled: `reserved` then lacks another request's reservation |
| `WholeBillCovered` | `Unheard` | when the answer of the provider is lost on the way (`fetch` or `res.json` throws, translate.ts:1005-1009) the reservation is given back with a cost of 0, though the provider may have been paid: what it was paid in all is not covered, only what the Worker was told (`BillCovered`) |
| `BudgetHeld`, `BillCovered` | `Reserve` = 2 | `RESERVE_USD` is a flat 0.02 (translate.ts:114). Three questions of `max_output_tokens` 16000 (translate.ts:981) at 0.5 a million (translate.ts:31) cost 0.024 without their input: a request can cost more than it reserved |

Without a property: a refund deletes the chapter's row under which pages of
other requests were counted meanwhile (translate.ts:184); the paths for whole
pages and lessons refund without the cost of failures they were billed for and
take no claim; a request that dies keeps its reservation and its page until the
period ends; a fast request that found a page of quality with holes repairs and
saves it as one of quality.

*Device trust* (`trust`):

| Property | With | What happens | Against |
|---|---|---|---|
| `CanOpenAll` | `Crossing` | a claim lists the accounts and trusts them in two statements, a creation between them copies the trust of the devices there are: the new device cannot open the new account, nor one that was in its grace and was taken back | accounts.ts:157 |
| `UndoInTime` | `Late` | nothing limits how long a deletion or an undo takes (`accountCall` has no time limit and makes up to three requests); the allowance of two seconds is all there is for all of them. A countdown that began late ends after `purge_after`, and an undo pressed in it is refused or finds the account wiped | accounts.ts:27-30 |
| `PressedIsKept` | | an undo pressed in time that is lost, whose Worker dies, or whose access token expired in the grace (secure-index.ts:401; a renewal needs an ACTIVE account, 319-327) fails, and the device goes on to the end of the deletion (shell.js:3971-3979) | accounts.ts:27-30 |
| `ApprovedGetsIn` | `Broken` | a Worker that dies between the consumption of an approval and the trust it stands for leaves neither (secure-index.ts:247): the device polls on until the code expires, and has to be approved again | |

Without a property: an approval claimed while all accounts are in their grace
ends with 409 `no_accounts` after it was consumed; a claim whose answer is lost
leaves a trusted device waiting for its code to expire; `MAX(credential_hash)`
(accounts.ts:160) may copy an older credential of a device whose rows differ;
`requestDevice` deletes, counts and inserts in three
statements, so that two requests of a device may leave two codes, and many may
pass the limit on open ones.

## 7 What is abstracted

* Operations of `SyncWrites` are four kinds, one per rule; their payloads are a
  number. `SyncServer` keeps of `statementsFor` that a valid operation writes a
  row and an invalid one none. Device identifiers, authorisation, rate limits
  and field validation are left out of it. So are `publishDue` and
  `ensureOwnerBadge`, which a poll runs before it reads the revision
  (index.ts:428-429): what they commit, at revisions of its own, is to the
  polling device a commit like any other.
* A backoff is a free choice of when a push starts; classification of failures
  is kept.
* `SyncMirror`: rows are versions. `dropAccountRows`, the purge of a withdrawn
  history, the landing list's cap of 400, the rows that the server keeps back
  (index.ts:605) and the limit on the rounds of one pull are left out (the purge
  is in `SocialHistory`; a pull that stopped goes on at the next poll).
* `SyncAccounts`: mirror and quarantine travel with the queue and are left out;
  PIN grants, remote logout, account deletion (410) and the migration of the
  oldest keys are not modelled; one renewal and one push are under way at a
  time. Every write with nobody signed in stands for the usage clock's, the one
  caller that does not ask who is signed in.
* `TogetherRoom`: content, positions and rates are left out of the timeline
  except where a guard reads them; `put` and `setAlarm` are one step; a
  collision of two random room codes is excluded; which of two seats of one
  account a third connection replaces is a fixed choice.
* `DeviceTrust`: every device is an Android device (`recoverDevice` takes only
  stable identifiers of those); a code's half hour is an event of its own
  (`Expire`); the hour in which a wiped account is swept again never passes;
  the rounding of the grace to seconds on the device (shell.js:3930) counts as a
  part of the answer's way; a sign-out revokes and removes the credential in one
  step (its answer may be lost);
  `pairDevice`, PINs and their lock, names and the formats of tokens are left
  out. A wrong PIN ends a request early, as dying does.
* `Translation`: costs are questions; the week and the month never turn; a batch
  is of one chapter, as the code requires. The regions of a page are the same in
  all requests for it, as the comment at translate.ts:759 has it (a request that
  names fewer keeps only those, 758, 833, 866), and every text request names its
  chapter. Reads, the glossary's own edits,
  `translationAllowed` and the lanes and waits of the device are left out.
* `SocialHistory`: one account's history; anonymous figures, weeks and cinema
  are the same code paths and are not repeated.

Components that are not modelled at all are listed with the reason in
`PROJECT.json`: native processes and players, parsing of third-party pages,
language models, caches that are rebuilt from the network, screens.

## 8 Plan

Order of work, the most important behaviour first:

1. Written: together room; queue rules and write path; server and its log; read
   path; social history; session ownership; page translation; device trust;
   proofs of the queue's rules, the write path, the room (its commands
   included), the server, the read path, the history's secrecy and its mirrors,
   the accounts of a device (whose writes, what was saved, who is signed in),
   the books, the bill and the names of translation, the undo of a deletion and
   the opening of all accounts.
2. `TogetherSession`: the client (`room.js`, `together-player.js`) composed with
   an abstract room: frames lost and late, reconnection, preparation of the next
   episode. Candidate property: a report about the previous episode never arms
   the start of the next (core.ts:21-22).
3. `Majlis` and `Presence`: reactions, votes and receipts as operations of
   `SyncServer`; time-to-live of presence.
4. The owner's confirmation of progress (`owner_synced`, index.ts:953-1022)
   composed with `SyncWrites`.
5. `TaskScheduler`: priorities and admission (`tasks.js`,
   `runtime-capacity.js`): no starvation, caps respected.
