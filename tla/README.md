# Formal models of GalMail

GalMail is a local-first mail client: a React interface inside a Tauri shell, an
encrypted database on the device, adapters for Gmail and Microsoft 365, an MCP
server for AI clients, and small hosted services that see only ciphertext (blind
relay) or only what the user opted in to (opt-in processor, homelab API). This
directory holds TLA+ models of the parts whose correctness depends on order,
failure and concurrency, the TLC configurations that check them, and proofs
checked by TLAPS. Paths below are relative to `src/`.

## The system

| Part | State it keeps | Operations | Talks to |
| --- | --- | --- | --- |
| Native engine, outbox (`apps/web/src/lib/native-sync.ts`) | Map of `OutboxMutation` objects; their records in the store | `enqueue`, `flushOutbox`, `cancelOutbox`, `retryOutbox` | provider, store |
| Native engine, mail (`native-sync.ts`) | Maps of messages, threads, attachments, cursors | `hydrateLocal`, `pullDeltas`, `syncLabel`, `searchMailbox` | provider, store |
| Gmail adapter (`packages/providers/src/gmail/live.ts`) | `completedMutations`, caches | `fetchDeltas`, `fetchRecentMessages`, `applyMutation`, `sendDraft`, `saveDraft` | Gmail |
| Microsoft adapter (`packages/providers/src/microsoft/live.ts`) | caches, delta links | the same contract | Graph |
| Encrypted database (`crates/galmail-core/src/database.rs`) | records, FTS index, sync commits | `put_record`, `list_records`, `apply_sync_batch`, `index_mail`, deletion, migration | SQLCipher |
| Secure storage (`apps/web/src-tauri/src/secure_storage.rs`, `release_support.rs`) | wrapping key, wrapped vault key, tokens, safe-mode marker | create, migrate, load, delete, repair, export, reset | Keychain, files |
| OAuth (`gmail_oauth.rs`, `microsoft_oauth.rs`, `ios_oauth.rs`) | attempts, tokens | begin, complete, refresh, revoke | token store, provider |
| MCP (`packages/mcp`, `mcp_bridge.rs`, `mcp-live.ts`) | pending approvals, pending calls, sessions | tools, approve, respond, time out, stop | engine, webview |
| In-memory engine (`packages/core-api/src/memory-sync.ts`) | Maps only | as the native engine | fixtures |
| Blind relay (`services/blind-relay/src/server.ts`) | accounts, devices, invites, nonces, blobs (D1 + R2), push routes, events, receipts | HTTP handlers, queue consumer, retention cron | D1, R2, queue, APNs |
| Opt-in processor (`services/opt-in-processor/src/server.ts`) | consents, retained inputs, revocations | consent, classify, revoke, retention | D1, queue, providers |
| Homelab API (`services/homelab-api/src/server.ts`) | devices, consents, inputs | the same over PostgreSQL | APNs, AI |
| Accounts of the webview (`apps/web/src/lib/account-session.ts`, `runtime.ts`) | account list, two deprecated keys | connect, reconcile with the Keychain, remove | shell |
| Interface, mail (`apps/web/src/App.tsx`) | threads, selection, reading pane, search, undo | opens, searches, triages, starts pulls, flushes, undo windows | engine |
| Interface, compose (`ComposeModal.tsx`, `FloatingDrafts.tsx`, `App.tsx`) | fields, autosave timer, floating drafts | edit, autosave, send, undo, minimise | engine |
| Pure functions (search, MIME, sanitizer, classifier, keyboard) | none | parse, format, classify | - |

What makes it hard:

* Everything in the webview is asynchronous. Several calls of one method of the
  engine run at once (a 15 s timer, undo timers, compose, refresh, MCP), share
  mutable row objects, and interleave at every `await`.
* The process may stop at any time. What is in the Maps is gone, what is in the
  database is found again, what was under way at the provider is unknown.
* The provider answers late or not at all and has changed in between; two
  requests that belong together (profile and listing, history and messages) see
  two different mailboxes.
* The relay keeps one fact in two stores that share no transaction.
* Queues deliver at least once, consent may be withdrawn in the middle of work.
* The window awaits the engine, the engine the provider: an answer may belong to
  a thread, a query or a draft the user has left.
* Commands of the webview reach the shell in no fixed order, and what is in the
  Keychain, in `localStorage` and in the database is merged at every start.

What has to hold, per part: *outbox* - an action the user took is carried out,
once, in order, not before its time, not after it was called off, across
restarts; *mail* - store and screen are a mailbox from which following the stored
cursor leads to the provider's; *blobs* - one register with rising revisions;
*devices* - an invite approves one device, a revoked device stays revoked, an
account keeps an approved device, a request is carried out once; *push* - an accepted hint is delivered or
recorded as failed; *consent* - nothing is processed without it, and revocation
reaches the provider; *MCP* - nothing is sent without the approval that was
asked for it; *accounts* - a removed account leaves nothing and does not come
back; *keys* - at every point the database that exists can be opened; *window* -
what is shown is what is open, an undo leaves nothing behind; *compose* - what
was typed is saved, and leaves once.

## Modules

| Module | Models | Checked by | Proved in |
| --- | --- | --- | --- |
| `Outbox` | the durable outbox, flushes, store commands, restarts | `OutboxOverlap`, `OutboxSerial`, `OutboxRehydrate`, `OutboxDuplicate` | `OutboxProofs` |
| `OutboxContract` | what the stored record and the provider promise about a row | as `Outbox!Contract` | `OutboxProofs` |
| `MailSync` | mailbox synchronisation of one account | `MailSync`, `MailSyncFailure`, `MailSyncOverlap` | `MailProofs` |
| `BlobStore` | sync blobs over D1 and R2 | `BlobStore`, `BlobDuplicate` | `BlobStoreProofs` |
| `BlobRegister` | the register a client may expect | as `BlobStore!IsRegister` | `BlobStoreProofs` |
| `DeviceRegistry` | accounts, devices, invites and replay nonces of the relay | `DeviceRegistry` | `DeviceRegistryProofs` |
| `GraphSync` | the delta links of a Microsoft account | `MailSync` | `MailProofs` |
| `PushRelay` | push routes, events and the queue of the relay | `Services` | `PushRelayProofs`, `ServicesProofs` |
| `OptInProcessor` | consent and token revocation of the hosted service | `Services` | `ServicesProofs` |
| `Homelab` | consent and push devices of the self-hosted service | `Services` | `ServicesProofs` |
| `Mcp` | MCP bridge, sessions, policy, approval gate | `Services` | `ServicesProofs` |
| `Accounts` | sign-in, tokens, refresh, removal | `Services` | `ServicesProofs` |
| `Vault` | the keys and the database file through starts, crashes and resets | `Services` | `VaultProofs`, `ServicesProofs` |
| `Inbox` | list, reading pane, search, triage, undo | `Window` | `WindowProofs` |
| `Compose` | composer, floating drafts, send and its undo | `Window` | `WindowProofs` |
| `MCOutbox`, `MCMailSync`, `MCBlobStore`, `MCDeviceRegistry` | instances for TLC | | |
| `MCMail`, `MCServices`, `MCWindow` | instances of several modules, one of which takes the steps of a behaviour: they share no variable that both change, so nothing is lost | | |

### Outbox

One action is the code between two awaits. Rows have the ids `1..N`, handed out
in any order (ids are random in the code); `Kind` fixes what each row is. A row
object lives in the heap `heap[r][slot]`: the Map points to one object (`cur`), a
running flush holds one (`flush[f].slot`), and they differ after `hydrateLocal`
has replaced the Map's - the aliasing of the code. Map order is `rank`. Store
commands wait in `ipc` and are executed in order; the record of the row is
`disk`. The second copy of a row, kind `"mutation"`, is never read back and is
left out.

| Action | Code |
| --- | --- |
| `CoalesceDraft`, `NewDraft`, `NewMutation`, `NewSend`, `SendCancelsDraft` | `enqueue`, the last one an iteration of its loop with an await |
| `CancelOutbox`, `RetryOutbox` | the methods of that name |
| `TakeRow`, `CallProvider`, `ProviderApplies`, `ProviderAnswers`, `ProviderThrows`, `EndFlush` | one iteration of `flushOutbox`, split at its awaits; the effect at the provider and its answer are two steps |
| `StoreExecutes`, `StoreRejects` | a command of the shell, and the caller going on |
| `HydrateStart`, `HydrateSets` | `hydrateLocal` while the engine is in use (MCP) |
| `Restart` | the process stops; the next one hydrates before anything else |

Abstractions: one account and one composed draft (the filters of the code keep
others apart); a draft's content is its version; a mutation over several targets
is one effect; `delete_draft` behaves like a mutation; `sent` counts effects up
to two; of the two puts of `Promise.all` the outbox record counts.

`OutboxContract` is the same seen from the stored records and the provider: a flush
takes a row (`Take`), sends it at most once for that taking (`Deliver`), has its
outcome (`Close`) and reports it (`Settle`). A record is queued when it is new,
edited or retried after a failure, never when it is done or cancelled; another
outcome may follow only from a flush that still has the row.

### MailSync

`log` is the provider's history, one message id per change; a cursor is the
number of the first change its holder has not seen, a message's content the
number of the change that produced it. `fetchDeltas` is `ReadHistory` or
`ReadProfile` and `ListMessages`, then one `LoadMessage` per id, each against the
mailbox as it is by then. `ApplyDeltas` is the synchronous part of `pullDeltas`,
`LabelsArrive` the await behind it, `BatchExecutes` the transaction of
`apply_sync_batch`, `IndexExecutes` one `index_mail`. A listing is cut off at
`BootstrapLimit` or `RecentLimit` (50 and 100 in the code, `CutOff`), and what a full
one leaves out is deleted with everything else that is not in it; `cut` keeps the
cursor of the last listing that had no room for a message. `ApplyFound` is `syncLabel`
and the ingest of the search. `RequestFails`, `StoreRejects` and `ListsRejected`
are failures at every await; `Restart` is a stop at any point. Threads, labels
and contacts are functions of the messages and left out; the history pages are
read in one step (the code uses none of them before the last).

### BlobStore

One action per operation on D1 or R2 of a request; the D1 row and the objects of
one blob, keyed by revision. `Reuse` says whether two PUTs may carry the same
revision. `Fails` ends a request anywhere. Account deletion and deletion of the
blob are `DeleteReads`, `DeleteErases`, `DeleteDrops`; the listing of the blobs
changes nothing and is left out, as is `expires_at`, which no code sets.

### DeviceRegistry

One account in D1; one action per statement or batch a handler awaits. `devices`
and `invites` are the rows, `nonces` the letters whose nonce has a row; a letter
is one signed request, which may arrive any number of times.

| Action | Code |
| --- | --- |
| `Bootstrap` | `devices/bootstrap`, one batch |
| `Sign` | a client signs; external |
| `Arrives`, `InsertNonce` | `verifyDeviceRequest`: header checks and row, then the nonce |
| `CreateInvite` | `device-invites` |
| `ClaimArrives`, `ApproveDevice` | `device-invites/claim`: first look, then the batch |
| `RevokeDevice`, `CleanUp` | the two statements of `DELETE devices/:deviceId` |
| `DeleteAccount` | the last batch of `DELETE accounts/:accountId`, with its cascades |
| `Retention`, `Tick` | `enforceRetention`, at any time; the clock |

Abstractions: the clock check and the read of the device row are one step - a row
that is approved a moment later is approved or not yet there at the check, and
then the handler could as well have started later; a signer's clock is ahead by
the whole skew, which makes its letter acceptable as long as any clock does; a
handler that fails is one that takes no further step; the device list, the audit
rows, `last_seen_at` and receipts, which no decision of these handlers reads,
are left out, push routes belong to `PushRelay`, and the blobs of a
deleted account to `BlobStore`.

### GraphSync

`cursor[f]` is the link of folder `f`: the length of `log`, the changes of the
mailbox, when it was given, or the sentinel the bootstrap leaves. A pull is
`FetchDeltas`, one `ListMessages` (bootstrap) or `FolderDelta` per folder, and
`PullDeltas`, which is the end of `fetchDeltas` and the engine's `pullDeltas` in
one step, since `MailSync` has the steps of that. `LinkExpires` is the 410 that
drops what was read and enumerates all folders; `PullFails` any other failure, or
a stop. `Move` and `Mark` are changes of another client or of `applyMutation`. A
folder is read in one request (the code uses no page before the last link is
there), message ids are stable across moves, as the code takes them to be.

### PushRelay

One action per statement or call a handler or the queue consumer awaits.

| Action | Code |
| --- | --- |
| `RegisterArrives`, `Register` | `POST push-routes`: device and limits, then the upsert |
| `Revoke`, `CleanUp` | the two statements of `DELETE devices/:deviceId` |
| `EventArrives`, `InsertEvent`, `SendToQueue`, `SendFails` | `POST /v1/events` |
| `Take`, `ProviderAccepts`, `AnswerLost`, `ProviderRefuses`, `ProviderFails` | `consumePush` up to the answer of the push provider, which may have notified the device and not said so |
| `Redelivers` | the queue delivers a message again that it had delivered; external |
| `RecordDelivered`, `RecordFailed`, `StoreFails` | its outcome, or the retry of the message |
| `Retention`, `DeleteAccount`, `EndpointGoes` | `enforceRetention`; the account; the device unsubscribes |

A message that was retried `MaxRetries` times is in the dead-letter queue. `unsure`
has the events whose notification the relay did not learn of, could not store, or was
given a second time. The signature of the sender and the content of the hint are left out.

### OptInProcessor and Homelab

The two services make the same promise with different means. In
`OptInProcessor` a consent carries a provider token and a batch is atomic:
`GiveConsent`, `ClassifyArrives` and `KeepInput`, `WithdrawArrives`, `Erase` and
`SendRevocation`, then `Take`, `ProviderRevokes` or `ProviderRefuses` (a 400, which
the code counts as revoked), `RecordRevoked` or `Retry` of the queue, `Retention`,
and `Deploy` of another disclosure. A failing handler is one that takes no further
step. `Erase` without a token read writes its receipt as complete and still deletes
the consent it finds. An input is the consent it was accepted under; `keepers`,
`ended`, `replaced` and `overlapped` remember which consents let inputs be retained,
were withdrawn, or gave a token nobody will revoke. In `Homelab` every statement commits by itself:
`Purge`, then `Disable` or `Delete`; `Classify`, `ClassifyMessage`, `KeepInput`;
`RegisterDevice`, `RevokeDevice`, `PushTest`, `SendApns`, `NotePush`. What the
classifier and APNs answer is a free choice.

### Mcp

| Action | Code |
| --- | --- |
| `SetPolicy`, `StartBridge`, `StopBridge`, `NewSession` | the settings and effects of `App.tsx`, with `startBridge` and `syncTokens` of `mcp-live.ts` |
| `EnsureListener` | `listen` has returned |
| `UpdateTokens`, `Start`, `Bound`, `Stop`, `LoopEnds` | the commands of `mcp_bridge.rs` and its accept loop |
| `CallArrives`, `TimesOut`, `Respond` | `handle_connection`, `mcp_bridge_respond` |
| `Decide`, `ListPending`, `TimeUp`, `TimerFires` | `InMemoryApprovalGate` |
| `ExecuteRead`, `ExecuteSaveDraft`, `ExecuteSendDraft` | `executeMcpTool` |

Commands wait in the set `ipc`, since the shell runs them concurrently; a call
may be handled by several listeners, and each has a `job` of its own. Policy and
host are those of the moment the call arrived. The stdio server of `packages/mcp`
passes calls on to the bridge and has no state.

### Accounts and Vault

`Accounts`: the Keychain items of each account in the present and the older
service, `galmail.accountIds` and the deprecated keys, the accounts of the
runtime; a sign-in (`Begin..`, `AcceptCallback` or `DeliverCallback`,
`Complete..`, `Exchange..`, `Finish..`, `Connect..`), a synchronisation that
authorises, refreshes and stores, and a removal, each awaiting the provider
between its steps. `Vault`: the wrapping key in two access groups, the wrapped
vault key, the database with its schema version, the safe-mode marker; each
action is one call of the Keychain, one file put in place or removed, or one
transaction, and the process may die between two of them (`Quit`). `lostKeys` has the
wrapping keys that were removed and not added again. Ciphers are
perfect: a key opens what it wrapped and nothing else.

### Inbox

`list` is React's copy of the engine's threads; `pane`, `hits` and `folders` are
what the effects of `App.tsx` ask for. `Effects` runs the effects whose
dependencies changed, with their clean-up functions: a load, a search or a folder
synchronisation that is overtaken stays on its way with `live = FALSE`.
`GetThread`, `ShowMessages`, `LoadFails`, `SearchFound`, `SearchFailed`,
`LabelSynced`, `Refreshed` are the answers, in any order. `Navigate`, `OpenThread`,
`RangeSelect`, `CloseReading`, `GoToInbox`, `OpenFolder`, `Search`, `RetryLoad`
are the user's; `ArchiveSelected`, `ToggleReadSelected`, `TrashSelected`,
`ApplyThreadSwipeAction`, `TrashThread`, `MutateOpened`, `BulkMutate` the ways to
triage, each with its `enqueue` answered by `Queued`, or by `QueueFails`, which may
leave some rows of the action. `Undo` takes the newest action back, `CancelRow` is each
`cancelOutbox` it awaits, and restores the threads of `Snapshots`. React
runs the effects of a discrete event before the next one (`Urgent`); those that
an answer makes due may come later.

### Compose

A draft's text stands for all its fields. `Fields` is the autosave effect,
`Shown` the effect on `initialDraft`; `Autosave` is its timeout, `AutosaveFails` a
save that is rejected. A draft has an `id`, which Minimize and Expand replace, and a
`root`, the message it stems from, which the code does not keep: copies of a message
are copies of a root. `Open`, `Type`,
`Render`, `Close`, `Minimize`, `Expand`, `Discard`, `Submit`, `SendFloat` are the
user's, `Queued`, `QueueFails`, `Flush`, `Undo` what the outbox answers; the
outbox itself is module `Outbox`.

## What the runs show

| Run | Bounds | Result |
| --- | --- | --- |
| `OutboxOverlap` | two mutations, two flushes, one restart, one waiting command when the user acts | types, `UndoneNeverSent`, `FailedWaitsForUser`, `MutationsInOrder` and the refinement `Contract` hold (306 k states) |
| `OutboxSerial` | two rows of the draft and one delayed send, one flush, two edits, two provider drafts, one rejected command, no stop | `NewestDraftKept`, `HeldRowsWait`, `NoDuplicateSend` hold (1.9 M states) |
| `OutboxRehydrate` | one delayed send, `hydrateLocal` in use, one restart, one fault, under `LiveSpec` | `DoneMeansDelivered`, `RecordBeforeEffect` and the liveness `StoredRowsSettle` hold (165 k states) |
| `OutboxDuplicate` | one send, two flushes, no fault | `NoDuplicateSend` fails: two flushes both send |
| `MailSync` | Gmail: two messages in the inbox, one with an attachment, listings cut at one, three changes, one sync at a time, one stop, one failure; Microsoft: two messages, two folders, pages of one, three changes, one failure or expired link | `StoreTracksProvider`, `ScreenTracksProvider`, `AtRestAsStored`, `LinksLead` and `CursorForward` hold (1.4 M states); no deadlock |
| `MailSyncFailure` | the same without a stop, listings cut at two | `DeletesReachStore` fails: a failed reconcile leaves a ghost |
| `MailSyncOverlap` | two syncs, one message, no failure | `DurableComplete` fails: a message is lost |
| `BlobStore` | three requests at once, five in all, three revisions, two contents, one failure | `RowHasObject`, `ServedMatches` and the refinement `IsRegister` hold (137 k states) |
| `BlobDuplicate` | three requests, revisions reused | `RowHasObject` fails: a repeated PUT removes the live object |
| `DeviceRegistry` | three devices, three letters, two invites, two handlers, three moments | `InviteApprovesOne`, `AccountHasDevice`, `AcceptedOnce`, `RevokedForGood` hold (1.7 M states) |
| `Services` | push: two devices, one route, one event, two consumers, one retry, one fault; opt-in: two consents, two withdrawals, two disclosures; homelab: two handlers, two devices; MCP: one call, one client, two sessions, one change of the settings; accounts: two of Gmail, one of Microsoft, two operations, one fault; vault: four keys, two faults | `HintKept`, `NoDuplicatePush`, `RevokedRoutesOff`, `ConsentKept`, `TokenAccountedFor`, `UserDecides`, `RemovedStaysRemoved`, `VaultOpensDatabase` hold (1.3 M states, up to symmetry) |
| `Window` | two threads, two searches, two inputs, one pull; two texts, three draft ids, two sends, one floating draft | `ReadingPane`, `UndoneIsOver`, `SettledIsSaved`, `SecondCopyExplained` hold (912 k states, up to symmetry) |

Why these bounds: the races of the outbox are between two flushes on the same
row or on two rows, so two of each is the smallest instance with all of them; the
draft run needs two edits, since the second may arrive while the first is on its
way, and two rows, since a failed older one may be retried behind a newer one. A synchronisation needs a message that arrives, changes and is expunged -
three changes - before, between and behind the requests - and a listing is cut with
two messages and room for one. The relay's races are
between two PUTs and a third request that observes or deletes. Two devices that
claim one invite need a third that made it; two that revoke each other need the
three letters; with a skew of one and a nonce kept for two, the third moment is
the first at which a nonce goes. `Latency` is how long a handler may take from
its clock check to its nonce: it is zero in the run, and the assumption
`Skew + Latency < ReplayTtl` leaves the code five minutes for it. A move needs two
folders, and three changes put one between, before and behind the reads of two
pulls. A hint is lost or doubled between one consumer that stops and another, so
two, with a retry each and a fault; a consent needs a second one to be overtaken
by; a leaked MCP listener needs a second session, and one change of the settings
is what races a call. A removal races one sign-in or one synchronisation, and the
reconciliation at the start needs a second account to have a start at all. The
vault needs a second key to be opened with the wrong one. Two inputs are an
action and the one that overtakes it. All three approval modes of `Mcp` were
checked (1.4 M states); the run has the one that asks for some tools and not for
others. `OutboxOverlap`, `BlobStore`, `DeviceRegistry`, `Services` and `Window` do
not check deadlock: a model that has used up its bounded operations rightly stops.
Symmetric are the flushes of `OutboxOverlap`, the requests and contents of `BlobStore`,
the devices and requests of `DeviceRegistry`, the requests of `Services`, and the
threads, queries and texts of `Window`: no definition tells them apart, and none of these
runs checks liveness.

Fairness (`LiveSpec`): the shell executes queued commands and a listed result is
delivered (both are event loops); a running flush goes on and a new one starts,
because `App.tsx:785` calls `flushOutbox` every 15 s and each provider request
ends with an answer or an error (`ProviderThrows`). Nothing is assumed of the
user, the clock, restarts or faults.

### Known limits of the code

Four runs show a disagreement between the code and its documents (`findings` in
`PROJECT.json`). Found while modelling, and excluded by a stated condition rather
than shown by a run of its own:

* After a restart rows are flushed in the order of their random ids
  (`database.rs:177`); `MutationsInOrder` speaks of rows enqueued since.
* `hydrateLocal` during use may put a stale copy over a cancelled or failed row.
  `UndoneNeverSent`, `FailedWaitsForUser`, `MutationsInOrder` and `Contract` are
  checked with `Rehydrates = FALSE`.
* An answer that was lost and a retry by the user repeat the effect; for a draft
  without a provider id this creates a second draft.
* With overlapping flushes an older version of a draft may arrive last;
  `NewestDraftKept` is checked and proved with one flush.
* A row of the draft that failed stays open to a retry after a newer row was
  added (`enqueue` of a save replaces a pending or failed row only while one is
  open, and the older one may be on its way then); the retry carries the old text
  to the provider draft, over the newer one. `NewestDraftKept` names this case
  (`overtaken`); its proof showed that nothing less will do.
* A cancellation is confirmed and the row is sent all the same when one flush failed
  it, the user retried it, and another flush still had it. `UndoneNeverSent` says that
  no row gets there without a retry.
* Two overlapping flushes may report different outcomes of one row; the later stays.
* A bootstrap lists 50 messages, a reconcile 100 (`gmail/live.ts:769`, `:823`), and the
  reconcile deletes every other message of the device: mail past the limit is gone
  until a label synchronisation or a search finds it. `cut` names these messages.
* The freshness and orphan parts of `StoreTracksProvider` and
  `ScreenTracksProvider`, `AtRestAsStored` and `CursorForward` hold as long as no
  call has failed, and the search part of `AtRestAsStored` as long as none was
  stopped: a message stored and not indexed stays so until it changes.
* Microsoft: a message that moves to a folder read later, between the reads of
  the two, is deleted by the next pull and stays away until it changes
  (`crossed`); one deleted between the bootstrap and the first round of links
  stays as a ghost, because an enumeration reports no removals (`ghosts`). The
  comment at `live.ts:892` and its test are about one round. Categories are
  written from the cache in memory (`live.ts:717`): after a start, or with two
  labels in a row, the others are lost. Categories are not in the model.
* Revocation deletes the nonces of the device, so a duplicate that read the device
  row earlier passes again; `AcceptedOnce` leaves revoked devices out. The clean-up
  behind a revocation (`server.ts:688`) is a statement of its own: when the account is
  deleted and set up again with the same device in between, it deletes the nonces of
  the new life, and a letter of it is accepted twice (`RevokedEarlier` names this
  case). It needs two lives of the account, and was met while proving the property;
  the run has one life to stay small, the proof any number. Invites of a revoked
  device stay open.
* Concurrent PUTs, a sweep that fails and account deletion leave objects in the
  bucket that no row names; `RowHasObject` is the other direction.
* Push: a notification is repeated when the provider's answer is lost or a 5xx, when
  its outcome cannot be stored, or when the queue delivers the message again
  (`unsure`); a registration verified before its device was revoked turns the route on
  again (`late`); a failure between the two statements of a revocation leaves the
  routes on, and the retry gets 409; an event whose queue failed gets 409 when
  the sender retries; a hint for a route that is off is acknowledged without an
  outcome (`skipped`); a 410 for a former endpoint turns off a route that was
  registered anew.
* Opt-in: a later consent (`replaced`), or one between the read and the batch of a
  withdrawal (`overlapped`), drops a token nobody revokes; if the withdrawal had read
  no token its receipt says "complete" and the new consent is deleted with its token
  (`server.ts:539`); any 400 of the provider counts as revoked (`refused`); a
  revocation whose queue failed waits until it expires. In both services a consent
  with retention 0 leaves older inputs until their time is up. Homelab: an input of a classification that overlapped a
  disabling PUT stays until it expires; a device id registered by another
  account moves to it.
* MCP: a listener that registers after its session was disposed is never removed
  and keeps the policy of that time; a call that reaches two listeners is carried
  out twice, for an approval each; starts that overlap bind twice, and the first
  accept loop can be stopped no more; a loop that ends says "disabled" about the
  next one; policy and host are those of the arrival of the call, so a client
  revoked during the approval is served; a call may be answered with 504 and run
  all the same.
* Accounts: a removal that overlaps a sign-in, a synchronisation or a listing of
  the Keychain may be undone by it (`quiet`); a deletion that fails brings the
  account back at the next start; a revocation that fails is not repeated; a
  sign-in whose profile request fails leaves a grant nobody holds. Refresh tokens
  of one account are not told apart, so a rotation race is not in the model.
* Vault: `store_app_private_generic_password` deletes the wrapping key before it
  adds it again; a stop in between loses the key, and with it the database, until
  a reset (`lostKeys`). After a reset the tokens
  and the account list survive, although the dialog (`App.tsx:2049`) says that
  the user will sign in again.
* Compose: Minimize and Expand give a message a new id, so that a send which is awaited
  or was made before and another one after are two messages to the outbox (`split`);
  a rejected autosave is shown and not repeated; a blank composer is reset whenever `App` renders, since it is handed a
  new `initialDraft` (`App.tsx:3681`, `ComposeModal.tsx:257`); what was typed less
  than 750 ms before closing is not saved; minimising drops cc, bcc, attachments
  and reply headers and starts a draft of its own; "Send" on a floating draft can
  be pressed twice (`twice`); an undo that comes after the flush gives the draft
  back and says "cancelled" (`late`); an undo while another composer is open
  overwrites it; the answer to `enqueue` closes whichever composer is open.
* Inbox: a thread that leaves the list while it loads stays at "Loading"
  (`App.tsx:876`), so `ReadingPane` speaks of threads in the list; the archive and
  read shortcuts act on the first message of a thread; optimistic changes stay
  when `enqueue` is rejected and are overwritten by a refresh; an undo puts a
  snapshot back that may be stale, and only the newest action can be undone; when the
  store rejects one row of an action the others stay, without an undo.

## What is proved

The theorems hold for every value of the constants that the assumptions of a
module allow; TLC evaluates these assumptions in the runs. Each safety property
below follows from an inductive invariant, which TLC checked before it was proved.

### Outbox (`OutboxProofs`)

| Theorem | Property | Hypotheses |
| --- | --- | --- |
| `TypesHold`, `DoneIsDelivered`, `HeldRowsDoWait`, `RecordComesFirst` | `TypeOK`, `DoneMeansDelivered`, `HeldRowsWait`, `RecordBeforeEffect` | none |
| `UndoIsFinal`, `FailedWaits`, `InOrder` | `UndoneNeverSent`, `FailedWaitsForUser`, `MutationsInOrder` | `hydrateLocal` is not called again |
| `SentNotTwice`, `NewestDraft` | `NoDuplicateSend`, `NewestDraftKept` | the same, one flush, no stop |
| `KeepsContract` | the refinement `Contract` | `hydrateLocal` is not called again, no command is rejected |

The hypotheses are those under which the properties are true. A second
`hydrateLocal` puts a stale copy over a cancelled or failed row; two flushes send
twice (`OutboxDuplicate`), and so does a flush after a stop behind the request; a
rejected command drops a change of status from what is stored, so that the next
one is no step of the contract. Rejected commands are allowed everywhere else,
overlapping flushes and stops wherever the table does not exclude them.

*Without hypotheses.* `DoneMeansDelivered` is not inductive: a done row can come
from the Map, from the store, from a command that waits, from the object a flush
holds, or from a list that `hydrateLocal` has read and not yet set. `DoneCopies`
says of each of these places that a done copy means an effect. To know that a
flush settles the row it delivered, `FlushShape` ties each program counter of a
flush to the row, the slot and the due time of its row; `IpcShape` and `IpcOwned`
say which commands a flush may have in the queue (exactly one while it waits, none
otherwise), so that an executed command resumes the right call, and that a flush
which is past its first await has a stored record - which gives
`RecordBeforeEffect`. There is one lemma per action, each with one step per part
of `IInv`; `NextKeepsIInv` puts them together.

*Undo.* `UndoInv`: a row that is undone, or whose undo is on its way to the store, is
cancelled in the Map, nothing was sent of it and no flush is about to; once undone it
is cancelled in the store and no command waits for it. It also says that without a
second `hydrateLocal` a row has one object, the one of the Map.

*Kinds of steps.* The other proofs see a step through `StepKind`: a row enters the
Map, is edited, retried, taken by a flush, finished, a flush moves on, the store
takes a command, the application starts again. `StepKinds` proves that every action
is of one of these kinds, once; the invariants behind are then about nine kinds
and not nineteen actions.

* `FailedKept`: a row that is pending or inflight in the Map while its record, or a
  command that waits for it, says "failed" was retried by the user; `PendingRetried`:
  so was one that is pending while a flush is about to send it.
* `Ranks`, `Passed`: ranks of the Map grow with the time a row was added; a flush at
  some rank has behind it only rows that are over (settled, or put back by the
  user). This is the loop invariant of `flushOutbox`.
* `SentOnce`: a message that went out is settled, or carried by the flush that will
  settle it, unless it was retried.
* `Trail`: from the record of a row through the commands that wait for it to its
  object in the Map, each status is an allowed change of the one before. So what
  the store executes next is a step of the contract, however far the Map is ahead.
  `Awaiting` says whose taking or settling a waiting command of a flush is.
* `DraftInv`: a row of the draft is taken only when the older ones are over
  (`OlderOver`), the newest row has the newest version and, once done, the provider
  has it (`NewestKept`), unless an older row failed, was cancelled or retried
  (`Stuck`), which stays so.

### Blobs (`BlobStoreProofs`)

`TypeCorrect` holds always. `RowKeepsItsObject`, `GetServesMatching` and
`ImplementsRegister` need `~Reuse`, that no two PUTs carry one revision: with it
`BlobDuplicate` shows them false. The register may lose its content at any time; that
only a deletion takes it away is `RowHasObject`. Neither property is inductive: an object that the
row names may be taken away by the sweep behind another PUT or by the undo of a
refused one. `OwnRevision` and `NotYetNamed` say that until a PUT has updated the
row, nobody else knows its revision; `ObjectFirst` that its object is stored before;
`SweepsOld` that a sweep is of a revision the row no longer names. The refinement
maps row and bucket to one entry: only `UpsertRow`, `DeleteErases` and
`DeleteDrops` change it, every other step is a stutter.

### Devices (`DeviceRegistryProofs`)

For any number of devices, handlers, letters, invites and lives of the account:
`InviteIsForOne` (an invite that has approved a device is no longer open),
`AccountKeepsDevice` (the statement of a revocation counts the others itself),
`RevokedStaysRevoked`, and `LetterAcceptedOnce`. The last one needs `NonceKept`: the
nonce of an accepted letter is there as long as the letter is fresh, which rests
on `Skew + Latency < ReplayTtl`, on when a handler reads the clock
(`ArrivesInTime`), and on whose nonces a revocation cleans up (`CleansRevoked`).

### Services (`ServicesProofs`, `PushRelayProofs`, `VaultProofs`)

`ServicesProofs` is about `MCServices`, so its theorems name the very properties of
the run `Services`; `ServicesAssumption` says what the bounds must be for the
initial states to be typed (a key that was stored before needs two numbers, hence
`MaxKeys >= 2`; a disclosure and a session exist). The push half of the relay and
the vault have proofs of their own, which are taken over with an instance; a part
that takes no step keeps its invariant (`PartsStay`).

| Theorem | Inductive invariant, and why the property alone is not |
| --- | --- |
| `AnsweredHintKept`, `PushedOnce`, `RevokedHasNoRoute` | an event has one message - with a handler, in the queue or, unless it was delivered once too often, with one consumer - and its row outlives it; while the relay knows what became of it nothing leads from a push to another (`OneMessage`, `RowWhileUnderWay`, `PushedIsOver`) |
| `RetainedUnderConsent` | in the opt-in processor a batch erases with the consent, but a classification and a withdrawal write what they read of a consent that may have gone since (`ConsentRead`); in the homelab API a kept input may be without consent only while it overlapped (`OnlyOverlapped`) |
| `TokenNotForgotten` | the consumer completes a revocation from what it read before it asked the provider: its token is that of the row (`OpHandlerShape`), and rows say complete only after the provider answered (`OpsTruthful`) |
| `ToolWaitsForUser` | a job that runs or ended well has either not to ask or was approved (`JobsTruthful`); listeners of a session that is held exist (`HeldListens`) |
| `RemovedNeverReturns` | an account that is removed, or whose removal is past its deletions, is in no service, list or key, and no step under way can bring it (`RemovedIsGone`, `RemovingIsGone`) |
| `DatabaseOpens` | a start that holds a vault key holds the wrapped one, and migrations and mail only find a database (`HoldsWrapped`, `OpenedDatabase`); the wrapping key a start found or made is the one that is stored again, or it is lost (`HoldsDeviceKey`, `WrappedInReach`) |

### Window (`WindowProofs`)

The theorems are about `MCWindow`, whose steps are those of `Inbox` or of `Compose`:
`WindowInv` is the conjunction of an invariant of each, and a step of one leaves the
other's (`InboxStill`, `ComposeStill`). `WindowAssumption` asks for finitely many
threads, which the rows of an action are counted by, and for a `None` that is
neither a thread nor a number of messages.

| Theorem | Inductive invariant, and why the property alone is not |
| --- | --- |
| `EditsAreSaved` | `SettledIsSaved` itself, with a composer that is not there having no timer (`ComposerShape`) |
| `CopiesAreExplained` | what becomes a row was in the composer, in a floating window or in a call before: a message that was neither taken back too late, nor pressed twice, nor moved while a call for it was awaited is in one of these places only (`OneRow`, `OneCall`, `RowOrCall`, `ComposerHas`, `FloatHas`); its root was handed out (`Fresh`), so no new message gets it, and the composer of a draft submits, waits busy, or is undone, one at a time (`Turn`) |
| `PaneIsCurrent` | pane, loads, hits and searches belong to the dependencies the effects last ran with (`RanFor`), also while the user's next step is due; what was opened and has had no effects yet is listed (`OpenedListed`) |
| `UndoIsComplete` | actions are numbered in the order of their rows (`Numbered`), so the rows of a new one were not undone; a row that is held and was undone is still to be cancelled (`ToCancel`) |

### Mail (`MailProofs`)

| Theorem | Property | Hypotheses |
| --- | --- | --- |
| `MailTypesHold` | `MailTypeOK` | none |
| `LinksAlwaysLead` | `LinksLead` | none |
| `StoreFollows`, `ScreenFollows`, `RestIsStored`, `CursorGoesForward` | `StoreTracksProvider`, `ScreenTracksProvider`, `AtRestAsStored`, `CursorForward` | one call at a time (`OneAtATime`), `hydrateLocal` is not called again |

For any number of messages, folders, changes, failures and restarts
(`MailSyncAssumption`, `MailAssumption`: the bounds are numbers, there is a folder, the
inbox and the messages with attachments are messages). The hypotheses are those of the run
`MailSync`: with two calls `MailSyncOverlap` loses a message.

*Microsoft.* `LinksLead` speaks of the
stored cursor, and a pull replaces it by links that were given one after the other
while the mailbox changed. `LinkInv` therefore follows each message through a running
pull: `Outcome` is what it would become if nothing changed until the pull is applied
and one more follows, and `PullLeads` says that this is what the mailbox wants, but for
messages that will be counted as crossed or as ghosts (`Crosses`, `Haunts`).
`LeftSeen`, `FoundSeen` and `GhostSeen` say that the pull has noticed what these need:
a removal reported by a folder it has read, a folder that has or has lost what was
found, the return of a ghost. A change is the step that takes most of the proof: each
message, each folder it may be in, already read or still ahead.

*Gmail.* The properties are about the mailbox with the stored cursor, which a call replaces
many steps after it asked for the new one; meanwhile the provider changes, and the Maps
are ahead of the store. `CallOK` says what a call knows at each step. Its token is not
older than the cursor it started from and not newer than the history (`CallTokens`). What
it has loaded is as new as that token (`GotFresh`). A history names every message that
changed between the two cursors as loaded, to be loaded or deleted, unless its end comes
behind the token (`SeesHistory`). A message that was expunged before it could be loaded
is the case that needs care: its end is always behind the token, because it was there
when the history was read. Every message of the inbox before the token that no listing had to leave out is loaded,
to be loaded or was there already (`WillBeComplete`). From these follow, at `ApplyDeltas`, that
the Maps are a mailbox of the token as well as of the old cursor, and, since without
failures they are what the store will be (`SameMail`, `Behind`), the same of the store at
`BatchExecutes`. `StartShape` says that `hydrateLocal` is alone until it returns, so what it
has read is still what is stored. `HasLast`, that the last change of a message in the
history exists, is an invariant because it cannot be proved by induction here.

### Only model-checked

`StoredRowsSettle` is liveness under fairness, out of the prover's reach. Every other
property of the passing runs has a theorem. The runs that expect a violation have nothing
to prove.

## Not modelled

Ciphers, signatures and key derivation (functions, not protocols); MIME, sanitizer,
search syntax and classifier (pure functions over strings with corpus tests: a
bounded model would restate them); the in-memory engine of the fixtures, which has
neither a store nor a provider to disagree with; device linking and the browser
adapters, which no application runs yet; calendar, settings, layout and keyboard;
categories, drafts, attachments and search of the Microsoft adapter; build and
release tooling; the Swift extensions. About a quarter of the lines of the TypeScript
files have a definition that stands for them; what is left is mostly rendering,
parsing and the fixtures.

## Plan

1. Done: outbox with its contract, mail synchronisation for Gmail and Microsoft, the
   blind relay (blobs, devices, push), consent in both services, MCP, accounts and
   vault, the window with its composer; proofs for the outbox, the blobs, the
   devices, the services, the window and the mail protocols.
2. Models that would add most: removals of Microsoft categories from the cache,
   and the objects an account deletion leaves in the bucket.
