# Verification of Birr Track

Birr Track collects payment receipts. Staff of a Business send photos to a Telegram
bot, a vision model (VLM) reads them, and a Mini App lists, corrects and exports the
resulting Transactions. This directory holds TLA+ models of the backend
(`birr-track-backend`), of the Mini App's session, edit screen and reports, of the
inference service and of the database migrations, the TLC configurations that check
them and proofs for TLAPS. Paths below are relative to `birr-track-backend/src`
unless they say otherwise.

## The system

| Component | State | Operations | Hard parts |
|---|---|---|---|
| Receipt pipeline: `queue/`, `processing/`, part of `transactions/` | the BullMQ queue (Redis), the `transactions` table, the object store | accept a photo, enqueue, take, read, check for a duplicate, insert, repair | two worker slots, retries, stalled jobs, crashes, redeliveries, stale reads |
| Reading: `processing/`, `vlm-inference/` | locals of a slot, a RunPod job, temporary files | locate, download, redirect, store, ask, normalise | timeouts, retries, error pages, two conversions one after the other |
| Transactions: `transactions/`, the edit screen | `transactions`, `edit_logs`, open forms | edit, delete | rows and access read before they are written |
| Reports: `transactions/`, dashboard and table pages | the last answers of queries, signed export links | summarise, list pages, export | several queries over a changing table; two pages that must filter alike |
| Users and staff: `users/` | `users` | language, promote, demote, remove, leave, join | entities read before an await and saved after it |
| Invites: `invites/` | `invites` | create in batches, redeem, revoke, expire | redemption in three separate calls; one pending Invite per account |
| Registrations and Businesses: `registrations/`, `businesses/` | `businesses` | register, revise, approve, reject, suspend, unsuspend | two submissions at once, two decisions at once |
| Sessions: `auth/` | sessions and indexes in Redis | create, renew, check, revoke | renewal against revocation; membership changes under a live token |
| Mini App session: `birr-track-miniapp/src/api/http` | the last answer with its token, a timer | exchange, renew, retry once, leave | many requests meeting one expired token; answers lost after the effect |
| Bot: `telegram/`, `shared/rate-limit` | chat sessions and album timers (memory), counters (Redis) | start, register, invite, language, photos, albums | concurrent updates over one session; restarts; increment and expiry are two commands |
| Migrations: `database/` | the schema and every row in it | run, revert | old data under new constraints; reverting what new data no longer fits |
| Notifications: `users/membership-events.service.ts`, `telegram/membership-notifications.service.ts`, `websocket/` | none | emit | best effort |

The bot accepts a photo from an active member and puts a job with the identity it
resolved (`userId`, `businessId`) on the queue. A slot of the worker downloads and
stores the image, asks the VLM, looks for a duplicate in the same Business and
inserts the Transaction; the unique index `(businessId, fileUniqueId)` turns a second
delivery into a repair of the first one's row. The Mini App reads and edits the same
rows through the API. Membership decides who may do what: it comes from a
registration, which the Platform Owner approves, or from an Invite, which the bot
redeems on `/start`.

## Modules

| Module | Models | Checked by |
|---|---|---|
| `ReceiptLedger` | what the pipeline promises, without queue, slots, retries and stages | the refinement |
| `ReceiptPipeline` | queue, worker slots, `processImageJob`, `findDuplicate`, `create`, `repairIdempotentRedelivery`, `update`, `remove`, and membership as far as attribution needs it | `MCReceiptPipeline`, runs `Pipeline*` |
| `ReceiptRefinement` | the mapping of the pipeline to the ledger | `PipelineFaults` |
| `ReceiptPipelineProofs` | theorems about both, and the refinement | tlapm |
| `ReadingFormat` | `vlm-inference/app/parse.py`, `mapper.py`, `schemas.py` and the normalisation in `vlm.service.ts`, as pure functions | `ImageReadings` |
| `ImageReading` | the reading stages: `resolveTelegramFileDownloadUrl`, `downloadTelegramFile*`, `VlmService.extract`, the RunPod worker | `MCImageReading`, run `ImageReadings` |
| `ImageReadingProofs` | theorems about both | tlapm |
| `Transactions` | `TransactionsService.update` and `remove`, `TransactionsController`, the edit screen `WaiterEdit.tsx`, the EditLog | `MCTransactions`, run `TransactionsLive` |
| `TransactionsProofs` | theorems about it | tlapm |
| `Reports` | summary, list and export of `TransactionsService`, `ExportLinkService`, `RolesGuard`, `Dashboard.tsx`, `TransactionsTable.tsx`, their part of `client.ts` | `MCReports`, run `ReportsLive` |
| `ReportsProofs` | theorems about it | tlapm |
| `Tenancy` | the tables `users`, `businesses`, `invites`, and requests in flight | |
| `StaffOps` | `UsersService`, `StaffController`, `AccountController` | |
| `InviteOps` | `InvitesService`, the invite picker and `/start` | |
| `RegistrationOps` | `RegistrationsService`, `BusinessesService` | |
| `Membership` | their composition and its properties | `MCMembership`, run `MembershipLive` |
| `MembershipProofs` | theorems about it and about `Migrations` | tlapm |
| `AdminPanelSession` | `AdminPanelSessionService`, the calls of `AuthService` that use it, `OptionalJwtAuthGuard` and `JwtAuthGuard` | `MCAdminPanelSession`, run `SessionsLive` |
| `AdminPanelSessionProofs` | theorems about it | tlapm |
| `AuthSession` | `session.ts` and `fetcher.ts` of the Mini App, with an abstract server | `MCAuthSession`, run `ClientSession` |
| `AuthSessionProofs` | theorems about it | tlapm |
| `Chat` | one chat: updates in flight, session, person, albums, counter | |
| `BotDialogue` | `ConversationService` | |
| `BotReceipts` | `ReceiptService` with `RateLimitService` | |
| `TelegramBot` | their composition, restarts, and its properties | `MCTelegramBot`, run `BotLive` |
| `TelegramBotProofs` | theorems about it | tlapm |
| `Schema` | a relational database and the statements of TypeORM's `QueryRunner` | |
| `Migrations` | the five migrations, up and down, and the entities | `MCMigrations`, run `MigrationsLive` |

One action is what the Node process does between two awaits of a database, queue or
store call; whatever was read before the await is kept in the slot (`workers[w]`),
request (`requests[r]`, `calls[..]`) or update (`updates[u]`) and may be stale when
it is used. That is where most of this code's difficulty lies.

### ReceiptPipeline

`jobs` is the queue with every job's state, lock holder and counters of failures and
stalls; `workers` the local variables of `processImageJob` per slot; `rows` the
transactions table by its unique index; `objects` the object store; `deletion` the
local variables of a running `remove`; `edited` the newest payment the `EditLog` of a
row records. `past` holds history (memberships ever held, receipts and payments ever
stored, which receipts overlapped in two slots, which rows a repair brought back) that
only the properties read, and `spent` counts the bounded events, each by its own
constant and all of them by `MaxTogether`.

`Receive` and `Enqueue` are the photo handler; `Take`, `Finish`, `Throws`,
`LoseLock`, `RecoverStalled` and `Crash` are BullMQ as `queue.service.ts` and the
worker configure it (three attempts, one stall, two slots); `LookupLegacy`,
`ReadImage`/`ReadFails`, `CheckDuplicate`, `Create`, `CreateConflict`,
`FindExisting`, `SaveRepair`, `SaveConflict` are `processImageJob` in order;
`Edit`, `DeleteCheck`, `DeleteRow`, `DeleteImage` the Mini App's requests; `Depart`,
`Join`, `Suspend` what happens to a sender meanwhile. The triple (amount,
transactionId, timestamp) is one value of `Payments`, the bank name a flag. Readings
in which only some of the triple were read count as `None`: neither the duplicate
check nor completeness tells them apart. `Unstorable` is a triple whose timestamp
string is no date.

`ReceiptLedger` is the abstract specification: a Receipt is accepted, then done (only
when a Transaction was recorded for it) or lost; a Transaction is recorded, or
recorded anew, only for a Receipt that was sent; rows are removed.
`ReceiptRefinement` maps a job to its Receipt and a row to its status. Job states
`waiting` and `active` are both "accepted": retries, stalls, crashes and everything
inside `processImageJob` but the two writes are steps the ledger does not see.

### ImageReading and ReadingFormat

`slots[s]` are the locals of one reading (attempt, redirects followed, status and body,
what was parsed), `remote[p]` the job at RunPod, `gpu` the request the worker is at,
`files` its temporary images. `Locate`, `Redirect`, `Respond`, `Body`, `BodyFails`,
`ConnectionFails`, `TryAgain`, `Upload`, `Extract`, `Receive`, `GiveUp` are the backend;
`PickUp`, `SaveImage`, `Generate` the worker, which goes on with a job nobody waits for
any more. A body is taken by its status alone (`Accepts`): a page served with a status of
success is stored as the receipt. The worker then refuses it, for `Image.open` finds no
image in it (`IsImage`), and nothing is read from it. `SaveImage` has three outcomes: the
image is written; it is refused before there is a file; or the write fails after
`NamedTemporaryFile(delete=False)` has made one, whose name is lost with the exception
(`files.nameless`). `Unlink` is the `finally` clause, which the disk may refuse
(`files.refused`).
The text of the model is a record of what the conversions tell apart: whether there is
an object in it, which keys it uses, of each value whether it is text, padded or
empty text, a number, a numeral with separators, or of a wrong type. `Wanted` is the
reference: what a person reading that text would store. One field of a wrong type loses
the whole answer, the currency included, which nothing uses; `Legible` says so.
Abstracted: amounts that become `NaN`. The FastAPI and Ollama variant of the service is
not modelled: the backend does not call it.

### Transactions

`screens[u]` is what the edit page of a person shows and whether they have typed into
it, `calls[u][op]` a PATCH or DELETE with the body it carries, the membership the
guard found and the row it read. `Admit`, `ReadRow`, `Commit`/`DeleteRow` are its
three steps on the server. A redelivery of the receipt is two: `FindExisting` reads the
row into `repairs`, `SaveRepair` saves it with a new reading (or `DropRepair` gives up),
and as `save()` inserts what it does not find, a row deleted in between comes back. A
change of membership (`Move`) may fall anywhere. `log` holds each field's entries in
order.
`concerned` remembers who had to do with which Transaction since their request began,
and `past.crossed` which were written between the read and the write of a save: the
old value in the log is then that of the earlier read. `confidence` and `imageKey`,
which the page never sends, are left out.

### Reports

`dash` is the dashboard with the six queries of `getSummary` one step each, `table`
the page of Transactions with its filters and the pages loaded, `link` and `file` an
export link and the file it served, `telegramIds` the client's map from user ids to
Telegram ids. `version` counts writes, so that properties can say "no write in
between". Timestamps are instants, two to a day: its main part, up to 23:59:59, and the
rest of its last second (`MainPart`, `LastPart`). `With` is what the dashboard makes of a
period (`rangeFor`: midnight to 23:59:59, or no end at all), `Linked` what the table
makes of the two dates its address carries (`toBackendDate`: midnight to 23:59:59.999).
Time passes only while a link exists; rows without `userId` are left out; so are
amounts, wording and the workbook's layout. Rows are ordered by arrival: two with the
same `createdAt`, which the query leaves in either order, are not modelled.

### Membership

`users[a]` is the row of Telegram account `a`: the column is unique, so there is at
most one, and a removed member keeps it (`active` is `removedAt IS NULL`). `requests`
are the requests in flight. TypeORM's `save(entity)` writes every column of the
entity that differs from the table, so `SaveUser` and `SaveDecision` replace the row
by what was read before; the moment between the comparison and the write inside one
`save` is not modelled. `EndMembership` is one step, for the code locks the row in a
transaction. Display names, Business names, reasons and messages are left out. The
guards' read of the live membership and the handler's first read are one step.

### AdminPanelSession

`store` and `index` are the two kinds of Redis keys: a session's record and the set of
a user's sessions. `calls[c]` is a call in flight with what it has read (`rec`, `as`,
`todo`); `tokens` are the access tokens clients hold, each standing also for the
refresh token of its session, which never changes. `member[u]` is the pair of Business
and role of the user's active row, changed by `ChangeMembership` (a promotion,
demotion or removal, followed by `revokeAllForUser`) and `Rejoin`. Two pieces of
history serve the properties: `held`, every membership the user had since a call
began, and `past`, when a session was stored and last written.

`SignIn`, `StoreSession`, `IndexSession`, `Confirm`, `Answer` are
`authenticateFromInitData` with `create`; `Refresh`, `RenewRead`, `RenewWrite` lead
into the same `Confirm` and `Answer`, for both end with the same second read of the
user; `Request`, `AssertActive`, `GuardLive`, `Serve` are the two guards, the second
of which only some routes have; `RevokeRead`, `RevokeDelete`, `Unindex` are `revoke`,
wherever it is called; `ListSessions`, `Wipe` are `revokeAllForUser`. `Fail` ends a
call at any await: an error of Redis or the database, a lost answer, a restart.
`Lapse` lets Redis drop a record at any time after the idle expiry it was written
with. Left out: signatures, a wrong refresh token (refused without any change), the
status of the Business at sign-in, the expiry of the index (it outlives its sessions)
and the Platform Owner's exemption from the live check, who is a user whose membership
never changes.

### AuthSession

The other side of the same sessions: `auth` is `AuthSession.auth`, `exchange` its
`inFlight` promise, which every request that needs a session waits for, `heartbeat`
the timer, `req[r]` a call of `HttpFetcher.request` with its one retry. The server is
reduced to whether it knows a session and a membership; its details are
`AdminPanelSession`. `Lose` drops an answer after its effect. `steady` and `excused`
are history for the properties. `logout()` has no caller in the Mini App; the language
in the answer is left out.

### Chat, BotDialogue, BotReceipts, TelegramBot

`updates[u]` is an update in flight with the identity resolved at its start (`who`)
and every row the person has had since it was sent (`seen`, history); `session` is
`ctx.session`, shared by all of them; `limiter` the Redis counter, whose INCR and
EXPIRE are the steps `Photo` and `Expires`; `albums` the map of album
acknowledgements with their timers. `Restart` empties what is in memory, and Telegram
delivers again what was not answered. Left out: command lists, help and profile, the
greeting of the Platform Owner, the message to the inviter, the order in which two
outgoing messages arrive, and a branch nobody reaches (`notRegistered`,
`telegram/flows/conversation.service.ts:375`). What becomes of an Invite or a
decision button is `InviteOps` and `RegistrationOps`.

### Schema and Migrations

A database is tables (a kind per column: required, defaulted, nullable; rows), unique
indexes and foreign keys. Each statement is an operator from a database to the next;
one the database refuses yields `Refused`, and so does every statement after it. A
migration is the composition of its statements, a step for each group of them in its
file. The state machine is `DbInit`, `DbNext`, `DbSpec`: `db` starts empty, `Run` applies
the pending migrations, `Revert` undoes the last one, and between them rows are written
and erased as the release of that moment does. TypeORM's
`changeColumn` alters a column in place or, when it sees another type or length,
drops and adds it anew: `inPlace` is the choice, made once. Indexes that only make
queries faster, types and lengths are left out.

## What the runs check

* `PipelineFaults`: two deliveries of one photo in two slots, two attempts, and any two of
  a failed database call, a crash or lost lock, and a deletion, between any two of their
  steps (a repair may then insert its row anew, or meet the one another delivery
  inserted: `SaveConflict`). `ImplementsLedger`: the refinement. `NeverLost`: a job never
  fails with nothing stored. `RowImageAvailable`: no Transaction loses its image, though
  the other delivery has its own job, its own upload and perhaps the same row; only one
  that a repair brought back after its deletion may lack it. `AckedReceiptStored`:
  liveness, below. One failed call is one less than the attempts and one outage the number
  of stalls BullMQ allows: more, and the promise cannot hold. What is read off the photos
  matters in the next run only.
* `PipelinePeople`: a job of the old release (no identity in its payload) and a new
  one, two slots, two tenants, two photos of one payment, two changes of membership, an
  edit and a deletion. `AttributedAtAcceptance`, `DuplicateFlagGrounded` (an action
  property), `RecordedIsComplete`, the type invariant, and `UnflaggedOverlapped`: two
  recorded Transactions of one payment, neither flagged, come only of two slots that
  overlapped, the check of the one before the insert of the other. With one slot or
  with receipts that come after one another, duplicates are flagged whatever fails, is
  sent again or deleted. A Transaction somebody edited is left out: the code compares
  payments as they are read, and never again.
* `PipelineDuplicates` and `PipelineEditLost` must be found violated: see below.
* `MembershipLive`: the Owner and the manager of one Business, a stranger, a second
  Business to register, four requests of any kind, two at a time. `OneOwner`,
  `ManagersGrantedByOwner`, `StaffOnlyAfterActivation`, `NoMembershipWithoutInvite`,
  `ManagersEndedByOwnerOrSelf` and the type invariant. Two overlapping requests are
  what every known race here needs; four let a membership end, be offered again and be
  taken while a stale save is under way, and let a new Business be registered and
  staffed.
* `SessionsLive`: one user, two memberships, one session, five calls or changes of
  membership, two at a time, and a clock that runs through both lifetimes (access
  token 1, idle 2, absolute 3). `AdmittedInTime`: a request is served, and a token
  issued, only for a membership the user had during that very call. `LifetimeBounded`:
  no request that begins after the idle timeout or the absolute lifetime is served.
  Five calls sign in, renew, change the membership twice and request, which is what
  it takes to revive a revoked session and use it under another membership.
* `ClientSession`: two requests, one of which leaves the Business, over the whole life
  of a session, one change of membership, one toggle of visibility, one lost answer.
  `EffectOnce`, `TurnedAwayForCause`, `VisibleSessionLasts`, and `RequestsEnd`
  (liveness). Two requests share an exchange, meet one under way, and one forgets the
  session the other waits for. It takes a third request to join a renewal of a session
  another one has forgotten (see below); the theorems hold for any number.
* `TransactionsLive`: two people in two Businesses, one Transaction, two requests, a
  change of membership and a redelivery. `LogExplainsRow`, `WritersConcerned`,
  `DeletedStaysDeleted`: only a redelivery that had read the row before its deletion
  brings it back, no save in progress and no later redelivery does. One field is enough:
  fields never meet.
* `ReportsLive`: one waiter, one bank, two Businesses, two days, at most two rows and
  one write, pages of one row. `CardMatchesTable`, `PagesCover`, `FileMatchesTable`,
  `ExportInTime`. Two rows fill two pages. A period is the first day or everything since
  that day; the rows are one of that day, without a bank, one of the second day, and a
  duplicate in the last second of the first, which the table has and the card has not:
  `CardMatchesTable` says that this second is all they differ in. The viewer is first a
  manager, later perhaps a waiter of another Business. The card of edited Transactions always
  counts none, for nothing sets `editedByUploader`.
* `BotLive`: three updates of any kind in one chat, two at a time, one change of the
  person's row, one failed call or restart, one end of a window, a limit of one photo.
  `ActsWithinRights`, `TruthfulReplies`, `AcknowledgedOnce`, `ThrottledFairly`,
  `RefusalsEnd`. Three updates pick a role, share a contact and send a photo, or put
  three photos into one album around its timer.
* `ImageReadings`: two photos in two slots, one with every text of the format (each value
  of each field next to good ones, in either keys), two attempts, one redirect.
  `FaithfulReading`: what is read is of the photo itself, not of a page stored in its
  place, and is what the model said; what is stored came with a status of success; a
  legible answer about a photo that arrived is lost only to a failure. `NoFilesLeft`: no
  temporary image stays but the nameless ones and those the disk would not remove.
  `ReadingEnds` (liveness).
* `MigrationsLive`: two ids, used in every table, three writes, three runs or reverts.
  `UpgradeSucceeds`, `EntitiesFit`, `DowngradeRefusedForCause`, `MoneyAndImagesKept`.
  Three runs go up, down and up again over rows written before and in between.

Not every type invariant is in a run: each is stated in its module next to the other
properties and can be added to a cfg with `INVARIANT TypeOK` (`DbTypeOK` for
`Migrations`). All of them are proved.

No run checks deadlock: a system nobody uses any more, its bounds used up, rests.

### Where the code departs from what it says

`PipelineDuplicates` is a run that TLC must find violated: the worker has two slots, and
two receipts of one payment that are checked before either is stored are both stored
unflagged (`DuplicatesFlagged`), where `CONTEXT.md:78` of the repository's `src` has
duplicates "Saved and flagged, never silently dropped".

`PipelineEditLost` is another: the repair spares rows flagged `editedByUploader`, and
nothing sets that flag, so a redelivery overwrites what a person entered
(`EditsPreserved`). In the shortest behaviour the edit falls between the read and the
write of the repair; one made long before the redelivery is lost the same way.

The following were found with the models too and have no run of their own. Some are
stated as formulas under "What the documents say and the code does not keep" in the
module named; any of them can be checked with a cfg of its own.

* `FlaggedAgainstAnother`: a crash after the insert and before BullMQ hears of it; the
  job runs again and `findDuplicate` finds the row of its own first run.
* A timestamp that is no date makes every attempt throw until the receipt is lost; a
  recorded Transaction is deleted because it became recorded after the check; one photo
  sent to two Businesses in turn becomes two Transactions; a completed edit leaves a
  Transaction in `needs_review`.
* A Transaction deleted between the read and the save of a repair is inserted again
  (`SaveRepair` of `ReceiptPipeline` and `Transactions`), and may point at the image that
  was deleted with it.
* A page served with a status of success in place of an image is stored as the receipt,
  and the Transaction shows it (`Accepts`).
* An upload the bucket never answers, or a download that trickles without end, holds one of
  the two worker slots for ever (`UnboundedStep`): the `S3Client` is made without a
  request timeout (`storage/storage.service.ts:16`), and the download's timeout is one of
  silence (`processing/processing.service.ts:231`).
* An image the inference worker cannot write to the file made for it leaves that file
  behind (`hf_client.py:59`).
* The last second of a period is in the table and its export but not in the cards
  (`Dashboard.tsx:19` ends at 23:59:59, `client.ts:235` at 23:59:59.999).
* A save that crosses another leaves an entry in the EditLog whose old value is that of
  the earlier read, so the chain of entries breaks (`past.crossed`).
* `EndedStaysEnded` (`Membership`): a language change that read the row before a removal
  saves it after the removal, `removedAt` included: the member is back. The same save
  undoes a demotion or moves someone back who has joined elsewhere.
* `ActiveWasApproved` (`Membership`): suspending a pending Business and unsuspending it
  makes it active without approval.
* A revocation is saved over a redemption, and an Invite revoked during its redemption
  still admits; a batch inserts Invites after its manager left; a rejection is saved
  over an approval; role changes are possible in a suspended Business.
* A renewal that overlaps a logout or `revokeAllForUser` writes the revoked session back
  (`RenewWrite`), harmless to membership because the guards read the user again, but
  the logout does not last.
* `AnsweredInPreference` (`TelegramBot`): `ReceiptService` prefers the language of the
  chat session to the one of the profile, so photos are answered in the language chosen
  before it was changed in the Mini App; the dialogue prefers the profile.
* A batch of Invites that was created, and whose reply fails, is answered with a failure.
* `EditsLogged` (`Transactions`): a field whose stored value changed between the read
  and the write of a save changes without an entry of its own.
* `CardOpensTable` (`Reports`): a waiter's card opened before the client knows the
  waiter's Telegram id opens an error (`client.ts:247-248` of the Mini App).
* A request that starts while the renewal of a session is on its way which another request
  has just forgotten by leaving joins that renewal and, if it is refused, fails without
  ever trying to sign in (`session.ts:110`, `AuthSession`, three requests): `ensure` and
  `refresh` share `inFlight` whatever it is for.
* After a heartbeat that failed nothing arms the next one until the page is hidden and
  shown or a request renews (`AuthSession`).
* `down()` of the tenancy migration is refused as soon as one Transaction needs review,
  for it makes the payment columns required again; Business names, once allowed to
  recur, are not made unique again; `BUILD-PLAN.md:23` drops the managers table, which
  the migration keeps. Where TypeORM recreates a changed column instead of altering it,
  its values are lost.

## Fairness

`PipelineFaults`: each slot keeps running the job it has and keeps taking jobs (`WF` per
slot on `ProcessStep` and `Take`), and the stalled check, a timer of every BullMQ
worker, keeps running (`WF` on `RecoverStalled`). People, errors and crashes have none;
errors and crashes are bounded, for no fairness makes a store out of a database that
always fails.

`ClientSession`: the server answers an exchange or the connection fails (`WF` on
`Reply`), and a request that is out is served and its answer received (`WF` per request);
nothing obliges the page to start a request, to be shown or the timer to fire.

`ImageReadings`: each slot takes the steps something brings to an end (`WF` per slot on
`BoundedStep`): `getFile` and `runsync` have the timeouts of axios, a connection the
timeout of silence, a pause its delay. Axios bounds the wait for an answer to begin; that
the short JSON of these two, once begun, arrives is assumed. The body of a download and the
upload have no fairness (`UnboundedStep`), since nothing in the code bounds them, so `ReadingEnds`
says that a reading ends or is in one of these two for good. The inference worker has none
either: it may never answer.

`PipelineFaults` takes a reading as one step, and its fairness therefore assumes that
none is held for ever in one of these two: `AckedReceiptStored` promises nothing for a
receipt whose upload never ends.

## Proofs

Every theorem is proved for every value of the constants, from the named assumptions
beside them: that `None` is no datum, that the sets given are sets of what they should
be, and that bounds and lifetimes are numbers, positive where `positiveConfig` or a
constant of the code makes them so. `TypeOK` and what the properties say are seldom
inductive, because every operation of this code reads, awaits, and writes; each
invariant below says what was read still has to do with what is there.

`ReceiptPipelineProofs` proves `TypeCorrect`, `Attribution`
(`[]AttributedAtAcceptance`), `CompletionSound` (`[]CompletedMeansStored`),
`RecordedSound` (`[]RecordedIsComplete`) and `FlagsGrounded` (the action property
`DuplicateFlagGrounded`). Its `Inv` relates every busy slot to its job (identity, photo,
membership held at acceptance), every row a slot has seen to the history, a slot about
to finish to the stored receipts, and a raised flag to the payments stored. Three
more properties rest on invariants of their own:

* `ReceiptsSurvive` (`[]NeverLost`): errors fewer than the attempts, outages no more
  than the stalls BullMQ forgives, and no timestamp the database refuses. `Budget`
  counts, for each job, failures and stalls against what has been spent, so that a
  job's last attempt is never reached. `UnstorableAssumption` sets that timestamp apart
  from the payments.
* `DuplicatesCaught` (`[]UnflaggedOverlapped`), without further conditions. `Watched`
  says that whatever was stored when a slot's `findDuplicate` ran was seen by it, and that
  what was stored since by another slot is on record in `past.overlap`.
* `ImagesStay` (`[]RowImageAvailable`), without further conditions. `Pictured` says that
  an image has one row among all that name it, the table, the repairs that have read it and
  the deletion under way (`OneRow`), that nobody yet names what a slot is about to store
  (`OwnName`), and that a row that was never away has its image (`Shown`).

`ReceiptsSurvive` alone asks for conditions, those its promise needs and
`PipelineFaults` meets. The same module proves `LedgerImplemented`, `Spec =>
ImplementsLedger`. It adds `HeldInv` to `Inv`: only a running job is locked, so a job
settles only once, and a job about to be queued knows its Business. Each step is then
one of the ledger: `Settling` for a slot's last step, a lost lock and a stall,
`Recording` for the two writes, `Acknowledged`, `Removing`; all others leave the mapped
variables alone (`Quiet`).

`MembershipProofs` proves `TypeCorrect` and `OwnersSound` (`[]OneOwner`): `Inv` says
that a user entity waiting to be saved either is not an owner's or is the owner's row of
now, that a redemption never holds an owner's row, and that a decision under way keeps
the owner of its Business. `ManagersGranted` (`[]ManagersGrantedByOwner`),
`ActivatedFirst` (`[]StaffOnlyAfterActivation`), `InvitedFirst`
(`[]NoMembershipWithoutInvite`) and `ManagersEnd` (the action property
`ManagersEndedByOwnerOrSelf`) need `Grounded` as well: every row of `users` and
`invites`, stored or about to be saved, rests on an Invite, on an activated Business and
on a grant of its Owner, whenever it was read.

The second part of that module is about `Migrations`, the tables it writes, for any ids,
any data and any number of runs and reverts. The statements are lemmas
(`CreateTableIs` to `DropKeyIs`: what each leaves and which values it carries over), then
the groups of statements, then each migration up and down (`UpIs`, `DownIs`), then a run
of all pending ones (`UpgradedIs`). The invariant `DbInv` (`DbInductive`) says that after
`applied` migrations, by whatever way, the tables, unique indexes and foreign keys are
those of these migrations (`At`); the one difference history makes is the unique name of
a Business, which the revert of the second migration does not bring back. From it follow
`UpgradesSucceed`, `EntitiesAlwaysFit`, `DowngradesRefusedForCause` (a revert is refused
only with a `Cause`) and `MigrationsKeepMoney` (`Kept` is transitive over a run).
`DbTypeCorrect` adds that the rows obey the constraints: `Good` is a database whose
constraints are on columns that are there (`Placed`) and broken by no row (`Sound`), and
each statement leaves such a database or is refused (`Held`), whatever came before it.
Deleting a Transaction needs `KeysNow`: only `edit_logs` refers to it, and cascades.

`AdminPanelSessionProofs` proves `TypeCorrect`, `AdmissionSound` (`[]AdmittedInTime`) and
`LifetimeSound` (`[]LifetimeBounded`) for any number of users, sessions and overlapping
calls and any lifetimes. The invariant says what each stage of a call owes: the
membership of now is always among those a call has seen, a call past the live check
carries one of them, and every record, in Redis or about to be written, expires within
the lifetimes counted from the times in `past`; so does a call past `AssertActive`.
`CallCarries` shows that none of this is lost when time passes or other calls write.

`AuthSessionProofs` proves `TypeCorrect`, `CarriedOutOnce` (`[]EffectOnce`),
`TurnedAwayRightly` (`[]TurnedAwayForCause`) and `HeartbeatKeeps` (`[]VisibleSessionLasts`). `Known` says
that the answers the client holds describe sessions of the server, and that an answer the
world has not overtaken is good now; `Waiting` which exchange a waiting request may
count on; `Excuses` that a retry nothing got in the way of carries a token that is
valid; `CarriedOut` that a request whose handler has run is never sent again.
`HeartbeatKeeps` asks that the margin before the idle end is not zero and that the least
delay is shorter than the idle lifetime (300 s, 30 s and 1800 s in the code): `Shown`
then says the timer is due before the idle end of the last answer, or its renewal is out.

`TransactionsProofs` proves `TypeCorrect`, `LogExplained` (`[]LogExplainsRow`),
`WritersWereConcerned` (`WritersConcerned`) and `StaysDeleted` (`DeletedStaysDeleted`,
both action properties). A call checks access against a membership and a row it has read
before; `Accounted` and `OnRecord` say that whoever gets past the check has been
concerned with the Transaction during the call, `LogWithRow` and `HasRead` that the
entries go with their row and that a call about to write has read one. For
`StaysDeleted`, `update()` writes by id and takes its entries back when the row is gone,
and a row that is gone is read by no new redelivery; those that read it before are the
one way back, and the theorem says so.

`ReportsProofs` proves `TypeCorrect`, `CardsAgree` (`[]CardMatchesTable`),
`PagesComplete` (`[]PagesCover`), `FilesAgree` (`[]FileMatchesTable`) and `LinksExpire`
(`[]ExportInTime`), for any page size, table and link lifetime. `Counted`, `Listed` and
`Filed` say that a count, a page or a file given at the present version of the rows
describes the present rows; any write makes them answers of an earlier one, which no
longer change. `EndsOfDay` and `LinkedFinds` compare the two pages' periods: what the
table's query finds is what the card's finds and the rows of the last second. `PageAdds`
shows that a page adds the next `PAGE_SIZE` rows by rank and none twice, from which the
pages are complete.

`TelegramBotProofs` proves `EntitledActs` (`[]ActsWithinRights`), `TrueReplies`
(`[]TruthfulReplies`), `FairThrottle` (`[]ThrottledFairly`), `CountedOnce`
(`[]AcknowledgedOnce`), `RefusalsExpire` (the action property `RefusalsEnd`) and
`TypeCorrect`. `Chatting` says that the identity an update acts by is one
the person had since it was sent, at each stage of a handler; `Counted` that the photos a
window has let through, with those about to pass, stay within its counter, and its notice
likewise. `Booked` keeps the books of acknowledgements: what memory holds is the set
`WaitingPhotos` of photos by album and number, to which each photo adds one pair and
from which a timer takes those of its album, and no entry stays in the map without a
timer. `KindsAssumption` and `PeopleAssumption` name what updates there are and that
people stand as the users table lets them (`Standing`).

`ImageReadingProofs` proves `TypeCorrect`, `Faithful` (`[]FaithfulReading`) and
`DiskStaysClear` (`[]NoFilesLeft`). No two slots hold one photo (`OneEach`), what a slot
has downloaded or uploaded is its own (`OwnBody`), and a job at RunPod is that of the
slot that asked (`Jobs`), so an answer is of the photo it is taken for (`Answers`): a
page in its place never gets an answer. `Disk` keeps account of the temporary images.
The lemmas on `ReadingFormat` show for every text of the format, not the samples of the
run, that parsing, mapping and normalising keep what the model said.

What is only model-checked:

* Liveness, under the fairness above: `AckedReceiptStored`, `RequestsEnd` and
  `ReadingEnds`. `WF_` and `ENABLED` are out of the prover's reach. Every invariant and
  every action property the passing runs check is a theorem as well, `NeverLost` and
  `VisibleSessionLasts` under the conditions named above.

## Not modelled, and what is left

* Notifications and the websocket: one message or event each, fire and forget.
* Presigned URLs and streaming in `storage/`; configuration, logging, filters, Swagger.
* Presentation: the Mini App's other pages and components, wording, Excel layout.
* The training scripts, and the FastAPI and Ollama variant of the inference service.
* The throttler of HTTP routes, a library; the deployment, which runs the migrations
  after the new backend is up (`.github/workflows/deploy.yml`), so that for a moment
  the new code meets the old tables.

Left for later: the pipeline composed with `Membership` in place of `Depart` and `Join`.
