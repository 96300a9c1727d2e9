# TLA+ models of the Polikrami cover backend

A verification development for the TypeScript backend in this repository (Express
handlers, Prisma over PostgreSQL, optional Redis and BullMQ). Source paths below are
relative to the repository's `src/` directory of TypeScript, unless they start
with `test/` or `prisma/`.

Run the commands in this directory:

    tlc -workers 2 -config ai_inline.cfg MCAiGeneration.tla
    tlapm AiGenerationProofs.tla
    tlapm DraftLifecycleProofs.tla
    tlapm AiOutcomesProofs.tla
    tlapm ShopProofs.tla
    tlapm SignInProofs.tla
    tlapm AccountProofs.tla
    tlapm OutsideProofs.tla
    tlapm FiniteSums.tla

## 1. The system

A customer makes a *draft* of a cover (uploading a design, having one generated, or
working with a designer), adds a message card and an address, and commits it to an
*order*. Image generation costs *credits*. Every request is served by an Express
handler in one of possibly several processes; all durable state is in PostgreSQL.
There are few transactions, no row versions and no explicit row locks, so almost every
handler is "read, decide, await, write".

| component | state | operations | modelled |
|---|---|---|---|
| AI generation (`modules/ai`, `services/ai`) | `AiJob`, `GeneratedImage`, draft lock (Redis key or process set), idempotency map of the process | generate, regen, results, select | `AiGeneration`, files in `Files`, select in `DraftLifecycle` |
| AI queue and worker (`queue/`) | BullMQ jobs in Redis | enqueue, run, retry, stall | `AiGeneration` |
| Credits (`modules/wallet`) | `CreditWallet`, `CreditTransaction` | increase, decrease, grant, purchase, bonus | `Ledger`, `CreditAccount`, `Wallet`; not decrease |
| Drafts (`modules/drafts`) | `Draft`, `Event`, `OrderItem`, `Invoice` | create, update, card, shipping, billing, assign, preview, revision, approve, cancel, commit | `DraftLifecycle` |
| Uploads and image files (`shared/upload`, `shared/image`, a script) | files in the public and private directories, `GeneratedImage` | upload, save an image, clean up | `Files` |
| Transactions (`config/transaction.ts`) | none | isolation level and retry loop | `DraftLifecycle` (as commit uses it) |
| Orders, payments | `Order`, `Payment` | cancel; initiate, callback, refund | `OrderPayments` |
| Auth, users | `User`, `UserProfile`, `RefreshToken`, verification, reset and phone tokens, `Event` rows of logins | register, login, refresh, verify, reset, phone, lockout | `Wallet` (register), `Sessions`, `OneTimeCodes` |
| Addresses | `Address` with one default | create, update, set default, delete | `Addresses` |
| Shipments | `Shipment`, `ShipmentEvent` | create, register, webhook, sync | `Shipments` |
| E-mail, notifications, contact form | `EmailQueue`, `Notification`, `ContactSubmission` | send, submit, read, clean up | `Mail` |
| Likes | `Like`, count cached in Redis for 30 s | toggle, summary | `Likes` |
| Projects and comments | `Project`, `ProjectMember`, `Comment` | create, update, delete, members, comment | `Projects` |
| Templates and categories | `Template`, `Category`, `TemplateCategory` | create, update, delete | `Catalog` |
| Designers and reviews | `DesignerReview`, figures computed from rows | recommend, review | `Designers` |
| Rate limiters (`middlewares/`) | counters in Redis or in the process | consume | `RateLimits` |
| Search | rows of templates and designers | page after page | `Search` |
| Returns, message cards, assets, organizations, locations, hashing package, seed script | rows | queries, single writes | not modelled |

How they interact: the AI handlers and the worker move credits through the two credit
tables; `select` and `regen` write the draft row that the draft handlers also write;
commit creates the order that payments and shipments work on; registration opens the
wallet; the purchase of credits makes an order of its own. Redis carries the draft lock, the
job queue, the cached counts of likes and the rate limits; without `REDIS_URL` the lock
is a `Set` of the process and generation runs inside the request.

What is hard here: a value read before an `await` and used after it (balance,
`aiRegenCount`, the draft row, `committedAt`); the choice between Redis and memory;
BullMQ's redelivery after a crash and its retries; errors between a charge and what was
paid for; a commit retried after a lost connection. `PROJECT.json` lists these hazards
at their lines with the properties that cover them.

What makes each component correct:

* credits: the balance is the sum of the history; a job is charged once, refunded at
  most once, the same amount and to the same user; nobody spends what they do not have;
* AI: one client key pays once, one generation of a draft at a time, a completed job has
  its images, a failed one its refund, an answer tells what became of the credits;
* drafts: statuses follow the transition table, revisions are limited and numbered, no
  request loses what another one stored, one order per draft, an order stays makeable;
* payments: one successful payment per order, an order is paid exactly if its payment
  is, a refund at most once;
* sessions and codes: a login has one living token, a user is not taken for a thief of the
  own token, failed logins are bounded, a code works once, a phone number shown as
  verified was proven;
* addresses: at most the limit, exactly one default among one or more addresses;
* shipments: a shipment shows what its carrier told last, and keeps the event of each report it
  answered for, unless the client refused it or the transaction was rolled back;
* mails: a queue row tells what became of its mail, a mail belongs to a record;
* likes, projects, catalog, files: a cached count is the count, who writes has the right, the
  pages of a search show every row, a
  template has the categories last asked for, a row has its files.

## 2. Modules

| module | what it is |
|---|---|
| `Ledger` | the two credit tables and the one way they change (`Post`); extended by whatever moves credits |
| `CreditAccount` | abstract specification: what the credit system promises about paid jobs |
| `AiGeneration` | generate, regen, lock, idempotency cache, queue, worker, crashes |
| `MCAiGeneration` | its small instances |
| `AiGenerationProofs` | theorems about `AiGeneration` and their proofs |
| `DraftLifecycle` | draft operations as read-decide-write, and the commit transaction |
| `MCDraftLifecycle` | its small instances |
| `DraftLifecycleProofs` | theorems about `DraftLifecycle` and their proofs |
| `OrderPayments` | orders against initiations, callbacks and refunds |
| `Wallet` | extends `Ledger`: sign-up, first read, purchase, grant; the connection pool |
| `MCShop` | small instances of these two |
| `Sessions` | logins behind the account lock, refresh-token rotation |
| `OneTimeCodes` | e-mail, reset and phone codes, the phone columns of the profile |
| `Addresses` | one user's addresses and their default |
| `RateLimits` | every limiter, its keys and windows |
| `Catalog` | templates, categories and the links between them |
| `Designers` | the recommended slate and the figures behind it |
| `Search` | the pages of a search while its rows change |
| `MCAccount` | small instances of these seven |
| `Shipments` | shipments, their carriers' reports, registration and polls |
| `Mail` | the mail queue, notifications, the contact form, the clean-ups |
| `Likes` | likes of a card and their cached number |
| `Projects` | a project, its members and comments |
| `Files` | uploads, image files and the clean-up script |
| `MCOutside` | small instances of these five |
| `AiOutcomesProofs` | theorems about answers, outcomes, keys and the refinement of `AiGeneration` |
| `ShopProofs` | theorems about `OrderPayments` and `Wallet` |
| `SignInProofs` | theorems about `Sessions` and `OneTimeCodes` |
| `AccountProofs` | theorems about `Addresses`, `RateLimits`, `Catalog`, `Designers` and `Search` |
| `OutsideProofs` | theorems about `Shipments`, `Mail`, `Likes`, `Projects` and `Files` |
| `FiniteSums` | lemmas about sums over finite sets and over the entries of a history |

`CreditAccount` is implemented by `AiGeneration`: `AccountSpec` instantiates it with a
refinement mapping from a job's status and refunds to the state of its charge, and the
runs check it as a PROPERTY.

### AiGeneration

A step is what one process does between two awaits, or one database transaction.
`pc[r]` is where the handler of request `r` is: `new` (draft read), `wallet`, `decide`
(price, prompt, cache), `lock` (awaiting `SET NX`), `charge`, `deliver` (enqueue, or
generate inline), `mark`, `fail`, `refund`, `finish` (fill the cache, reply),
`release` (awaiting `DEL`), `done`; `lost` when its process died. `regen` takes the
same steps without prompt check, cache and lock. The worker of process `s` is at
`step[s]` of its handler for job `task[s]`. A request creates at most one `AiJob`, so
jobs carry the names of requests.

Abstracted: the provider call and the image files are one step that succeeds or fails
(after which some or all of the images may be there, `saved`); a prompt is safe or not;
credits are integers. `regen` looks up the last job's prompt and finds the job it has
just created (`ai.controller.ts:165`), so the prompt is empty unless the draft has
`aiPromptFinal`; prompts are not modelled. Idempotency keys are modelled as clients send
them in the header, where they are scoped neither by user nor by draft; a derived key is
one more key. Whether BullMQ accepts the colon in the queue's name `ai:generate` is not
modelled: the queue is taken to work.

`Faults` says what may go wrong besides the provider: `db` (a query fails), `redis` (a
call fails), `idem-expiry` (a cached key passes its 5 minutes), `slow-holder` (a
handler outlives the 60 s of its lock), `slow-worker` (a worker outlives the renewal of
its BullMQ lock and goes on). The last two occur in no run: with them `LockExclusive`,
`AccountSpec` and `JobOutcomeFinal` do not hold, since release deletes a key whoever
set it (`locks.ts:27`) and two workers may both run and refund one job. The theorems
other than `LockIsExclusive`, `OutcomesAreFinal` and `ImplementsAccount` allow for them,
unless a hypothesis of section 4 rules the whole mode out.

BullMQ is modelled from how the code uses it (marked external in the map): a waiting
job goes to one worker, a throw counts an attempt and puts the job back until the
attempts are used up, a return finishes it, an active job whose worker has died goes
back once (`MaxStalls`) and is then given up.

### DraftLifecycle

A slot is a request being served; slots are reused, so the number of requests is not
bounded. `Receive` is the read of the draft row with all checks of the handler; a
request that is refused changes nothing and is no step. The writing step updates the
columns the handler names, from the snapshot where the handler uses it (`Merged`,
`Assign`, `RequestRevision`) and on top of whatever the row holds by then. `commit`
has its checks in `Receive` and its transaction in `Begin` (the statement that fixes the
RepeatableRead snapshot) and `FinishCommit`; `Conflict` is PostgreSQL's refusal to update
a row changed since, `Reset` a connection lost before or after COMMIT, and both are
retried or not by `RetryOrThrow`. Prisma reports a write conflict under a code of its own,
so whether `isRetryableError` recognises an error is left open.

`exposed[d]` is a history variable: two requests were once in flight on draft `d`
together, or a commit lost its connection. Without row versions most promises about a
draft hold only as long as that has not happened; the properties say exactly which need
that condition (`AtMostOneOrder`, `RevisionsNumbered`, `WorkflowFollowsTable`, `NoSectionLost`,
the approved status in `OrderComplete`) and which hold regardless (`OrderMatchesCommit`,
the card, address and designer in `OrderComplete`).

Abstracted: `data` is the set of its sections, with the length of `data.revisions`
apart (`notes`); the two ways to set a shipping address are one; the step column, role,
ownership and existence checks, notifications and workflow events other than
`revision_requested` are left out. A cancel or revision request without text on a
draft whose `data` is null may be rejected by Prisma, which is an `Abort`. A failed
invoice insert makes PostgreSQL roll back the whole transaction although the code
swallows the error (`draft.service.ts:384`), an `Abort` too: the 201 that the client may
then get is not modelled. The shipment that `handlePostCommit` would register needs a
`carrierCode` that the DTO strips, so it never runs. Nothing in the modelled code
deletes drafts, cards or designers.

Behaviours a reader should know and that the model shows: an order does not freeze the
draft (`validateCanModify` has no caller), a canceled upload or AI draft can be
committed, and a draft may be canceled after its order when its method is not `artist`.

### The other modules

They follow one scheme: a *slot* is a request being served, `...Pc[s]` the step it takes
next, `...Req[s]` what it remembers; the first step makes the checks and a request that is
refused is no step; the last one writes. `...Abort` ends a request anywhere (database
error, provider error, crash). History variables (marked so where they are declared)
say which race or failure has happened, and the properties say exactly which of them
excuses what. Names carry a module's prefix, since the MC modules extend several.

**OrderPayments.** `initiatePayment` calls its validator with amount 0 and an empty user,
so the code refuses every initiation: `InitiationArgs = "blank"` is this code, and the
run `payments_refused` shows it. `"order"` gives the validator what its comments announce,
without which nothing behind it could be reached. Further: a card that Iyzico charges at
once leaves the order pending, so it can be charged again; a refund does not read whether
the provider declined, and two refunds may both be carried out; cancel writes by id over a
callback; `canCancel` calls a paid order cancelable while cancel accepts pending ones only.

**Wallet.** Each statement takes a connection of the pool; a transaction keeps one.
`register` creates the user with the global client inside its transaction: the user
survives a rollback, without bonus until the wallet is first read, and as many sign-ups as
there are connections wait for each other until their transactions time out. A wallet that
the AI controller or a grant opened never gets the bonus (`unearned`). A purchase makes a
paid order first and adds the credits after it (`lost` when it ends in between).

**Sessions.** A refresh compares its token with the user's newest living one, so a second
device, a lost answer, or a crash between revoking and creating makes the next refresh look
like theft and logs every device out (`NoFalseAlarm` names exactly these). The account
lock looks e-mails up in lower case while they are stored as typed: an address with a
capital is never locked (`lowerCase`). `logout`, `changePassword` and `resetPassword` revoke
nothing.

**OneTimeCodes.** Sending inserts a row; a check and a later transaction use it by its id.
After the newest reset code is used an older one is accepted again. `WriteSamePhone`
writes the phone that was read, so an update may bring a changed number back.

**Addresses.** Ids are given in the order of creation. The `updateMany` that unsets other
defaults takes the rows there are when it starts (`seen`). The schema gives an update
without `isDefault` the value false, so editing the default address takes its flag away
(`disturbed`). `FRONTEND_DEVELOPER_API_GUIDE_PART3.md:871` says that the default address
cannot be deleted; the code deletes it and hands the flag on, as the model does.

**RateLimits.** Time is counted in ticks; points and durations are scaled down to the same
duration for all. Counters change atomically, so one request at a time loses no behaviour
of theirs. `aiRateLimit` consumes both its points even if one is refused; search
suggestions share the limit of 30 with the search although a comment says 60; several
processes without Redis count separately (one process is modelled, with its restarts). The
contact form, the search, the public tracking and the webhook of a carrier take their key from the
first address in `X-Forwarded-For` although Express is told to trust one proxy only
(`contactRateLimit.ts:44`, `searchRateLimit.ts:37`, `shipmentRateLimit.ts:62` and `:92`). A
request therefore comes with the address its header names (`named`), any of them for any client,
and what is bounded for these four is what comes under one such address, not what one client
sends.

**Catalog.** An update that changes only categories does not write the row and thus takes
no row lock, so two of them can mix their categories (`mingled`). Deletions fail while
there are links. A waiting delete spares links that another update put there since
(`LinksReplaced`). The run has one template, so that slugs are unique says something of categories
there, and of templates only in the theorem. **Designers.** The slate is a set of possible slates: Wilson's bound is any
order, and the random part of a score breaks ties. **Search.** Rows are numbered in the order of their
creation; those with the same `createdAt` have no order among them, since the queries name nothing
else to order by (`search.service.ts:165` and `:245`), so a page may hold any of them (`Pages`).
Which rows match is changed by others at any time. Each page is an offset, and its
count a statement of its own, so a row that goes, or one that comes between count and page, can
hide another (`slipped`, `mixed`). A search for all kinds compares the sum of the counts with one
offset, so its last pages may be empty. `search/routes.ts:19` says that projects need a log-in;
the route attaches no user, so they are never searched.

**Shipments.** A label is a carrier and a tracking number; its carrier's reports are
numbered, may overlap, come again and be lost. Two carriers that give the same event id
share one row (excepted in `EventsKept`). The catch around each event upsert swallows its error
and the webhook answers success. Values that the database client refuses (`malformed`) lose the
event and keep the status. An error of the database makes the commit of the transaction a
rollback, without an error for the caller (`UpsertFails`, `undone`). A sync may get the events without the
status, or neither, and succeeds. A registration that fails is never tried again,
against its comment. **Mail.** The server may take a mail and its answer be lost. The
contact form's error handler builds an update that Prisma never runs
(`contact.service.ts:45`), and a queued row left by a crash is neither sent nor cleaned up.

**Likes.** The summary caches what it counted even if a toggle came in between. Every
request for the popular cards opens a Redis connection that nothing closes
(`messageCard.controller.ts:13`), which is not modelled. **Projects.** A removed author can
still edit a comment but not read it; a deleted project still takes updates and comments.
**Files.** An upload that is refused after it was stored stays in the public directory;
the first image that fails ends the job while the writers of the others go on. The completing
update is in the same `try`: if it fails, or if a row was created and its answer lost, a job with
all its rows is marked failed (`unanswered`). A copy is deleted only after a day (`aged`).

## 3. Runs

| run | instance | shows |
|---|---|---|
| `ai_inline` | 1 process, no Redis, 2 requests over 2 drafts, 2 keys and both operations, balance 200, 1 top-up | account, answers, lock, key, counter, and the liveness of the inline path |
| `ai_queue` | 2 processes with Redis, 2 generate requests of one draft, 1 attempt, 1 crash, faults `db` and `idem-expiry` | the Redis lock, the worker's outcomes and the refinement across processes |
| `ai_queue_live` | 1 process with the queue, generate and regen, 2 attempts, 1 crash, Redis errors incl. the fallback to the in-memory lock, balance 100 | retries and redelivery: outcomes are final and are reached |
| `drafts_workflow` | 2 slots, 1 artist's draft, 2 revisions, failures anywhere | the workflow and the draft's data |
| `drafts_commit` | 2 slots, 1 draft of either kind, 2 retries, 1 revision, conflicts, resets, failures | orders against drafts |
| `shop` | 1 order, 2 payments, 2 slots, both providers; or 2 users, 2 slots, 2 connections, 1 purchase | orders against payments, who earns credits, the pool |
| `account` | 2 slots each: 2 devices and 3 tokens; 2 codes, 2 phones; limit of 2 addresses, 5 created; 1 template, 2 categories, 2 slugs; 4 designers; 1 or 2 points in windows of 2 ticks; up to 3 rows of a kind, two of them created at one time, in pages of 1 or 2, with 2 changes | sessions, codes, addresses, limits, catalog, slate, search |
| `outside` | 2 slots each: 2 labels, 2 reports, 1 poll; 2 submissions, 1 notice; 2 fans; 3 users of a project; 1 upload, 1 job of 2 images | shipments, mails, likes, rights, files |
| `ai_worker_refund` | 1 request, 3 attempts | **violated**: a job that failed for good keeps the credits |
| `ai_overdraft` | 2 requests, 1 process | **violated**: the balance goes negative |
| `drafts_two_orders` | 2 slots, no failures | **violated**: two orders from one draft |
| `payments_refused` | 1 order, mock provider | **violated**: a user's first payment is refused |

`MCShop`, `MCAccount` and `MCOutside` hold modules that share no state: `part`, chosen at the
start, says which of them runs, and the variables of the others stay as they were. Their
cases are thus those of the modules run one by one, and their type invariant is that of
the module that runs.

The last four check what a comment, a test or a document of the repository says; the
findings in `PROJECT.json` quote it.

Why the bounds are enough. Every AI property relates at most two requests, and two
requests give every overlap of the two handlers; a third only repeats a pair. Two
drafts and two keys make "same" and "different" both happen, and a balance of 200
lets one generation be affordable and two not, or both, depending on the
regeneration count and the top-up. One crash reaches every step of handler and worker;
with `MaxStalls` at BullMQ's default of 1 a second stall would only give the job up. Two
attempts are the least with a retry; `ai_worker_refund` uses the configured three.
`MaxTopUps` bounds grants and purchases. For drafts, two slots give every overlap of two
requests, and since slots are reused any number of requests in a row; two revisions are
the least for which two numbers could coincide; two retries is the configured value. One
draft suffices, as no request touches two.

Deadlock is checked in the draft runs. In the other runs it is not,
since finitely many requests end or the bounds are used up. `SYMMETRY` is used only in runs
without liveness, over sets the inputs treat alike; in `account` and `outside` it exchanges
the two members of several sets together.

`OneGenerationAtATime` is checked inline only: with the queue the lock is freed as soon as the
job is enqueued (`ai.controller.ts:113`), and two generations of a draft may run at once.

In the other modules every promise relates two requests (or a request and its carrier, script
or mail server), and two slots reused without end give every overlap of two and any
sequence of them within the bounds. Three tokens allow a login, its rotation and a second
login or rotation; two codes an older and a newer one; five creations with a limit of two
addresses let every address be deleted and replaced; two payments are the least that could
both succeed, two connections the least that a second sign-up can exhaust; two reports of a
label can be reordered, and a second label can share an event id; shipments start either with
events without ids, or with ids and a last report whose event the client refuses. Four designers are one
more than a slate has places. Three rows in pages of one or two make a search of up to
three pages, and two changes let a row come and another go; `MaxPage` stands for the schema's
100. `MaxRefunds`, `MaxGifts`, `FailureBound`, `MaxReports`,
`PollBound`, `MaxCreated` and `MaxChanges` bound what could go on for ever.

Fairness (`FairSpec`): weak fairness of a handler that has begun, of a worker that has
a job, of some worker taking a waiting job, and of BullMQ's stalled check for a job
whose worker is gone. The code justifies it: each await is a Prisma or Redis call
that answers or throws, and the provider is called at most three times with a 60 s abort
each (`stability.provider.ts:39-60`); workers and the stalled check run as long as the
process does, and a crashed process is started again. Nothing forces a request to
arrive, a crash, a top-up, an expiry or a slow step. The draft module has no liveness
property: its handlers have no loop but the bounded retry. `shop` assumes
`SignUpFairness`: a statement that has its connection runs, and Prisma times an interactive
transaction out after five seconds; without the time-out two sign-ups would wait for ever,
as the mutant of `ConnectionsComeBack` shows. The other modules have no fairness: their
requests may end anywhere, and nothing retries them.

## 4. Theorems

All proofs are checked by TLAPS for every value of the constants that meets the
module's assumptions: any number of requests, processes, drafts and users, any bounds
and any set of faults, unless a theorem says otherwise.

| theorem | property | argument |
|---|---|---|
| `TypeCorrect` | `TypeOK` | inductive as it stands, one lemma per group of actions |
| `BalanceIsHistory` | `BalanceMatchesLedger` | inductive with `TypeOK`: every action leaves both tables alone or is a `Post` |
| `OneAtATimeNeverOverdraws` | `OnlyOverlapOverdraws` | `AllSolvent`: while a user's requests have not overlapped, the balance is not negative, at most one of them is deciding, the balance is at least what that one has read, and past the check this covers its price |
| `LockIsExclusive` | `LockExclusive` | `LockHeld`: whoever is in the section is the owner recorded in the Redis key, or has its draft in the set of its process; assumes `ReliableLock` (no Redis error, no holder slower than the TTL when Redis is configured) |
| `AnswersAreTrue` | `AnswerMatchesAccount` | `OutcomeInv`: what each step of a handler or worker may find in the row of its job |
| `ImagesAreThere` | `CompletedHasImages` | the same |
| `CountIsSound` | `RegenCountSound` | `CountTrue`: a count that was read was that of delivered regenerations then, which only become more |
| `OutcomesAreFinal` | `JobOutcomeFinal` | `HoldersInv`: whoever works on a job is its only holder; assumes `PromptWorkers` |
| `ImplementsAccount` | `AccountSpec` | each step moves the credits of one job (`MoneyMoves`) and is a step of `CreditAccount` or a stutter; assumes `PromptWorkers` |
| `GenerationsTakeTurns` | `OneGenerationAtATime` | `UnderLock`: a queued job's handler is in the section of the lock; assumes `Undisturbed` |
| `KeyPaysOnce` | `OneChargePerKey` | `Claims`: a job holds the lock until its key is cached; assumes `Undisturbed` and that no key expires |
| `TypeCorrect` (drafts) | `TypeOK` | inductive as it stands |
| `MarkedIffOrdered` | `OrderMatchesCommit` | inductive with `TypeOK` |
| `OrderedOnce` | `AtMostOneOrder` | `FreshView`: a commit about to save still has a draft without order |
| `TableFollowed` | `WorkflowFollowsTable` | `FreshView` and `Effect`: the status written follows the one read, which is still there |
| `SectionsKept` | `NoSectionLost` | the same for `data` |
| `OrdersAreComplete` | `OrderComplete` | `Staffed` (overlap or not) and `Approved` |
| `NumbersOfRevisions` | `RevisionsNumbered` | `Numbered`: also the events that requests still owe have numbers of their own |
| `PaymentsTypeCorrect` | the types of `OrderPayments` | part of `PayInv` |
| `OrdersTellTheirPayments` | `OrderMatchesPayments` | `Story`: one payment of an order is alive at a time, from its initiation to its refund |
| `PaidBackOnce` | `RefundedOnce` | `RefundTrue`: one refund at a time, and how far it has come |
| `SettledForGood` | `PaymentSettlesOnce` | `RequestsInFlight`: what a request read of its payment is still so |
| `WalletIsTyped` | the types of `Wallet` | part of `WalletInv` |
| `CreditsAreEarnedOnce` | `CreditsEarned` | `Welcomed`: which of a user's requests is about to give the bonus; `CreditsTrue`: the row of purchases is the sum over the orders that were credited |
| `ShopTypeCorrect` | `ShopTypeOK` | both modules together |
| `SessionsTypeCorrect` | the types of `Sessions` | part of `SessInv` |
| `OneTokenPerLogin` | `SessionsSound` | `OneLine`: in each line of tokens one lives or one request is about to issue the next; `Calm`: without an excuse the device holds the newest token, and that lives |
| `LockBoundsGuesses` | `FailuresBounded`, half of `GuessesBounded` | inductive with `SessInv`: a guess in flight counts like a failure |
| `CodesTypeCorrect` | the types of `OneTimeCodes` | part of `Typed` |
| `CodesProveOnce` | `CodesSound` | `UsedTrue`: a code was used exactly if its row says so, and only one request that checked it is about to use it |
| `AddressesTypeCorrect` | the types of `Addresses` | part of `AddressInv` |
| `OneIsDefault` | `OneDefaultAddress` | `Orderly`: a request that nothing overlapped knows the book as it is; `BelowLimit`: addresses and the creations that have passed the check are fewer than the limit plus the slots |
| `LimitsTypeCorrect` | the types of `RateLimits` | part of `LimitsInv` |
| `GuessesAreSlowed` | `RateLimited`, half of `GuessesBounded` | `KeySound`: a counter tells what its subject was given since its window began, and that less than the points were given in the duration before; a blocked one has given nothing since |
| `GuessingIsBounded` | `GuessesBounded` | both halves |
| `CatalogTypeCorrect` | the types of `Catalog` | part of `CatalogInv` |
| `LinksFollowRequests` | `LinksAsAsked` | `EditTrue`: what an open transaction read is still so, and which links it has removed; `TakeTurns`: of two open transactions on one template at most one holds the lock of the row, and only one is past its first look unless the two mingled |
| `DesignersTypeCorrect` | the types of `Designers` | part of `DesignersInv` |
| `SlatesAreFair` | `SlateFair`, half of `ListsComplete` | every slate the three picks can make is fair (`SlatesFair`), the offer is one of them |
| `SearchTypeCorrect` | the types of `Search` | part of `SearchInv` |
| `PagesAreComplete` | `PagesComplete`, half of `ListsComplete` | `KindInv`: the rows that stayed and come before the offset have all been shown, none twice, and the counts told are not too small |
| `ListsAreComplete` | `ListsComplete` | both halves |
| `AccountTypeCorrect` | `AccountTypeOK` | all seven modules together |
| `ShipmentsTypeCorrect` | the types of `Shipments` | part of `ShipmentsInv` |
| `CarrierIsFollowed` | `ShipmentFollowsCarrier` | `InOrder`: while a label's reports come in order, at most one request is about to write and what it will write is the last report; with none the row shows it; `EventsThere`: the reports answered with success and the one whose status is shown have their event unless it was refused or undone; `Registers`: one registration per label |
| `MailTypeCorrect` | the types of `Mail` | part of `MailInv` |
| `RecordsMatchMails` | `MailMatchesRecords` | `RowTrue`: what a row may say given how far its sender has come and what the server did; `OnRecord`: a sender has a record to write about; `OneAtATime`: checks that nothing overtook still hold |
| `LikesTypeCorrect` | the types of `Likes` | part of `Typed` |
| `LikesAreShown` | `LikesShown` | `CountsTrue`, `CacheTrue`: what a summary counted is the count unless it was overtaken; `TogglesTrue`: how far a user's only toggle has come |
| `FilesTypeCorrect` | the types of `Files` | part of `FilesInv` |
| `FilesBackRows` | `FilesMatchRows` | `ImageTrue`: a writer past a step has left what that step writes, whatever became of its job, and a failed one a row only if the answer was lost; `JobTrue`: what the end of a job says of its writers; `UploadTrue`: what an upload has passed so far |
| `ProjectsTypeCorrect` | the types of `Projects` | part of `ProjectsInv` |
| `RightsAreRespected` | `RightsRespected` | `AskTrue`: a checked request that nothing overtook is still rightful; `Known`: who commented had a row, and has it unless removed |
| `OutsideTypeCorrect` | `OutsideTypeOK` | all five modules together |

The first four are in `AiGenerationProofs`, the theorems of drafts in `DraftLifecycleProofs`,
the others in the module that section 2 names for their component.

Three hypotheses restrict theorems, and each names what the code cannot promise without it.

* `PromptWorkers`: no worker outlives the renewal of its BullMQ lock and goes on. With such a
  worker two run one job, and `fail` of one may follow `complete` of the other, since both
  write by id (`ai.worker.ts`).
* `Undisturbed`: one process without `REDIS_URL`, whose database does not fail and which does
  not crash. With Redis the lock ends when the job is enqueued; two processes have a set of
  locks each; a
  crash, or a database error that takes the handler out through its `finally` block, leaves a
  queued job whose lock is free. `OneChargePerKey` is weaker than it looks for the same
  reasons: the map of keys belongs to a process and lives for five minutes.
* `ReliableLock` of `LockIsExclusive`: see the table.

All three are conditions on constants, and are met by the instances of runs: `ai_inline`
satisfies `Undisturbed`, and all three AI runs satisfy `PromptWorkers`.

In the other modules history variables say which races are excused, and the strengthening says
what the requests under way still know as long as no such race has happened; without it a
property is lost at a request that acts on what it read steps ago. Payments carry the largest: `Story` accounts for an order's initiations, its
payments and its status together, since a callback may settle a payment whose order another
request is about to cancel.

Sums. `CreditsEarned` compares a ledger row with a sum over orders and `RateLimited` bounds a
sum over the ticks of a window; both sums are folds. A fold cannot be unfolded by induction
here, so `FiniteSums` shows what is needed of it by least counterexample: the sums exist, do
not depend on the order of the elements, and grow by what a new element adds. For the
limiters the argument is then about numbers: `FirstPoint`, `AnotherPoint`, `OneTooMany`,
`LaterBounded` and `LaterRuns` say what the invariant of one limiter and one subject does when a
point is given, refused, or a tick passes.

`LinksAsAsked` could not be proved at first: nothing said that the slug of a row that was never
created differs from that of a deleted one, without which a creation could pick an id that
was used before. `CatalogAssumption` now says so (`NoSlug # Deleted`); it is a fact about
two markers of the model, not about the code.

A theorem about one module is about that module's specification; `ShopRunsBoth`,
`AccountRunsAll` and `OutsideRunsAll` show that the specification which a run checks implies that
of each of its modules, so that the theorems hold of the runs' specifications as well.

`OnlyOverlapOverdraws` alone is not inductive: that the charge does not overdraw depends
on the wallet as the handler read it steps before, which is what the strengthening
remembers. `LockExclusive` alone is not either: it says nothing about who may leave
and free the lock.

The drafts' argument has two halves. `RequestsWrite` says once what any of the nine
writing actions may make of a row (`Effect`), so that the invariants are proved over one
kind of write. `FreshView` is the strengthening they share: until two requests overlap on
a draft, at most one is in flight on it, its checks still accept the row, and its snapshot
is still what the row holds. A property that depends on checks made steps earlier is not
inductive without it. `OrderMatchesCommit` and the first part of `OrderComplete` hold
under overlap too: the former because one transaction writes both
sides, the latter because card, address and designer are only ever added (`RowsGrow`).
`RevisionsNumbered` needs the numbers that are still to be recorded (`Numbered`).

Only model-checked: the liveness properties `EveryRequestAnswered`, `EveryChargeSettled`,
`EnqueuedJobSettles` and `ConnectionsComeBack`, since liveness under fairness and `ENABLED` are
beyond TLAPS here. For the same reason the theorems speak of `Spec`, not of `FairSpec`, which
implies it. Every invariant and every action property that a passing run checks is the
subject of a theorem, some under the hypotheses above.

## 5. Plan

Done: every module of section 2, its runs, and the theorems of section 4.
Next, in this order:

1. `JobOutcomeFinal` and the refinement without `PromptWorkers`, for what of them still holds
   when two workers run one job;
2. the step of `CreditAccount` that `EnqueuedJobSettles` rests on, as a safety fact: a queued
   job that no one works on is waiting in the queue.

## 6. Not modelled, and why

* Queries without side effects, except the search; the popular cards and suggestions among them.
* Returns: a row per request and an unconditional status that no other code reads.
* Assets and organizations: a check of the owner and one write, with nothing to relate.
* The status an admin gives a contact submission, the profile columns other than the phone,
  and password changes: single writes that no modelled code reads.
* Access tokens and roles: pure functions of the request.
* `createUploadUrl` of `draft-upload.service.ts`, which makes a directory and answers a name that
  nothing keeps; the rest of that service has no caller.
* `decrease` of the wallet, the payment validator's other methods,
  `draft-assignment.service.ts` (which names a column the schema lacks) and parts of
  `draft-validation.service.ts`: nothing calls them.
* SMS, push and the bytes of mails and pictures; the password-hashing package; the seed
  script.
