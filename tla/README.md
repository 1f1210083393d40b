# Verification of the e-invoicing application

This directory holds TLA+ models of the repository: the queue that hands issued
invoices to a platform (a *PDP*), the poller that reads back what the platform
says of them, the reception of suppliers' invoices, issuance, accounts and their
administration, the path of a document from the form to the sealed PDF and back
through the validator, and the rate limiter. TLC checks the models on small
instances, and TLAPS proves the main invariants for every value of the
constants. Every definition that stands for code is listed, with the lines it
models, under `map` in `PROJECT.json`.

To run: `tlc -config Queue.cfg MCTransmissionQueue` (module and configuration of
each run are in `PROJECT.json`, under `runs`), and `tlapm PdpProofs.tla` for each
of the seven modules whose name ends in `Proofs` and for `FoldLemmas`.

## 1. The system

An API server and a worker (the same NestJS application, `apps/api`) over one
Postgres database and one directory of archived files; a web application
(`apps/web`) in front; platforms and a validation engine behind. Nothing is
coordinated in memory: several API and worker processes may run, and all they
share is the database and the files. Transactions run at Postgres's default READ
COMMITTED. The exception is the rate limiter, a map in the memory of one web
process.

| Component (source) | State it keeps | Operations | What is hard |
|---|---|---|---|
| transmission queue (`pdp/transmission.service.ts`) | `Transmission` rows, `Invoice.state`, `LifecycleStatus` | enqueue, enqueuePending, claim, drain, attempt, recordSent, recordFailure, retry | every operation reads, leaves the database, and writes later; leases; lost answers |
| PDP worker (`pdp/pdp.worker.ts`) | a claim id | queue cycle, poll cycle | dies anywhere; cycles of several processes overlap |
| status polling (`pdp/pdp-sync.service.ts`) | `PdpConnection.statusCursor`, timeline, row and invoice state | pollStatuses, applyStatus | cursors; polls that overlap; statuses out of order, early, late |
| inbound polling (same file) | `inboundCursor`, what the platform holds as acknowledged | pollInbound | acknowledging or passing what was not filed |
| reception (`invoicing/reception.*`) | received invoices | receive | check-then-act; the store outside the transaction |
| archiving (`archiving/`) | `ArchiveEntry` rows, files | seal, put, retrieve | file before row; bytes that are spoilt later |
| lifecycle (`pdp/lifecycle.ts`) | none | advanceState, tables | the order of states |
| connection settings (`pdp/pdp.controller.ts`) | `PdpConnection` | upsert, deactivate, verify, transmit, retry | a switch while rows are queued |
| registry, credentials, adapters (`pdp/pdp-registry…`, `credentials.ts`, `providers/`) | sealed secrets | resolve, transmit, fetchStatuses, fetchInbound, acknowledge | external platforms |
| webhook (`pdp/pdp-webhook.controller.ts`) | `lastWebhookAt` | receive, debounce | starts a poll beside the timer's |
| issuance (`invoicing/issuance.service.ts`, `invoices.controller.ts`) | `Invoice`, artifacts and archive entries | issue, list, detail, download | insertion, sealing and commit together, retried after a failure |
| client businesses (`invoicing/client-orgs.controller.ts`) | `ClientOrg` rows | create, update, overview, detail | totals added up from several queries under a scope |
| accounts, sessions, credential tokens, password reset (`packages/auth`) | `User`, `Session`, `CredentialToken` rows | register, sign in, open, touch, revoke; issue, check, consume; set a password | several statements per operation; expiry boundaries |
| permissions and scope (`packages/auth/src/permissions.ts`, `auth/scope.ts`) | none | tables and filters | an empty scope against no scope |
| user administration (`users/`) | `User` rows | invite, edit, disable | the last owner; assignments left behind by a role; edits at once |
| draft, money, checks (`packages/facturx/src/generate`, `money.ts`, `identifiers.ts`) | none | computeInvoice, checkDraft, check digits | rounding and rescaling; grouping by rate |
| documents (`generate/cii.ts`, `generate/pdf.ts`, `extract/`) | none | write and read back the XML; lay out the page | amounts as text; where a page ends |
| validation (`checks.ts`, `analyze.ts`, `engine/`, `rules/`) | none | read a report, check the arithmetic, give a verdict | an engine that fails in many ways |
| invoice form (`nouvelle/InvoiceForm.tsx`, `factures/actions.ts`) | the rows on the page | add, remove, change, preview, submit | a preview that must be what is issued; parallel arrays |
| rate limiting (`apps/web/src/lib/rate-limit.ts`) | one map of buckets | take, sweep | limiters of different sizes share the map |
| mail, other web pages, billing, build | none worth a model | text and I/O | – |

How they interact. A draft is typed in the form or sent to the API, checked,
rendered twice and given to the engine; issuance then leaves an invoice
`VALIDATED` with its sealed artifact. The worker's sweep, or a request, enqueues
it for the active connection of its business; a worker claims the row, hands the
document to the platform under the row's idempotency key, and records the
outcome. Polls, of the timer or of a webhook, match what the platform reports to
rows by connection and identifier, append it to the timeline and move the
invoice. The second half of a poll receives the invoices that suppliers have
sent, through the same `receive` that serves uploads. Every request goes through
a session, whose user's role and businesses decide what it sees.

What makes each part correct: of the queue, that no invoice reaches two
platforms, none is shown as sent that is not, none is forgotten; of the poller,
that no status is skipped, misattributed, or allowed to take an invoice
backwards; of reception, that nothing is filed twice and nothing is acknowledged
unfiled; of issuance, that a number is used once and what is issued can be
retrieved as it was; of accounts, that what is revoked or spent stays so; of
administration, that a tenant keeps an owner and nobody gets another's businesses; of
documents, that what the checks
accept the engine accepts, that what is said to conform does, and that what is
issued is what was shown; of the limiter, that a limit is one and the wait it
announces is kept.

`PROJECT.json` lists every component with its status, and every hazard found,
with its line and the properties that would show it going wrong.

## 2. The modules

| Module | Models | Extends |
|---|---|---|
| `Lifecycle` | the code table, ranks, `advanceState` | |
| `PdpStore` | the tables both halves of the PDP share, and what platforms hold | `Lifecycle` |
| `Handover` | abstract: what the queue promises of an invoice | |
| `TransmissionQueue` | the queue, its worker and its requests | `PdpStore` |
| `StatusSync` | pollStatuses and applyStatus | `PdpStore` |
| `Pdp` | queue and poller over one database | both |
| `Reception` | receive, seal, put, uploads and pollInbound | |
| `Permissions` | roles, permissions, scopes | |
| `Accounts` | registration, sessions, links, passwords | `Permissions` |
| `UserAdmin` | invitations and edits of accounts | `Accounts` |
| `Issuance` | issue, archive, lists, overview | `Permissions` |
| `RateLimit` | the buckets and the pages that take from them | |
| `Selection` | `filter` of a list | |
| `Money`, `Identifiers` | scaled integers; SIREN, SIRET, VAT numbers, IBAN | |
| `Draft` | the invoice a user submits and its totals | both |
| `CheckDraft` | the checks before anything is generated | `Draft` |
| `Cii` | the XML, written and read back | `Draft` |
| `PdfPage` | where rows and notes fall, and the amounts printed | `Draft` |
| `InvoiceForm` | the form, its preview and what it submits | `Draft` |
| `Arithmetic` | the arithmetic checks of a document read | `Cii` |
| `Report` | the engine's report and the catalogue that explains it | |
| `Analysis` | the verdict on a file | `Arithmetic`, `Report` |
| `ResultPage` | the page of a result and its text report | `Analysis` |
| `Documents` | a draft or a file followed to its end | `CheckDraft`, `ResultPage`, `PdfPage`, `InvoiceForm` |
| `…Proofs` | theorems of the module they extend (`AccessProofs`: of `Accounts` and `UserAdmin`; `PdpProofs`: of `StatusSync` and of `Pdp`) | |
| `FoldLemmas` | what the proofs need of induction, folds and filtered lists | `Selection` |
| `MC…` | instances for TLC | |

A definition named "Mutation" in a comment is a slip that the code does not
make, kept beside the definition it would replace. With it, the property listed
beside it under `mutants` fails: each property is one that a plausible edit of
the code would break.

### TransmissionQueue

Variables: the three tables and `active` (`PdpStore`), `held` (the documents each
platform has accepted), and what each process carries in memory between two
statements: `enq` (what an enqueue has read), `todo` (the candidates a sweep has
still to enqueue), `batch` and `run` (rows claimed, and the row being attempted,
with the attempt count each was claimed with), `outcome`, and `retrying` (a row a
retry has read).

A handler is cut where other processes can come between:

- `enqueue` is its reads (one action) and its transaction. Its reads are of the
  invoice, of the connection and of an existing row. They are one action because
  the transaction's unique key decides about a row that appears afterwards, and
  nobody but an enqueue takes an invoice out of `VALIDATED`.
- `drain` is `claim` (one statement with `FOR UPDATE SKIP LOCKED`), then for each
  row the platform's answer and the transaction that records it. An attempt may
  be accepted, accepted with the answer lost, refused, or find its connection
  impossible to resolve.
- `recordSent` is one action. Its first statement updates the row, whose lock holds
  off another `recordSent`; before the first one commits no status can match the row,
  so that nothing else moves the invoice between its read and its write; and once it
  has, `advanceState` finds nothing more to write for a deposit.
- `recordFailure` counts from the row as it was *claimed*, not as it is.
- `retry` is its read and its write, as in the code.
- a process may crash: its memory is lost and the rows keep its claim.

Time is reduced to what the claim query asks: `due` (has `nextAttemptAt` passed)
and `stale` (is the claim older than the lease). `BackoffElapses` and
`LeaseExpires` turn them. The code has a lease of five minutes over a batch of ten
network calls, and nothing enforces it: a lease may expire at any moment under a
worker that is still at it. `overrun`, which no action reads, is the memory of that:
the rows that a worker has in hand although a claim on them lapsed, or was cleared by
a retry, under a worker (`ClaimEnds`), until nobody has them in hand (`RowsPutDown`).

### StatusSync and Pdp

A poll is: the read of the connection with its cursor, the fetch, then for each
update in order of time the match and a transaction, and the write of the cursor.
The transaction is two actions. Its insertion into the timeline comes first and
makes another poll that inserts the same status wait; its read of the invoice may
be followed by another poll's write, which READ COMMITTED does not prevent.
Platforms report what they like of a document they hold, with their own
timestamps, in any order and at any time from the moment they hold it; a platform
gives one instant to one report. Any number of polls, of the timer or of webhooks,
may overlap, and a poll may be cut short anywhere. A report remembers whether it came
`late` (behind a timestamp its platform had already reported) or `early` (before
`recordSent` had stored the identifier of its row), and `contended` the invoices that
two transactions have had open at once; no action reads these.

`Pdp` interleaves both halves over the same variables: a step of one leaves what
processes of the other remember alone, and nothing else.

### Reception

A reception is: the refusals (unreadable, addressed to nobody we know), the look
for the same bytes already received by the same business, the insertion of the
invoice, the write to the store, and the commit that makes invoice and archive
entry visible. An insertion waits for an open transaction that has inserted the
same (business, supplier, number), and is refused if one is committed: that is
the partial unique index, which leaves out invoices that name no supplier. Bytes
that are in the store stay there when a transaction is rolled back. `pollInbound`
receives what it has fetched in order of `receivedAt`; whether `receive` returns
or throws, the document is acknowledged and the watermark moves, as in the code.
`thrown`, which no action reads, remembers what a reception of a poll has thrown at:
the documents the code counts as rejected.

`BuyerOf` stands for `routeToClientOrg`, a pure function of the document and of
the tenant's businesses, which the model keeps as they are. The cold start looks
back by a fixed window; the model begins inside it.

### Accounts and UserAdmin

Every statement a request sends to the database is an action, and `req` is what
the request has read: `Resolve` then `Touch` for a request under a session;
`SignInReads`, `Rehash`, `SignInOpens`; `RegisterReads`, `RegisterCommits`;
`RequestReset` (which supersedes the earlier links) then `CreateLink`;
`SetChecks`, `consumeCredentialToken`, `SetWrites`, `ChangeRevokes`. Any request
may die between two of them. `UserAdmin` adds the creation of a user with its
invitation, and `update`: `EditReads` (the account, and what is refused at once),
`EditCounts` (the other owners, when one may be lost), `EditReplaces` (its transaction
deletes the assignments there are) and `EditWrites` (it inserts, updates and commits,
or is rolled back where an assignment it inserts is there again). Nothing keeps
edits apart: any number of requests edit, one account or several, each on what it has
read, and a deletion does not see what another transaction inserts after it (`left`).
`since` remembers whose edits were written since one has read, and no action reads it.
The clock is coarse: a request ends within the unit it began in. A
password's hash is the password, and whether its parameters are current.

What a behaviour has to remember for a property to be stated is kept in the rows
and never read by an action: how many passwords a link has set, the last use of a
session, and the change of password or account after which it was opened.

### Issuance

An issuance is judged (`IssueJudged`: the business in the caller's scope, its
address and identifiers, the checks of the draft, the engine on one rendition),
then runs a transaction: `Insert`, `seal` of the PDF, `seal` of the XML,
`CommitInvoice`. What is inserted is seen by nobody but the unique index, for
which another issuance under the same number waits. The bytes of a rendition go
to the store before their entry and stay there after a rollback, and may be
spoilt there (`Spoil`, not in the moment a transaction that has put them is about
to commit) before the same bytes are sealed again: `put` compares what it finds
with what it was given. The PDF carries the time of its issuance, the XML
does not, so that a repeated issuance meets the XML of the first. `Connect`,
`Receive` and `Transmit` move only what the overview counts. `list`, `opens`,
`download`, `detail` and the overview are operators of a caller; `Callers` are an
owner or an accountant and a client user scoped to one business.

### Documents

The modules from `Money` to `Analysis` are pure: operators with the names of the
functions they stand for, of which only the control is kept. An amount is an
unscaled integer with its scale, and its text a record of sign, digits before the
point and digits after it, so that what is lost by a conversion is lost in the
model. A text is absent, empty, blank or filled. An identifier is a sequence of
digits, letters and separators, and its keys are computed.

`Documents` makes a behaviour of them: a draft is typed in the form or submitted
to the API; refused, or generated as XML and page; given to the engine, which may
fail in each of the ways the client tells apart; issued or cancelled; and what was
issued may come back with an amount changed by a cent, or with a line left out of
its total. Or a file of any kind is submitted and the engine answers anything.
The engine is external: of our own document it applies the rules of EN 16931 named
in `BrokenRules`, written there from cents and not from `computeInvoice`, so that
it is a second definition of what the code computes.

`InvoiceForm` keeps rows of texts, applies the `Patches` a user may make one at a
time, previews at each step, and submits parallel arrays of the fields that are
rendered, as a browser does. `PdfPage` has the pen of `pdf.ts`: the heights of
rows, of the totals and of the foot, and the decision to begin a page. A row may be
higher than a sheet (`TooHigh`). `ResultPage`
is what a reader is given of an analysis, on the page and in the report: each
groups the findings for itself, and `ReadAsJudged` holds both to the verdict, to the
counts, to each other and to the document itself.

### RateLimit

`checkRateLimit` is synchronous and so one action per caller: it sweeps if a sweep
is due, refills the bucket of the key, takes a token or refuses with a delay.
Tokens are counted in `PARTS` so that a second refills a whole number of them.

## 3. What is checked

Passing runs:

| Run | Question | Bounds |
|---|---|---|
| `queue` | Is the inductive invariant true; are deliveries, the timeline and the invoice right; what is a claim good for, and what takes a row back from SENT; does the queue implement `Handover`? | 1 invoice, 2 connections, 2 workers, 1 request, 2 attempts, 1 crash, 1 retry, 2 switches |
| `queue_settles` | Does every invoice settle? | 2 invoices of the same bytes, 2 connections (one cannot be resolved), 2 workers, batches of 2, 1 attempt, 1 crash |
| `sync` | Are statuses attached to the right invoice, and is every one reported in turn recorded in the end? | 2 invoices, 2 connections whose identifiers clash, 2 polls, 1 code, timestamps to 2 in any order, 1 poll cut short |
| `pdp` | Where reports come in any order, before and after the attempt is recorded, and a second worker re-sends the row: does the cursor skip nothing that was reported in turn, does the state show the furthest point, does the whole implement `Handover`? | 1 invoice, 1 connection, 2 workers, 2 polls, 2 codes, timestamps to 2, leases that expire at will, 1 poll cut short |
| `reception` | Is the inductive invariant true; is everything that was acknowledged or passed filed or rejected on an error, nothing filed twice, everything dealt with in the end? | 3 documents (one issued by another business of the tenant, one unreadable under its number, one addressed to nobody), 1 upload, 2 polls, timestamps to 2, 1 reception that throws, 1 poll cut short |
| `documents` | Does what the checks accept conform, do the checks on a document read agree with the engine, do rows keep clear of the foot, is nothing said to conform that does not, is it shown as it was found, do numbers agree, are slips caught, is what was shown what is issued? | drafts that differ from a plain one by one or two things, and one that fills a sheet; rows of 1 and of 32 lines of text; every form of file with every kind of report; a form of 2 rows |
| `accounts` | Do sessions slide as they should, does a link set one password, does a change of password end older sessions? | 1 user, 2 requests, 2 sessions, 2 links, 2 passwords, ages of 3 and 4, touch every 1, links of 1 and 2, 4 units of time |
| `user_admin` | Are assignments the tenant's own; does only a race of edits lose the last owner, or leave assignments where they do not belong? | 2 users (one founder), 1 business of the tenant and 1 of another, 7 edits, 2 requests at once |
| `issuance` | Is a number issued once, is what is issued retrievable as it was, do overview and pages agree? | 2 businesses, 2 callers (one scoped), 1 draft and number, 2 invoices, 2 requests, 2 faults; one of the businesses connects and leaves |
| `rate_limit` | Is a burst capped, and is the announced wait kept? | 1 client, 3 limiters of capacities 2, 3, 1 and refills 3, 2, 1 of 6 parts, a sweep every 4, 9 seconds |

The bounds are the least that show the hazards: two workers are what a race for a
claim takes, and a third would only repeat the second; two attempts tell a retry
from the ceiling; two platforms tell a switch; two codes of different rank,
`MISE_A_DISPOSITION` and `REFUSEE`, tell an order of statuses; two timestamps tell
before the cursor from behind it; a session's age must be more than two touch
intervals and less than its absolute age; two links and two requests make both
races, of one link and of two; three limiters of different size, two of them over
one bucket, are what a sweep can confuse. The drafts of `documents` vary one
feature at a time (a rate, half a cent, a negative line, a category, a missing
mention, a number), and two where the code relates two (SIREN and VAT number,
allowance and rate, many rows and many notes). The counters that bound crashes,
retries, switches, cuts, edits and time are named in the modules and appear only
in the guards of what they count. Symmetry is used only where no liveness is
checked.

Deadlock is checked where the system always can go on: the queue, the poller, both
together, reception and the limiter (which at its horizon still serves). It is not
in `documents`, where a behaviour follows one draft to its end, and in `accounts`,
`user_admin` and `issuance`, where identifiers and time run out.

Runs that show a disagreement, each with one property that TLC finds violated
(`findings` quotes what the repository says):

| Run | What happens |
|---|---|
| `inbound_lost` | A database or archive failure during a reception is taken for the document's fault: the invoice is acknowledged and lost. |
| `zero_rated` | The field of a zero-rated row's rate is not submitted: the rates of the rows after it move up by one and the last row has none. |

Others were met while modelling, and are described in section 6. A property of a
passing run says how far the code goes where one of them shows its limit: `SentIsFinal`
and `ExclusiveRun` name what ends a claim, `CursorSkipsNothing` and `EveryStatusRecorded`
are about reports in turn (`OutOfTurn`), `StateIsFurthestPoint` leaves out an invoice that
two polls have had open at once after a report out of turn, `PassedIsFiled` what was
rejected, and `LastOwnerFallsToARace` and `StrayAssignmentsFollowARace` name the race.
These are conditions on what has happened in a behaviour, which every behaviour of the
model is free to meet or not: no run excludes the other case. Without its condition
each of them is violated in the same run.

### Fairness

`FairSpec` of the queue: every step of a worker that has something to do, and the
passing of time (`BackoffElapses`, `LeaseExpires`). The worker reschedules both its
cycles in a `finally`, whatever happened (`pdp.worker.ts` 88–109), and the process
is restarted when it dies. Requests, crashes, switches and the platform's answer
are never fair; answers may be lost at every attempt, and then the ceiling parks
the row. `FairSyncSpec`: the steps of each poll. `FairSpec` of `Reception`: the
steps of polls and of requests that have begun, and strong fairness of an
insertion that waits for another transaction, since Postgres serves waiters in
the order of their arrival: with weak fairness alone, uploads that begin and fail
for ever would keep a poll waiting. The other modules state no liveness: nothing in
their code runs by itself.

## 4. What is proved

Every theorem is for any sets and any limits, from the named assumptions on
constants of the modules and those stated here.

**The queue** (`TransmissionQueueProofs`), with leases that expire under a running
worker, crashes, retries and switches at will. The argument is one inductive
invariant:

    QueueInv = TypeOK, KeysAreUnique, HeldThroughRow, WorkInHand, StateIsOutbox,
               SentIsBacked, ShownIsHeld, PendingHasAttemptsLeft

`SentIsBacked` is what one wants (a SENT row is backed by the platform, the
identifier, the timeline and the invoice), and is not inductive by itself.
`recordSent` acts on what its worker remembers, so that `WorkInHand` must say that
a remembered acceptance is one the platform made for the row's connection;
`KeysAreUnique` that no other row shares the key; `ShownIsHeld` and `HeldThroughRow`
that what is shown and held goes back to a row; `StateIsOutbox` that a late enqueue
finds the invoice as it read it. From it: `OneDelivery`, `SentBacked`, `Outbox`,
`AttemptsLeft`, the action property `NeverRegresses`, and `Refinement`: every step of
the queue is a step of `Handover` or a stutter. `RunsExclusive` and `SentStays` rest on
`LeaseInv`: a row in hand that is not overrun is PENDING and claimed by the worker that
has it, once, and its claim is not stale; so no other claim finds it, and no failure
recorded for it finds it SENT. A row stays overrun for as long as a worker has it in
hand (`OverrunKept`), so that what was overrun comes back to the rule once it is let go.

**The poller** (`PdpProofs`). `TypeInv` carries the attribution: a row bears
the identifier its platform gave to its key, an update the key it is of, so that
matching by connection and identifier finds the right invoice although identifiers
clash (`Attributed`). `CursorInv` says that a connection's cursor, and the watermark of
every poll under way, have behind them only what is on a timeline, in that poll's hands,
or was reported out of turn, and that both are times of reports: what is reported behind
one is `late` for that reason, and what was not `early` has a row to match. Hence
`CursorLags`, although polls overwrite each other's cursor. `FurthestPoint` needs
`WriterInv`: no two open transactions insert one status, and an invoice that two have
not had open at once is in one at most, which has read the state it still has.
`OneWriterInTurn` says when that can fail (`WritersTakeTurns`): each poll walks in the
order of time, so that of two polls with updates of one invoice the earlier status is
on the timeline, unless one of them came out of turn. So the lost update that READ
COMMITTED allows takes a report out of turn (section 6). `RowsSuffice` says that there
are identifiers enough for the rows.

**Queue and poller** (`PdpProofs`). `PdpInv` joins `QueueInv`, the poller's `TypeInv`,
`FeedIsHeld` (platforms report on what they hold) and `FoundSentIsBacked`: a row that a
poll once read as SENT is backed whatever became of it since, so that the
acknowledgement it writes later over a retried row is of a delivery. The work is that
each half keeps the other's invariant; `PollWrites` says once what a poll changes of
the queue's tables. Then `PolledOneDelivery`, `PolledSentBacked`, `PolledAttributed`, and
`PolledRefinement`: both together implement `Handover`. `PolledCursorLags` and
`PolledFurthestPoint` carry `CursorInv` and `WriterInv` over the queue's steps: a row never
loses its identifier (`RecordedLasts`), and `recordSent` adds a deposit and moves an
invoice only before any status of it can have matched (`QueueFurthest`).

**Reception** (`ReceptionProofs`), in two halves. `FilingInv` is inductive with no
further assumption, whatever fails: an open transaction has its number to itself
(`ReceptionsInHand`), hence `OneInvoiceEach`; and its bytes are in the store before it
commits, hence `BytesBehindRows`. `PollInv` is inductive with it, whatever throws and
however many documents bear one number: what a poll has still to receive is
all that separates its watermark from what is filed or rejected (`PollsInHand`), and
cursors are instants of what has arrived, so that nothing arrives behind them
(`CursorsLag`); hence `NothingPassedOver`. That something *is* rejected that could have
been filed is what `inbound_lost` shows.

**Accounts and administration** (`AccessProofs`), of `AdminSpec`, whose steps include
all of `Accounts`. `WindowInv`: a session expires its age after it was last written or
at its end, and was last used within a touch interval of that (`SessionsSlide`).
`LinkInv`: between its consumption and the password, a link is spent, has set none and
is in one hand (`OnePasswordEach`). `ChangeInv`: no session outlives a change that has
run to its end, and who is about to revoke does so for a change there has been
(`ChangesEnd`). `RaceInv` is of edits that overlap at will: one that may take an owner away
leaves another, unless an edit of the tenant was written since it read; one that no
other edit of its user has overtaken assigns what goes with the role and nothing
beside it; and what an edit inserts, or has not seen to delete, is the tenant's own.
Hence `WithinTheTenant`, `LastOwnerLost` and `StraysFollowARace`.

**Issuance** (`IssuanceProofs`). `NumberInv`: the number of an open transaction is on no
issued invoice and in no other open transaction (`NumberOnce`). `StoreInv`: what an open
transaction has sealed is in the store, unspoilt (`IssuedSealed`, an action property).
`OverviewAgrees` is about sums: a state of `OverviewInv` has finitely many businesses,
invoices and connections, so that each count of the overview is a sum over the
businesses seen, and equals what one business counts of itself.

**The rate limiter** (`RateLimitProofs`), for any capacities, refills and clients.
`BurstInv` follows a key between two sweeps: what it was let in for since any of its
grants, and what its bucket still holds, is never more than a full bucket of the
largest limiter that shares the key and what the fastest refills in that time
(`BurstCapped`). `PromiseInv` follows what a refused client was told: at the instant
promised its bucket has a token, or was forgotten by a sweep, which leaves the client
a full one (`RetryKept`). The products of a pace and a time are opened in lemmas of
their own, from which the steps follow by linear arithmetic.

**Documents** (`DocumentsProofs`), for every draft, file, form and answer, of any
length.

- `NothingPassesFalsely`. `JudgedInv` says that the analysis in hand is the one made of
  some file and of the answer in hand; the work is in `analyze`, and in what filtering
  and concatenating lists of findings keep. It assumes `UploadsNameStylesheets`: a message
  that bears a BR-DEC identifier names its stylesheet. The engine's reports do; where one
  did not, the code would let it pass (section 6).
- `PreviewIssued`. Preview and issuance both call `computeInvoice`, of two drafts: one
  of the rows that have a price, with commas turned into points, the other of parallel
  arrays. `GeneratedInv` says that what was generated is of a draft from elsewhere,
  the form being as it opens, or of what the form submits. In a form that the server
  accepts each row has its own rate, since one at no rate would leave the last row
  without (`AllSubmitted`), and each is in the preview (`AllUsable`); and the totals depend
  on nothing of a line but its quantity, price, category and rate (`SameTotals`).
- `AcceptedDraftsConform`. Four definitions meet: what `checkDraft` lets through, what
  `computeInvoice` makes of it, what `serialiseCii` writes, and what the engine asks, in
  cents. Amounts of any scale become money when they are rescaled (`RescaledTyped`, by
  `PowersOfTen`), totals folded from left to right are sums over positions (`TotalAdds`),
  the lines of a group are those at the places that its key chooses (`GroupAddsUp`), each
  line has one group (`OneGroupEach`), and VAT rounded by moving the point is VAT rounded
  on cents (`VatRounds`). `GeneratedInv` adds that what was generated had passed, `FormRead`
  that the form holds amounts only where it expects them. It assumes `InputsRead`: a text of
  an amount reads as a decimal, as none or as unreadable; and `RatesKept`: no rate is so
  small that two decimals write it 0.00, for which the property is false (section 6).
- `ChecksFollowEngine`, `OmittedLinesSuspected`. What is written of money is read again as
  it was (`ReadAgain`), so each check of the code compares the cents that the engine's
  rule compares (`TotalsReadAgain`, `VatReadAgain`), and the missing amount is that of the
  lines pointed at (`SuspectsReadAgain`). `ReadableDocument` says what a document needs for
  that: lines, groups and totals that are money at two decimals. What is generated is
  one (`GeneratedReadable`), and stays one with an amount changed or a line left out
  (`AlteredReadable`, `OmittedReadable`). `DocumentInv` adds that the analysis in hand is
  that of the document in hand, and that the one left in hand by a line left out is
  the generated one but for that. They assume `InputsRead`, and `NothingIsNone`: the values
  that stand for no document, and for one that cannot be read, are not among the
  records of the model.
- `ShownAsJudged`, from the same two invariants. The findings that apply are sorted
  before they are shown: `sorted` says where each comes by how many come before it, and
  `SortedPermutes` that this is a permutation, in order and stable. So the groups of the
  page, selected from the sorted list, are as long as the counts, made of the unsorted
  one (`AsMany`), and together as long as the list (`EachIsCounted`); of each severity the
  report selects what the page selects. It assumes `InputsRead` and `NothingIsNone`.
- `GeneratedNumbersAgree`. A VAT number is derived from the SIREN that is written beside
  it (`VatMade`), or was typed, and then `checkVatId` compared it with that SIREN
  (`CheckedVat`), whichever of SIRET and SIREN was typed and with whatever separators
  (`StripIsPlain`). The key is a remainder by 97 taken digit after digit (`Reduces`), which
  keeps it on two digits (`KeyTyped`). It assumes `InputsRead`, and `PartiesRead`: numbers
  are lists of symbols, and a SIREN that is stated is not the empty one
  (`issue-invoice.dto.ts` 69, `client-orgs.controller.ts` 285).
- `EverySlipCaught`, from the same. A digit weighs more or less than any other at its place,
  doubled or not (`WeighsOther`), and Luhn's sum changes by that and by less than ten
  (`SumChanged`, `LuhnSlip`). La Poste's SIREN has a branch of its own in the code but a
  valid key as well (`LaPosteKeyed`), so that it is one slip from no other. The remainder
  by 97 of two accounts that differ at one place differs there (`DigitsApart`) and
  at every place after it (`CarriesApart`, since 10 and 100 are prime to 97), also once
  the first four symbols are turned to the end (`SlipBefore`, `SlipAfter`). A slip in the
  SIREN inside a VAT number is caught by Luhn, one in its key by the comparison.
- `RowsClearOfFoot`. The pen goes down a list of lines of any length, and of any height:
  `RowsKept` is what holds of the page after the first of them, `RowClear` what it says
  of each row drawn, and `LeftFoldFollows` carries it to the last. A row that has room on
  a sheet is drawn where it fits, on the sheet it is on or at the head of the next; one
  that has not starts a sheet and runs over its foot (section 6).

**Induction** (`FoldLemmas`). The library's principles take a predicate, which no
installed prover can instantiate. They are proved again here of *sets*: what holds of
zero and passes to the next holds of all numbers (`Climb`), from the well-foundedness
of `<`, which the library states of a relation; from it that the recursion of a fold
has a solution (`FoldExists`, `LeftFoldFollows`), what is in a filtered list and in
what order, and that a sum over a finite set does not depend on the order in which
`CHOOSE` takes its elements (`SumsExist`, `SumTaken`, `SumOfImage`). `Selection` defines `filter` by a recursive function for that reason:
`SelectSeq` of the standard modules is defined by one that no fact is known of.

Only model-checked: liveness (`EveryInvoiceSettles`, `EveryStatusRecorded`,
`EveryInboundFiled`), which TLAPS cannot prove here. Every invariant and every action
property of the passing runs is a theorem.

The assumptions on constants that these theorems use say what may be submitted, and
TLC evaluates them on the instances: `UploadsAssumption` (a report has lists of
messages, and a finite set of assertions), `DraftsAssumption` and `HeaderAssumption` (a
draft and a form's header have lists of lines and of notes), and, of `Issuance`, that no
business is called `None`.

## 5. What is left out

Of what is modelled: the audit log, labels and messages; times beyond their order. A
code that is not in the table is one value, `OTHER`: it is appended like any other and
moves no state. Backoff
delays are an order only. `Unresolvable` connections stay so, and businesses are not
archived during a run. A password is not guessed, nor a token. In documents: texts
are filled or not; a form's fields that the browser requires are filled before it
submits; standard rates have two decimals; fonts, colours and the width of texts (a row is one line high or `LongRows`
high); the second line of an address, which a party's block prints; the last key by which
findings are sorted, the text of their location; separators beyond the spaces, dots, dashes
and commas that a typed number or amount may hold; the container of the PDF. In the limiter the clock never steps back.

Not modelled, and why:

- *Mail*, *pages other than the form and the result*, *billing*, *build*: text, queries
  or nothing; no state of their own. The pages show what the API returns, and their operations
  are those of the API.
- *Connection settings beyond the queue's view* (stored credentials, the verdict of
  `verify`): one row written by single statements; the one race it has is described
  below.
- *The encryption of credentials*, *the comparison of webhook tokens*, *password
  hashing*: cryptography; what the system does with its outcome is modelled.
- *The text of the rule catalogue*: which rules have an entry matters, and is modelled;
  what the entries say does not.
- *The validation engine itself*: a Java service around a library.
- *Audit entries, stored analyses and the waiting list*: written once, read by lists.

## 6. Observations

Met while modelling, and no run is about them unless one is named.

Queue and polling:

- A retry takes the claim off a row that a worker is running
  (`transmission.service.ts` 568): a second worker runs it too, as when a lease ends
  (289), where the head of the file (27) says that "two workers cannot run one row at
  the same time". The platform's idempotency prevents a second delivery
  (`DeliveredOnce` holds in `queue`, with the same retry). `recordSent`, `recordFailure`
  (503) and `retry` write a row by its id: a retry that has read the row before
  `recordSent` writes PENDING over SENT, and so does the late failure of another worker; the
  document is handed over again under its key (`SentIsFinal`). In the same way a row closed
  by a status leaves ACKNOWLEDGED, when of two workers that run it one records its
  outcome after the status: "Once the receiving side has it, our handover is complete"
  (`pdp-sync.service.ts` 226) does not hold of it.
- A status fetched before the identifier is stored is dropped for good, although, against
  `pdp-sync.service.ts` 166 ("An unmatched status will never match on a re-read either"), it
  would match a moment later. So is one that a platform publishes with a timestamp behind
  the cursor, where `lifecycle.ts` (177) says that "every status is appended, including the
  late one". Two polls that apply two statuses of one invoice, fetched out of turn, each
  on the state it has read (217), may leave the lesser one.
  The sandbox adapter queues its first status inside `transmit`, before `recordSent`. What
  the previous platform reports after a switch is never read (75).
- A row stays with the connection it was queued for, and is sent through it although
  the connection has been deactivated. A connection that cannot be resolved is retried
  until its attempts are spent, where the comment in `recordFailure` says that it is
  parked at once. A poll whose statuses fail does not get to its inbound half.
- `verify` (`pdp.controller.ts` 205–232) reads a connection, calls the platform with its
  credentials and stores the verdict by id: an edit in between, which has stored others
  and reset the verdict (183–184: "Leaving a stale "ok" on screen after an edit is worse
  than showing nothing"), is shown as verified. An edit that omits `apiBaseUrl` sets it
  to null and keeps the verdict. A successful poll clears a verification's error.
- The connection form says of each credential "Laissez vide pour conserver la valeur
  enregistrée" (`ConnectionForm.tsx` 34), and `raccordements/actions.ts` (27) leaves the
  blank ones out; the API stores the set it is sent in place of the former one, so that
  of an adapter with two credentials the one left blank is lost.
- The debounce of the webhook reads and stamps in two statements; two notices may both
  start a poll, which the poller withstands.

Reception, issuance and businesses:

- An upload and a poll may both file a document that names no supplier
  (`reception.service.ts` 177: the index leaves those out). A second document under a
  supplier's number is refused by the index and, when it comes by a poll, acknowledged
  and dropped with a line in the log.
- Bytes spoilt in the store by an issuance that was rolled back make the same XML
  impossible to seal: issuing that draft again fails each time. A client that repeats an
  issuance whose answer was lost is told that the number is taken.
- `archivedAt` is read by the lists and never written; the page of a business does not
  filter on it.

Accounts:

- The rehash at sign-in (`accounts.ts` 161) may be written over a password set since, and
  the former one opens again. A sign-in under way opens a session after a reset has
  revoked them all. Two requests for a link at once leave two live ones. A crash between
  consumption and password (`password-reset.ts` 123) spends the link for nothing.
- Two edits at once may leave a tenant without an enabled owner, each counting the owner
  that the other demotes, and assignments on an account whose role has none, inserted
  after a promotion has dropped those it saw: `update` reads and counts in statements of
  their own (`users.controller.ts` 224–237) and its transaction locks nothing that another
  would wait for. The head of the controller (8–11) says that these invariants "are
  enforced here rather than trusted".

Documents:

- A standard rate between 0.001 and 0.004 is written 0.00, which the engine refuses.
  Reasons for exemption are keyed on the rate as typed (`check-draft.ts` 308), so that 0
  and 0.00 may have one each.
- A VAT number given as an empty text suppresses the derived one; a SIREN beside a valid
  SIRET is not checked; the snapshot of a party in the database keeps the number as
  typed and not as derived.
- Blank payment terms satisfy the check that anticipates BR-CO-25. The page prints a unit
  price rounded to the cent.
- The mandatory mentions are announced for the foot of every page (`pdf.ts` 443), which
  is given the notes of the draft only; a draft may bear twenty notes (DTO) where the foot
  (70) has room for about seven.
- What is printed below the totals is not in the height that decides about a new page
  (`pdf.ts` 400): two reasons for exemption, an account and terms at the end of a full
  sheet go over the mentions, for which the foot is "kept clear" (70).
- A row moves to a new page when it does not fit (`pdf.ts` 332) and is drawn there
  whatever its height: one of more than 29 rows of text and as many of description runs over
  the foot and off the sheet, and the mentions are printed over it.
- A suspect line with neither identifier nor name is called by its place among the
  suspects (`checks.ts` 313–315), not by its place in the document.
- A file that only rules of XRechnung invalidate is said not to conform with no error
  shown. The rules on decimals, BR-DEC, are not German, but begin with the letters
  that `report.ts` (90) takes for German where a message does not name its stylesheet.
- The form prints beside a row the amount at the row's place in the preview, whose lines
  are the priced rows only, and normalises commas in the preview only: the server refuses
  what the preview has shown. No row in the form has a country of delivery, so that an
  intra-community supply cannot be issued from it.
- The key of La Poste's establishments (`identifiers.ts`) is a sum by five and misses a
  slip of five in one digit; a VAT key that holds a letter is not checked at all, only the
  SIREN after it. `SlipsAreCaught` leaves both out.

Rate limiting:

- The sweep (`rate-limit.ts` 68–76) uses the capacity and refill of whoever calls, on the
  buckets of all: "Buckets are evicted once full again" (64) is true of the caller's own
  limiter. A bucket of a slower or larger one is forgotten before it is full, so that
  `BurstIsCapped` is stated between sweeps.
