# DFMS in TLA+

DFMS is the server of a depot for fuel in transit: it receives fuel from vessels,
keeps each customer's stock as a ledger, orders trucks to be loaded at an automated
gantry (ALMA), bills storage and throughput, and puts every paper that changes stock
through an approval chain. It is one Go process (Fiber, GORM, SQL Server) with a web
console (Next.js, `web`). This directory models its core logic in TLA+, checks the models with TLC on
small instances, and proves what matters most for every instance with TLAPS.

Paths below are relative to the repository root (`internal/...`, `apps/...`, `web/...`). How to run: `tlc -config X.cfg M` for a row of the table of runs,
`tlapm M.tla` for a module of proofs.

## 1. The system

### Components, their state, operations and interactions

**Approval engine** (`internal/workflow`). State: `Process`, `Node`, `Edge` (the chain of
steps, with a quorum and an operator role each), `ProcessInstance`, `Task`, `Event`,
`ApprovalSubstitute`. Operations: `Initiate`, `Act` (agree, reject total or soft, transfer,
back), `ReplaceApprovalSteps`, `SetInitiatorPool`, `SetSubstitute`. Called by the submit
handlers and the inbox; calls the hook of the document module (`OnComplete`, `OnReject`,
`OnResubmit`) inside its own transaction. Hard: requests run on their own goroutines and
read with plain SELECTs; the chain may be edited under documents in flight; a soft reject
leaves and re-enters the chain. Correct when: a decision is taken once; inboxes show
exactly what can be acted on; the document's status shows the decision; no vote is
skipped; an amended document resumes where it left.

**Submit handlers and hooks** (`apps/*/router.go`, `*/hooks.go`). Each document module
writes `submitted` first and starts the approval in a second transaction, and translates
the hook calls to a status column, in three families that differ in what a soft reject
and a resubmission write. Correct when the column and the instance agree.

**Notification outbox** (`internal/notify/outbox.go`). State: `MailOutbox` rows. Operations:
`Enqueue`, `Drain` (select a batch, claim under a lease, send, record), started by a cron
job every minute and by `KickDrain` after every enqueue. Hard: overlapping drains with
stale clocks and stale counts, lost outcomes. Correct when a message is sent by one drain
at a time, once unless an outcome was lost, and in the end is sent or given up.

**Stock ledger** (`internal/inventory`). State: `StockMovement`, the snapshots
`StockBalance` and `StockDailyPosition`, reservations, receipts, transfers, zerolizations,
hold releases, inbound events. Operations: the `Post*` functions the hooks call,
`ConvertProvisionToFinal`, `IngestEvent`, `RebuildSnapshots`, `ReserveTx`. Hard: documents
approved again, redelivered events, checks outside the transaction, snapshots kept by
increments. Correct when the snapshots equal a replay of the ledger, and the ledger
is explained by the approved documents, each counted once.

**Loading orders** (`internal/orders`). State: requests (ILR), their orders (ILO,
`GantryLoadingLine`), `Compartmentalization`, `OrderAmendment`. Operations: approval with
reservation, compartmentalization, completion by hand or by ALMA's result, four kinds of
amendment, the nightly `ExpireIlos`. It posts deliveries to the ledger, reserves and
releases stock, writes files to ALMA, and queues reports to the regulator. Hard: reads
before transactions, amendments that overlap loading and expiry, last-truck bookkeeping.
Correct when stock owed to trucks is reserved and released exactly, a loading is posted
once, and no order is left in limbo.

**ALMA exchange** (`internal/alma`). Order, cancellation and result files in shared
directories; a watcher takes results in.

**Sessions of the console** (`web/src/lib/api.ts`, `auth.tsx`, `idle.ts`,
`SessionTimeoutModal.tsx`; `apps/auth/session.go`, `token.go`, `authHandler.go`, `middleware`).
State: on the server the refresh row and when it was last seen; in the browser two cookies and
an expiry in localStorage, shared by all tabs; in each tab a token in memory, the time of the
last activity, the warning, a flag that the session was rejected. Operations: login, boot,
heartbeat, countdown and Continue, sign-out by hand or by the clock, renewal, retry after a
401. Hard: each tab and the server has a clock of its own, tabs share what one of them may
clear, timers of a frozen tab stop, messages are lost. Correct when an operator who works is
not thrown out, nobody is signed out by the clock unwarned, and a browser left alone ends
its session.

**Billing** (`internal/billing`, `apps/billing`). State: `BillingRun` rows, each a period of storage of
one receipt line, or of a parcel an in-tank transfer split off it. Operations: `RunFirstForReceiptTx`,
which the approval of a receipt calls, `RunDueNth`, which a nightly job and an operator's request call,
submission and approval of a run. It reads the stock ledger for what is left of a parcel.
Hard: `RunDueNth` has no transaction and checks for a run before it makes it, each run waits for
its predecessor's approval, transfers add parcels in the middle of a sequence. Correct when each
period of a parcel is billed once and in its turn, and a parcel on hand stays billed.

**Web pages** (`web/src/app/(dashboard)`). State of a page: the last load, the form, the busy
flags, an open dialog, the requests that are out. Operations: typing, buttons with one to
three requests each, loads that overwrite the form, dialogs. Hard: answers come in any order
while the user types and clicks; a form is saved by PUT without a version
(`apps/inventory/router.go:563`), so the screen may be older than the row. Correct when nothing
typed is lost, one form makes one document, what is submitted is what was shown, no button
stays dead, and the screen ends up showing the document.

Not modelled (all in PROJECT.json with the reason): **pump-overs**,
**EWURA/NPGIS queue**, **job scheduler**, **document numbering**, **drafting of requests**,
**physical stock** (planned, section 7, or arithmetic only); **integration settings**,
**mail and SMS transport**, **authentication** short of sessions (passwords, codes, roles,
permissions), **master data**, **Sage export**,
**attachments**, **reports and public pages**, **database set-up**, **shared libraries**,
**historical import**, **composition root** (I/O, layout, CRUD or wiring
without a protocol of their own). Of billing, the amounts, the fee cards and the KOJ, TBS and VSF runs.

## 2. The modules

| module | models | extends / used by |
|---|---|---|
| `Approval` | what the engine promises a document module: one open decision, each taken once, the effect of an approval applied in the step that approves | implemented by `Workflow` |
| `Workflow` | the engine with one document of one process; a submission is two transactions, every other request runs alone | |
| `WorkflowRace` | the same engine, every request being what it loads and then what it writes | extends `Workflow` |
| `Outbox` | rows and drains of the outbox, with time | |
| `StockLedger` | ledger, snapshots and the documents that post to them | |
| `LoadingOrders` | requests, orders, amendments, expiry, the gantry | |
| `Billing` | the runs of the fixed storage fee and the executions that make them | |
| `Session` | tabs of one browser and the session they share | |
| `Pages` | one page before one document, with a network and other users | extends `PageCatalogue` |
| `PageCatalogue` | all the pages | extends the four below |
| `StockPages`, `FinancePages`, `SetupPages`, `AccessPages` | what each page of a section does, as a record | extend `PageKinds` |
| `PageKinds` | the vocabulary of the records: servers, requests, buttons, pages | |
| `MC...` | small instances for TLC | extend the above |
| `FiniteSums` | sums over finite sets, in a form the provers can use | used by the proofs of `StockLedger` and `LoadingOrders` |
| `WorkflowProofs`, `OutboxProofs`, `StockLedgerProofs`, `LoadingOrdersProofs`, `BillingProofs`, `SessionProofs`, `PagesProofs` | theorems | extend the above and `TLAPS` |

### Workflow

`inst` is the document's last `ProcessInstance`; `pending[n]` the assignees of its pending
tasks at node `n` (the engine never reads a completed or skipped task, so those are not
kept); `seq`, `quorum`, `ops` the process definition; `active`, `pool`, `sub` the people;
`doc` the document's status column as the hooks write it; `used` the steps some instance,
task or event refers to, which `ReplaceApprovalSteps` must keep; `via`, `submitted` and
`approvals` are observations for the properties. `Init` starts from every chain, quorum,
staffing and pool, and picks one of `Families`: of its fields, `SoftStatus` is what `OnReject(total =
false)` writes (`returned` for price batches and billing runs, `rejected` for all the others),
`ResubmitMarks` whether `OnResubmit` writes anything (it is empty for transfers,
zerolizations, pump-overs and amendments), `SubmitGuarded` whether the submit handler
insists on a draft (loading requests only).

Two behaviours of the code that surprise and are modelled as they are: a transfer or
back may leave a quorum-all step that not everybody has heard (`QuorumAllHeard` speaks of
agrees), and may move a document off the draft node without `OnResubmit`. An acting user's
own IsActive flag is not looked at, nor are the tasks of somebody deactivated reassigned.

A submission is two transactions in the code, and two actions here: the handler writes `submitted`
(`MarkSubmitted`; the submitter is then in `asking`) and calls `Initiate` afterwards
(`InitiateSubmitted`), which is refused while an instance runs and may fail for any other reason
(`SubmissionFails`), the status staying as written. So a decided document may read submitted with nothing
behind it, which `renewed` says, and a submission may be overtaken by the approval of an
earlier one, which `crossed` says. Left out: that the status update fails and `Initiate` does
not (the handlers drop the error of the update).

`WorkflowRace` splits the other requests too: `Act` into `LoadForAct` and `CommitAct`, and the draft check
of a loading request (`CheckSubmittable`) from its status update (`MarkChecked`). A person has one
request out at a time, so that what races is two people. `pkg/db/connect.go` sets no isolation level and the engine no
lock hints, so under READ COMMITTED a request may write from rows another request has
since changed. What a request reads *after* its first write is ordered by the write locks
and is taken from the present state.

### Outbox

Times are relative to the present (`due` is NextAttemptAt minus now; `since` how long ago
a drain took its `now`), so time passes for ever in finitely many states: `due` stops
falling at `-MaxDrain` and `age` stops growing at `MaxAge + MaxDrain`, beyond which no
comparison of the code tells values apart. Every claim and record of a drain uses the `now` of its start,
as in the code. `seen` is the `Attempts` the drain selected, from which it later computes
the count it writes back. `Lose` covers what the code's panic recovery and ignored update
errors allow: an outcome never written. `overdue` counts for each row the times a drain had it in hand when
its lease was over, or claimed it when it already was, which is how the properties say whose fault a second
sender or copy is. Left out: the direct send `Enqueue` falls back to
when its insert fails.

### StockLedger

The ledger is a set of movements; `cause` and `run` (which completion of which document
posted it) make every row of the table one element. One product and one stock status; a
document has one line; contents of documents are constants, because no operation edits a
submitted document. Approval is `Submit`, `Reject`, `Complete`: `Workflow` has the rest, and
none of these submit handlers refuses a decided document, so the constant `Stories` says how
often each may be approved in the histories the run looks at (`Init` picks one). Releases and conversions check in one step and post in another, as the plain
reads of the code allow. `applyBalance` and `applyDaily` are atomic with the posting: their
UPDATE takes the row lock. The stock before the first document is `Imported`.

### LoadingOrders

One customer and product. `line`, `comp`, `amendment` are the rows, reduced to the columns
guards read; of an approval only whether its instance runs is kept, since the hooks check
nothing else. `opening`, `expiring` and an amendment `at = "read"` hold what a handler has
read before its transaction (`CreateCompartmentalization`, `ExpireIlos`,
`CreateAmendment`). `orders` and `results` are the files at the gantry, `inbound` the
order whose result the watcher has looked up and not yet posted. A cancellation leaves `orders` alone, because
the file it should write is never written (section 4). Dates are a flag
`due` that may rise for the orders in `Dated`. "replace" stands for the amendment kinds that
issue a new order (normal, quantity up or down, product: `ApplyAmendment` treats them alike, and the
product amendment leaves the product as it was); `cancel`, `extend`, `batchcancel` are themselves.
`Hold` and `Opening` are the customer's stock; `Free` is what `ReserveTx` compares with,
which no reservation lowers (finding 4). The rejection of a request is the final
one. Files are assumed to be configured (`AlmaRoot` set). `Init` picks one of `Scenes`, the requests
still to be decided, and `Amending` bounds which orders are amended.

### Billing

A day is a number, a period the days `from` to `to`. `there` are the parcels in force: lines of approved
receipts, and parcels split off them by `Transfer`, whose `effective` day a further transfer
moves. `empty` stands for what `remainingQty` adds up from the ledger. An execution of `RunDueNth`
(`job[j]`) reads the due runs at once (`StartNth`), then for one run after the other its parcels
(`ReadParcels`), for each of these whether a further run exists and stock is left (`CheckNth`), and
inserts (`CreateNth`); between any two steps others act, and `StopNth` is an error return or a
restart. The insert computes with the parcel as it was read. Runs are rows in the order of their
creation, which is the order `Find` returns them in. Of a run's status only whether it is approved is
kept: a rejected or returned one makes no successor, and `submitDoc` writes `submitted` over an
approved one. `overlapped` is an observation: two executions were once under way together.

### Session

Every variable that is a time is an age or a remainder in ticks, so that time passes for ever
in finitely many states: `row` is the age of the refresh row's LastSeen (`Dead` when too old,
replaced or deleted), `idle[t]` that of a tab's last activity, `touched[t]` that of its last
heartbeat; `cookie`, `mem[t]` and `stored` are what the access token has left in the cookie, in
the tab's memory and by localStorage. `cookie` and `stored` part when one tab signs out or an
answer is lost. `call[t]` is the one request a tab has out and how far it is: the request, the
refresh after a 401, the request again, and for Continue the refresh it asks for besides.

Actions of the user (`Login`, `Boot`, `CloseTab`, `Input`, `Work`, `Continue`, `SignOut`), of a
tab's quarter-second timer (`ShowWarning`, `WarnOnce`, `Expire`), of the server and the code that
takes its answer (`Grant...`, `Deny`, `Reuse`, `Renew`, `Refuse`), and `Lose`: the request, or its
answer after the server did what it was asked. `Tick` moves the clocks and lets the intervals
ask for what they ask (renewal, a list that polls, the hourly profile). It waits for the
requests that are out and for tabs that are awake to look at their clocks, since a request times
out, and a timer fires, in less than a tick. Refreshes of different tabs wait for one another
(`navigator.locks`), so each is one step. `vouched` and `slept` are observations for the
properties. Left out: a second browser, a login that revokes the others, a change of the idle
policy while a session lasts.

### Pages

A page is a record: the server behind it (in which status it accepts a save and a
submission, what a soft rejection leaves), how it opens, which fields take every load, and its
buttons. A button says which flag disables it, which its handler raises, in which statuses it is
offered, the requests it sends in order, and what the handler does once the last is answered:
reload, leave, close the dialog, adopt the answer, clear the form. The records follow the
`page.tsx` files one by one; pages that behave alike are equal records, and the definitions say
which files they stand for. Some pages pair buttons and flags oddly, and the records keep that: on
the fee pages Submit borrows the flag of Save, which goes down in the middle; in user
administration one flag serves all buttons; a few buttons wait for nothing.

The contents of a document are two parts, header and lines, and each part is a version number: 1
what the row held when the page opened, and every keystroke or computation of the server a
version nobody has seen before. So two versions are equal exactly when nothing happened in
between, which is all that the properties ask. `load` is the one load under way, since
`useAsync` drops all but the newest; `jobs` the clicks with the request each has out, its copy of the
form, and the answer; `doc` the row, its status and whether an approval runs. A submission
follows the Go handlers: the status is written first and the approval started second, so one that
is turned down has marked the document. `Trouble` bounds lost messages and colleagues' acts
together. `past` observes what was typed and not yet stored, how many rows a form made and why
that may be.

`past.owed` are the parts whose last typing is still to reach the server. What is typed into a part while
a load or a click is under way whose answer replaces that very part (`BeingReplaced`, `ThrowsAway`) does not
count among them: every page that reloads after a save loses it (section 4). What was typed before the click
does, whatever is asked for and answered afterwards. `StillRaised` are the flags a click has not
lowered yet, a borrowed one being lowered as soon as the borrowed save is through, and once.

The exceptions of the properties are pages, by name, and each is a behaviour of its file:
`Forgotten` (section 4), `SubmitsStored` (Submit sends nothing of the form, by design),
`Unrefreshed` (no reload after a save, or answers adopted out of order), `Sticks` (the
schedules tab). An effect of `loading/[id]/edit` that would reload lookups never runs
again after the first load, and is left out; so is how a list of a MI-loss batch looks between the click that
adds or removes an entry and the answer, and how it is put back when the request fails.

## 3. The runs

| run | instance | shows |
|---|---|---|
| `wf_status` | 2 interchangeable users, chains over 2 steps, the hooks of the billing documents or of the loading requests; 2 submissions which may overlap and fail half-way, or 1 and an administrative change at any moment | status and decision agree; refinement of `Approval`; inboxes, current step, quorum, resume point and resubmission stay consistent; loading requests are approved once and their rejection is final |
| `wf_race_post` | overlapping requests of 2 people on a loading request, 1 submission | *violation*: finding 1 |
| `ob_leases` | 2 messages, 2 drains, batch 2, whose second send may outlast the lease, 1 lost outcome | senders and copies accounted for, given up deservedly, settled for good |
| `ob_recovers` | 1 message, 3 attempts, 2 drains as slow as the lease, 2 lost outcomes | under fairness every message is sent or given up |
| `ob_overlap` | the first without losses | *violation*: finding 2 |
| `sl_stories` | four stories over 2 days: receipts (one on hold), 2 hold releases of it, a delivery and a zerolization, receipts and releases approved twice; 2 receipts, a conversion, 3 transfers there and back; a provision and its first final approved twice, a second final, a zerolization twice; a receipt approved three times around a transfer approved twice | snapshots equal a replay, stock explained by documents, nothing posted twice, conservation, billing parcels covered |
| `sl_closing` | 2 receipts on 2 days | *violation*: finding 3 |
| `lo_orders` | a request with 2 trucks, of 2 and 4 units, each measured as 3, or one with 1 truck and 2 amendments of its order, of any kind, to 1 unit; an order of each may expire | reservation exact, completion last, loading posted once, no order parked for good, results booked; expiry closes |
| `lo_promised` | 2 requests for more than there is | *violation*: finding 4 |
| `pg` | every page of the catalogue before one document; 2 clicks, 3 versions, 2 dialog visits, 1 lost message or act of a colleague | no form lost, doubled or stuck, submitted as shown, screen catches up, but on the pages named |
| `bi` | 1 line and 1 parcel split off it on either of two days, periods of 2 days in a calendar of 4, 2 executions that may overlap over the first 2 runs, 1 stop, 1 resubmission, stock of the line may run out and return | without overlap no period billed twice; each in its turn; a line on hand stays billed |
| `se` | 2 tabs, one that may be frozen and one whose messages may be lost at any time, idle limit 2 ticks, warning and heartbeat 1, access 3 | a live operator is heard, nobody signed out unwarned, an abandoned browser ends its session |

Why these bounds are enough to be interesting. Two steps are the fewest with a step
before, at and after the one that returns a document; two users the fewest with a
colleague and a substitute; the second submission shows what the first leaves behind. `Bounds` is a staircase, two submissions or one and an
edit: both at once is beyond a run, and an edit matters to an approval that is under way, of which one submission, with
its soft rejections and amendments, is enough. Two
drains suffice for every race on a row, since a row is claimed by one of them; two
messages give a batch in which the second is stale. Three transfers are needed for one to
give back what another took and a third to share a line already split. Two
amendments of one order are the fewest that overlap. In `lo_orders` the two scenes meet different guards,
since an amendment voids what is said of reservations; a measured 3 is more than the ordered 2, a negative remainder which the reservation
must clamp, and less than the ordered 4; and the stock of 7 lets the gantry draw all that is
measured. In `bi` two days of a period and four of the calendar
give a line a second and a third run, each held up as long as the one before it is not approved; a
transfer on day 3 or 4 comes before or after the second is made, and starts the parcel's own sequence
in the middle. Overlaps are bounded by `Crowd`, the number of runs there may be when a second
execution starts: it takes one to make a number twice. In `pg` two clicks are the fewest that
overlap, the third version is typed while the second is on its way, and a second visit of a
dialog meets what the first left; the pages do not interact, so the run takes them together only
to share one start-up. In `se` a limit of two ticks leaves one tick before the warning, one of warning, and a
heartbeat within each; the access token outlives a limit, as it does by default; with a
second tab, one can sign out, renew or warn behind the other's back. Messages may be lost without
bound, in one tab, and the other may be frozen, so that the two faults also meet. `CHECK_DEADLOCK FALSE` appears where documents,
submissions, clicks or orders simply run out or time only passes; the outbox runs check deadlock.

Every listed property has a mutant in PROJECT.json, a plausible slip in the code under which
TLC finds it violated in the same run; the mutants stand as `MUTANT of` operators before
the definition they change.

### Fairness

Four properties need it. `EventuallySettled` (Outbox): weak fairness of `Start` per drain
(the cron job fires every minute, whatever happened before), of `Deliver` per drain (a send
returns: the mail client times out after 30 s, the SMS client after 15 s, and what follows
is straight-line code), and of `Tick`. Nothing is assumed of `Enqueue`, `RecordLost` or `Abandon`.
`ExpiredOrdersClosed` (LoadingOrders): weak fairness of the two halves of the expiry job,
which the scheduler runs every night (`0 5 0 * * *`). Nothing is assumed of people, ALMA
or approvals. `StorageKeepsBilling` (Billing): weak fairness of `RunDueNth` taken together: the nightly job starts
whenever a run is due, and what is under way goes on or stops for another to start. Nothing is
assumed of days, approvals or operators.
`AbandonedEnds` (Session): strong fairness of `Tick` and of each tab's `Watch`, weak
fairness of `Answer`. Strong, because a request that is out disables them for a moment in the
model while in the browser time and timers go on beside it; they are never disabled for good,
as every request is answered or times out. Nothing is assumed of frozen tabs, which the
property leaves out.

## 4. Findings

1. `wf_race_post`. Two operators of the last step agree at once; each request loads the running
   instance and its own task before the other writes, and each completes the instance
   and runs `OnComplete`. The hooks of receipts and hold releases look for what they have posted and
   skip it; those of loading requests, transfers and zerolizations do not, and reserve or move twice.
2. `ob_overlap`. A drain leases every row of its batch from its own start. With 25 rows and
   30 s timeouts a batch may last 12.5 minutes against a lease of 5; later rows are then sent
   by two drains at once, and a late failure overwrites `Sent`. How much can go wrong is bounded:
   one more sender, and one more copy, for every lease outlived (`SendersAccounted`, `CopiesAccounted`).
3. `sl_closing`. `applyDaily` starts a day's row at that day's first movement and carries
   nothing over, although the model's comment and the reports read it as end-of-day book.
4. `lo_promised`. Reservations are written without the vessel, date and status under which
   `Balances` looks them up, so free stock is never lowered and approvals promise it twice.

Seen while modelling, without a run of their own, for the maintainers to judge:

- After a soft reject every document but a price batch or billing run reads `rejected`, not
  `returned`, and where `OnResubmit` is empty keeps reading so until approved.
- `Initiate` fails after the status was written: the document reads submitted with no approval under way. A
  loading request, no longer a draft, then cannot be submitted at all (`SubmissionFails`).
- The status is written before `Initiate` is asked, whatever it is. A second submission overtaken by the approval
  of the first opens a new instance under a document that reads approved (`crossed` in `DocumentShowsDecision`).
- Whether a loading request is a draft is tested on a row read before; two people may both pass the test, and the
  request is put up for approval again after its decision (`CheckSubmittable` and `MarkChecked` in `WorkflowRace`).
- A document can be left without any task: by a move to the draft node or to an unstaffed
  step, or by a soft reject when pool and creator are inactive
  (`StrandedOnlyByMoveOrDraft` says these are the only ways).
- An agree overlapping a total reject can post the effect of a document that reads
  rejected (`WorkflowRace` has the behaviour).
- Whether a provision has a final is counted before the transaction that creates one. Two overlapping
  conversions make two finals, and their approvals reverse the provision twice (a story of `sl_stories`).
- A hold release compares with a balance read without a lock, so two of them together may release more than is on hold.
- `PostReceipt` posts every line of the receipt without a movement, the lines transfers split off
  included: a receipt submitted and approved again books the receiver's share a second time (`DerivedLines`).
- A transfer, a zerolization or a final approved again moves its quantity, or reverses the provision, once
  more; none of their submit handlers refuses a decided document (`Net` in `StockExplained` counts it).
- While one order of a request is parked for an amendment, the completion of the others completes
  the request and releases its reservation; the order comes back unreserved. A quantity increase
  reserves nothing; a cancellation releases nothing.
- `expire.go:24` says a truck in ALMA is spared; an order that goes in progress between the
  job's select and its update is closed anyway, and its result refused.
- A cancellation loads the compartmentalization without its order; composing the file for the gantry then looks for
  request 0 and fails, and the error is dropped. The order is cancelled and stays in force at ALMA: the truck
  is loaded, and its result refused. `docs/user-guide.md`, 8.3, says an amendment cancels an order in progress.
- `CreateAmendment` parks the order before the approval is started; if that fails, nothing can unpark it
  (`failed` in `ParkedAwaitsAmendment`).
- A soft reject unparks an order whose amendment may still be approved; the replaced order
  is not recalled from ALMA, so the truck may be loaded under the old and the new order. An order extended
  while ALMA has it goes back to open, and the result of the truck is refused (`LoadingsAreBooked` leaves amended orders out).
- A resent order that was already loaded keeps its request's reservation for ever. And an order loaded
  with more than it asked for counts, once taken up again or closed by the job, as a negative quantity in
  `remainingCommittedILO`: its surplus is taken off what the request's other trucks need. With two trucks
  nothing shows, with three of 1, 2 and 2 units the reservation falls short. `OwedStaysReserved` excludes
  exactly that (`Overdrawn`); it was the proof, not a run, that met it.
- An order that ever had a compartmentalization cannot have another, the number being unique, so an
  extended order of that kind can only expire.
- Two overlapping executions of `RunDueNth` make the next run of a parcel twice; no index of
  `BillingRun` forbids it (`OneRunPerSequence` excludes overlaps by `overlapped`).
- A parcel split off a line in the middle of its sequence is billed after every approved run of the line
  that has no successor of that number for the parcel: several runs whose periods may share days.
- A run that is rejected and not submitted again ends the billing of its line.
- A line whose stock ran out and came back goes on where it stopped: the next period starts in the past.
- Continue, pressed less than one heartbeat (90 s) before the limit, may find the session
  idle on the server, whose clock started at the last heartbeat and not at the last activity. The
  touch is answered 401, the refresh reuses an expiry that still looks fresh, and nothing is
  extended though the countdown goes away. `HeardInTime` states the exact window in which the
  design works.
- A tab that signs out by its own clock ends the session of the other tabs, in which somebody may be
  working: each tab counts only its own activity.
- A tab frozen after Continue and before any other input wakes up past the limit and signs out without
  a countdown, the one warning being spent (`slept` in `WarnedFirst`).
- The access token is asked to be renewed five minutes ahead, but while more than a minute is left the
  renewal only drops the token in memory; the request is really made in the last minute.
- What is typed between a click on Save and the answer of the load that follows it is overwritten by that load, on
  every page that reloads its form (`receipts/[id]/edit`, `vsf/[id]` and the rest): `EditsSurvive` leaves it out.
- Typed input is overwritten by the answer to another button of the same page: the header of a receipt by
  a saved parcel, the lists of a user by any save of theirs, and what `Forgotten` names besides.
- The tab with the schedules refuses a bad cron line before it raises its own flag, after the
  layout's Save has set a lock only the end of a request takes off: Save is dead until the tab is left.
- Create buttons stay enabled between the answer and the navigation; a second click makes the
  document again, and so does a second try after a lost answer. No request carries a key.
- A submission that is refused because an approval runs has already set the status to submitted; the page
  shows an error and the old status.

## 5. What is proved

tlapm checks every step; nothing is assumed but the named assumptions on constants,
which TLC evaluates in the runs.

**Workflow** (any users, steps, hook family, chain). `IInv` = `TypeOK` ∧ `PendingOnlyWhereOpen` ∧
`StepsInUse` ∧ `DocumentShowsDecision` ∧ `Overtaken` ∧ `StrandedOnlyByMoveOrDraft`. `StepsInUse` (where a running document
stands or will resume is in the chain *and* in `used`) is the strengthening: without `used`,
an edit of the chain could drop the step, and `CurrentStepInProcess` alone is not inductive.
`Overtaken` (a document approved while somebody is between the two halves of a submission is `crossed`) is
why the second half may open an instance under an approved document and `DocumentShowsDecision` survive.
From `IInv`: `TypeCorrect`, `NoTaskLeftBehind`, `StepsOutliveEdits`, `StatusFollowsDecision`,
`OpenedStepsAreStaffed`, the action properties `QuorumRespected`, `ResumptionNeverGoesBack` and `ResubmissionShows`, and
`Refinement` (`Spec => Approval!Spec`, step by step). `GuardedApprovedOnce` and
`GuardedRejectionIsFinal` assume `SubmitGuarded`; they rest on `DraftIsFresh`, that a draft has
never been submitted and at most one submission of a guarded document is on its way. They hold where requests
run alone; with two people checking the status at once they do not (section 4).

**Outbox** (any rows, batch, lease, delays, any finite number of drains). No assumption relates the length of
a batch to the lease. `TypeCorrect`. `GivenUpDeservedly`: the invariant `Counted` bounds both the stored and the
stale counts by the sends really made. `ExclusiveDelivery`, `DeliveredOnce` and `NeverTakenUpAgain` rest on
`LeasesKept`, which counts for each row who has it (`Holders`) and which copies are out or may go out
and belong to no lost outcome (`Owing`). Both are at most `overdue`, the times a drain still had the row
when its lease was over, plus one; and without the one unless the row is `Guarded`, that is, in the hands
of a drain whose lease runs and was not shortened by somebody's late record. A claim finds no guard, and makes one or is
itself overdue; a record that reopens a row, or cuts a lease short, gives up a copy for the one it lets out; time takes a guard
away exactly when it adds to `overdue`. With batches that end within their leases `overdue` stays zero,
and the three say: one sender, one copy for each lost outcome and one more, settled for good.

**Sums** (`FiniteSums`). The models add up with the folds of the community modules, whose operators
(`MapThenSumSet`, `MapThenFoldSet`) take an operator as a parameter. `Total(f, S)` is the same sum as a function,
chosen for the set at hand; that it exists and that it grows by `f[x]` with an element `x`, whichever
is added, are proved from a least counterexample, since the library's induction theorems
cannot be instantiated. On it rest the sums of parts, of disjoint unions and of functions that
differ in one place, and in each module of proofs one lemma says that the fold is a `Total`.

**StockLedger** (any finite documents, contents, number of approvals). `IInv` = `RowTypes` ∧ `PostedOnce` ∧
`DeliveriesMarked` ∧ `TransfersConserve`; `DeliveriesMarked` (a delivery in the ledger has its event marked
ingested) is what keeps redeliveries out. Hence `NothingPostedTwice` and `Conservation`.
`BookInv` = `RowTypes` ∧ `Takings` ∧ `Covered` ∧ `Numbered` ∧ `SnapshotsAgree`: the ledger is a set, so that adding
movements adds their quantities only because none of them is there yet, which `Numbered` says (a movement carries
the number of the completion that posted it, and that number is new). One lemma then adds a posting
to a balance, another to a day's row, and the batch of a transfer to both. Hence
`SnapshotsKept`, `ParcelsNeverOverdrawn` and `TypeCorrect`.
`StockAlwaysExplained` holds of every story. What a document brings to an account is `Net`: its quantity once for
a receipt, a release or a delivery, however often it is approved or sent again, once for each approval of
a transfer or zerolization, less the provision for each approval of a final; and what a receipt
approved again posts for lines split off it is in the sum by name (`DerivedLines`), and no more than was split
off. The invariant, `Accounted`, joins to the sum what the histories of the
documents say (`Progress`) and which movements of the ledger mark what is done (`Marks`), because
`PostReceipt` and `PostHoldRelease` decide by the movements whether there is anything to post.

**LoadingOrders** (any requests, trucks, amendments and quantities). `IInv` = `TypeOK` ∧
`AmendmentsNameOrders` ∧ `DraftsOfUndecided` ∧ `ClosedOrders` ∧ `MarkedByAmendment` ∧
`ParkedAwaitsAmendment` ∧ `CompletedLoadsEverything`. The last two are
the properties; neither is inductive alone. A request completes when none of its orders is
still committed, and an order set aside is not: `MarkedByAmendment` (only an amendment sets an order
aside) is why a request without amendments cannot complete early. `DraftsOfUndecided` (orders are drafts
exactly while their request is undecided, and no draft has anything under way) keeps a
draft out of the gantry's and the amendments' reach; `AmendmentsNameOrders` adds that the order an
amendment may issue is not there before it is applied, so that it overwrites nothing. The
steps that change only an order's stage are covered by one lemma (`QuietKeeps`), and
so is what an amendment applies, at once or at its approval (`AppliedKeeps`). Hence
`TypeCorrect`, `NothingStaysParked` and `CompletionIsComplete`. `ResultsAreBooked` rests on `Underway`: an order
whose truck the gantry has, or whose result is waiting or being posted, is in progress, unless it was booked, closed or
amended. It needs what the database keeps unique, that an order has one compartmentalization ever, so that no second one,
read late, sets an order running again that the first has sent off.
The quantities have an invariant of their own, `StockInv` = `Columns` ∧ `Drawn` ∧ `Covering` ∧ `Releasing`, proved with
`IInv` at hand before and after each step. `Columns` says that only issued orders have loading
events and loaded quantities, so that an event not seen before lowers the stock and the sum alike.
`Covering` is the property with the sums as `Total`s; that a truck's completion releases no more than it
may is a comparison of two sums, over the orders still committed and over those without
an event, term by term where none is `Overdrawn`. Hence `DeliveriesAlwaysExplainStock`,
`OwedAlwaysReserved` and `NothingReservedForNothing`.

**Pages** (any number of clicks, versions, visits, lost messages and acts of others, and any set of pages made as
`PlansAssumption` says, which TLC evaluates for the whole catalogue). The assumption names what the
properties owe to the pages and not to the order of events: a button raises the flag it
waits for (`Busy`), the buttons that make a new row wait for one another, send one request, and make the page
know the row, empty the form or go (`MakesOnce`), and a submission follows a save of all the page shows
(`SavesFirst`), a button that may have changed the document looks again afterwards (`LooksAgain`), and what a
button throws away of the form it has sent before (`KeepsTyped`). `PagesInv` = `TypeOK` ∧ `RequestsFit` ∧ `KnownWhere` ∧ `OneBehindEach` ∧ `RaisedForSomebody` ∧
`OneRowPerForm` ∧ `AloneMeansAlone` ∧ `SavedAsSent`. `RaisedForSomebody` is exact about borrowed flags: a click no longer
answers for one once the borrowed save is through. `OneDocumentPerForm` says nothing of the
moments between the creation, its answer and the page's knowing of it: `OneRowPerForm` does, and rests on
`OneBehindEach`, that two creations of one form would wait for the same flag. `SavedAsSent` carries what a save has stored
through the requests of the same click that follow it, as long as the click is alone; `RequestsFit` keeps a
visit's requests from being taken for those of a later one. A handful of lemmas reduce the 23 actions to what
each does to the requests (`Moved`, `Ended`, `Made`, `Apart`). Hence `TypeCorrect`, `FlagsGuard`,
`NoFlagForgotten`, `OneFormOneDocument` and the action property `ApproversSeeTheForm`.
`ScreenKeepsUp` (`ScreenCatchesUp`) rests on `CatchingUp`: in a run without trouble the screen agrees with the
document, or a load is to be answered, or its answer agrees, or a request is out whose handler will look again.
The hard case is a save followed by a submission in one click, where nothing is looked at again if the submission is refused:
`IdleForSubmission` carries from the save to the submission that the document is in a status in which it cannot be
(`NeverRefused`: nobody else on the page submits, its buttons waiting for the same flag).
`TypingIsKept` (`EditsSurvive`) rests on `OnTheScreenOnly`: what was typed into a part while nothing under way replaces it is not in the
document, not in a load's answer, not in what was last shown, and in requests only before they are taken; and a request sent
before it was typed belongs to a button that leaves the part alone. So nothing can bring it or an older text back. That it is new when typed needs `Versions`: nobody holds a version still to be made.

**Billing** (any lines, parcels, executions, lengths of periods, stops). `IInv` = `TypeOK` ∧ `PeriodsStand` ∧
`SequencesUnbroken` ∧ `OneRunPerSequence` ∧ `SequencesOrderDays` ∧ `BilledInTurn` ∧ `JobsLook` ∧ `JobsAlone` ∧
`PicksFree`. That the run about to be inserted has a number nobody has yet is true only while the
execution is alone: `PicksFree` carries the answer of the check to the insert, and `JobsAlone` says
nobody could have spoilt it. That its days are free needs more than its number: `SequencesUnbroken` (a
line has a run for every number below one it has) makes the new number the line's highest, and
`SequencesOrderDays` (later numbers are later days) then puts its period after all others. `JobsLook`
(what an execution holds are runs that have ended) survives overlaps, which is why `BilledInTurn`
needs no such condition. One lemma (`PeriodAdded`) covers both ways a run is made, another
(`QuietKeeps`) all steps that leave the runs' periods alone. Hence `TypeCorrect`, `NumbersBilledOnce`,
`LinesBilledOnceADay` (which combines two conjuncts) and `PeriodsBilledInTurn`.

**Session** (any number of tabs, any policy with `TouchEvery <= Warn < Limit`, messages lost and tabs
frozen anywhere). `TypeCorrect`, and one invariant per property, each a fact about one tab that
other tabs' steps must not disturb. `Belongs` (a tab with a request of the console out shows the
console and is awake, so its clocks mean something) is common to both. `HeardInTimeAlways` rests on
`Kept`: in a vouched tab with no touch out, the server's age exceeds the tab's idle time by no more
than one heartbeat, and is no more than the time since the last heartbeat while that is recent;
`HeardInTime` alone is not inductive, as it says nothing between two touches.
`WarnedFirstAlways` rests on `Noticed`: a tab that was warned, shows no countdown and was not frozen
since is awake and short of its limit. The steps of
one tab leave `call`, `idle` and the others' clocks alone (`Alone`, `OthersAlone`), and no step makes the row
older but a tick, a sign-out or a lost sign-out (`RowNoOlder`), so `KeptSteady` disposes of most
actions at once.

## 6. What is only checked

Liveness (`EventuallySettled`, `ExpiredOrdersClosed`, `StorageKeepsBilling`, `AbandonedEnds`): the prover does not
reason about fairness. `TypeOK` of the modules with proofs
is the other way round, proved and not in a run. `ob_recovers` has one message: with two, the liveness check takes too long,
and messages interact only through the batch, which every row leaves in the end.

## 7. Plan

Done: 1. `Approval`, `Workflow`, `WorkflowRace` and proofs. 2. `Outbox` and proofs. 3. `StockLedger`
and proofs. 4. `LoadingOrders` and proofs. 5. `Pages` and its catalogue. 6. `Session` and proofs. 7. `Billing` and proofs.

Next, in this order:

8. Pump-over requests and reports, joined to `LoadingOrders` by the reservations they share:
   repeated submission and several reports of one request.
9. `Npgis`: the queue to the regulator, which claims nothing; the outbox's properties
   restated for it show which of them the claim buys.
10. `Numbering` and the scheduler's re-application of jobs.

11. The TBS and VSF jobs in `Billing`, and prices frozen at approval.

Theorems planned: for `LoadingOrders` that an order without amendments is posted at most
once, whatever is sent to the gantry (`DeliveriesAlwaysExplainStock` says it of the stock); for the outbox and the executions of `Billing`, abstract specifications
they implement.
