# HostelGhar backend: specifications

TLA+ models of the HostelGhar backend (`src/`: Express, TypeORM on PostgreSQL,
Redis, BullMQ, Socket.io, one PM2 process), checked with TLC and proved with
TLAPS. They follow the money (how bills come to be, how they are paid, what the
concurrent writers of a bill do to each other), the beds (who lives where, and
what a room's counter says), the cache, and seven services that keep tables of
their own. Paths below are relative to `src/src/`.

## 1. Inventory

| Part | State it keeps | Operations | What is hard |
|---|---|---|---|
| Fee credit arithmetic (`utils/fee-credit.util.ts`) | none | `applyPaymentToFeeAmounts`, `calculatePaymentStatus`, `feeOutstandingAmount` | boundaries: 0, below half a paisa, more than is owed, cancelled, past due |
| Payment recording (`services/payment/`) | `payments`, `fees` | `POST /fees/:id/pay`, overdue sweep | concurrent requests, retries with a key or a reference, roll-back, lost answers |
| Fee ledger (`services/fee/fee.service.ts`) | `fees` | `PATCH /fees/:id/payment`, `PATCH /fees/:id/status` | read, compute, save without a lock |
| Payment proofs (`services/payment-proof/`) | `payment_proofs`, `payments`, `fees` | submit, review, credit | two reviewers, repeated approval, a failure between approval and credit |
| Monthly billing (`services/fee/fee.service.ts`, `jobs/fee-scheduler.job.ts`) | `fees`, the BullMQ queue | daily check, queued or direct run for all residents | runs beside each other, retries, a crash after the insert, residents coming and going |
| Single invoice (`services/fee/invoice.service.ts`) | `fees` | `createInvoice` | beside a run for the same month |
| Rooms, beds, residents (`controller/owner/`, `services/room/`) | `rooms.occupied`, `residents` | create, move, delete a resident; change a room | check-then-act on capacity and beds, a counter kept by read-modify-write |
| Resident import (`services/resident/`, `workers/resident-import.worker.ts`) | `resident_imports` | enqueue, import rows, retry | an attempt that starts again over rows already imported |
| Subscriptions (`services/subscription/`) | `subscriptions` | subscribe, review, limits | deactivate-then-activate without a transaction, count-then-create |
| Cache (`utils/cache.util.ts`, `utils/lru-cache.util.ts`) | L1 memory, L2 Redis, loads in flight | `get`, `set`, `wrap`, `invalidate` | a stale load stored after an invalidation, Redis down, a restart |
| Attendance (`services/attendance/`) | `attendances`, the hostel's pin | check in, check out | midnight, two check-outs, the pin moved before the record is saved |
| Daily meals (`services/meal/`) | `hostel_daily_meals` | save a day, single meals, clear | two saves of a day at once |
| QR codes (`services/payment-qr/`, `services/platform-qr/`, `services/upload/`) | rows, images at Cloudinary | create, replace, change, delete | an old image deleted before the row is saved |
| Bookings (`services/booking/`, `decorators/idempotency.decorator.ts`) | `bookings`, keys in memory | create, set status, cancel | check-then-insert, a key remembered only once answered |
| Sessions (`services/auth/`, `utils/token-blocklist.util.ts`) | refresh-token hash, blocklist in Redis | login, refresh, logout, reset | concurrent refreshes, a blocklist that fails open |
| Events and email (`utils/event-dispatcher.util.ts`, `workers/email.worker.ts`) | BullMQ queues | dispatch, enqueue, direct SMTP | a timeout that races the enqueue, retries after lost answers |
| The rest: notifications, leave, weekly menus, hostels, facilities, staff, expenses, settings, other uploads, search, analytics, administration, HTTP platform | single rows | CRUD and queries | little beyond one statement at a time |

How they meet: all services share one PostgreSQL database and call each other
in-process. Bills (`fees`) are the shared state: billing inserts them, four
endpoints and the proof review update them, the next billing reads what is open
on them, and deleting a resident deletes them (`ON DELETE CASCADE`). The billing
worker takes jobs from the `system-event-queue` one at a time; requests run
beside it. Residents and rooms are shared by the owner's handlers and the import
worker. After a write caches are invalidated and events and mails are sent;
listings read through the cache, no decision modelled here does. Subscriptions,
bookings, attendance, import records, mails, codes and menus each keep to tables
of their own.

What makes each part correct:

* Arithmetic: a credit is never more than is owed; paid and outstanding add up
  to the total; PAID means paid in full; splitting a payment does not matter.
* Payment recording: a payment and its credit appear together or not at all; a
  retry records nothing twice; the answer is true; every request is answered.
* Ledger and proofs: no bill is credited beyond its total; status follows the
  amounts; one payment row per proof, after a review; a reviewed proof stays
  reviewed; a cancelled bill takes no money; what is paid never falls.
* Billing: one bill per resident and month; nobody is left out; dues come from
  earlier bills and are not charged again; every job ends.
* Rooms: no bed twice, `occupied` covers the residents, no room overfull, a
  hostel keeps its rooms, the plan's limit is kept, the deleted stay deleted.
* Cache: loads are coalesced, an old value has a known cause, a bounded age and
  an end.
* Services: one running plan per hostel, and it ends for a reason; an application
  is made once; an import's report is true; a mail goes out once or its job says
  why not; a code's image exists; a day's menu is of one save; a day of
  attendance is written on that day.
* Sessions (not modelled): one refresh token is good at a time.

`PROJECT.json` lists every part under `components`, and under `hazards` what in
this code is hard to test, at its line, with the properties aimed at it.

## 2. Modules

| Module | Models |
|---|---|
| `FeeCredit` | the arithmetic, as operators over whole paisa |
| `Amounts_proofs` | theorems about it, and lemmas on sums of amounts over finite sets of rows |
| `PaymentLedger` | abstract: a payment and its credit are recorded in one step |
| `PaymentTxn` | `PaymentService.recordPayment`, one action per statement, on READ COMMITTED with a row lock |
| `MC_PaymentTxn` | constants |
| `PaymentTxn_proofs` | its invariant, that payment rows add up, and that it implements `PaymentLedger` |
| `FeeLedger` | every writer of a bill after it is billed, and the proofs |
| `MC_FeeLedger` | constants, and `NoMoneyFromNothing` |
| `FeeLedger_proofs` | its invariant, and all its safety and action properties |
| `Billing` | the daily check, queued and direct runs, single invoices, retries |
| `MC_Billing` | the module of its runs |
| `Billing_proofs` | its invariants, one bill a month, nobody left out, dues from earlier bills |
| `ResidentRooms` | residents and rooms: the owner's handlers and the import row, one action per statement |
| `MC_ResidentRooms` | constants: six openings, three room edits |
| `ResidentRooms_proofs` | its invariants (beds, readings, counters) and all its properties |
| `MultiLevelCache` | `MultiLevelCacheService` with time, evictions, restarts and an absent Redis |
| `MC_MultiLevelCache` | the module of its run |
| `MultiLevelCache_proofs` | type, coalescing, bounded age, known causes |
| `Handlers` | what the services share: requests that act on old readings |
| `Subscriptions`, `Bookings`, `Attendance`, `ImportJobs`, `EmailDelivery`, `QrImages`, `DailyMeals` | one service each |
| `MC_Services` | the seven services, one of which moves |
| `Services_proofs` | subscriptions, attendance, daily meals, bookings |
| `Background_proofs` | mails, codes, imports; types of the seven together |

**`FeeCredit`.** `ApplyPayment(total, paid, status, amount, pastDue)` is
`applyPaymentToFeeAmounts` by cases: cancelled, PAID (repaired to the total),
and otherwise `Finalize` with `Credit` clamped to what is owed. An amount 0
stands for every number `roundMoney` takes to 0, which the code treats as
settlement of the whole bill.

**`PaymentTxn`.** `txn[r]` is request `r`: what it asks for, where it is
(`received`, `locked`, `checked`, `inserted`, `saved`, `committed`, and the
answers), and the fee entity it works on, which nobody else sees before
`Commit`. `LockFee` is `SELECT ... FOR UPDATE`; the lock is held while the stage
is in `InTransaction`. `Rollback` may come at any statement. `InsertPayment`
waits for an open transaction that has inserted the same idempotency key, as
PostgreSQL's unique index does, and fails if that one commits. After the commit
the answer may be lost (`LoseAnswer`): the client then sees an error, although
the payment is recorded. Authorisation only filters requests and is left out.

**`FeeLedger`.** `jobs[j]` is a request that works on copies of rows. TypeORM's
`save` of a loaded entity is three steps: the copy (the action named after the
handler: `ManualPayment`, `SetStatus`, `SyncOverdueFees`, `LoadCredit`), `Diff`
(`save` selects the rows again), and `Write` (UPDATE of the columns in which
copy and re-selected row differ, and commit). Any other job may come between
them, and `Fail` may end a job at any point. `PayInvoice` is the whole locked
transaction of `PaymentTxn` in one step, which `LedgerImplemented` justifies.
Its lock would also make a `Write` wait; a wait only forbids orders, so nothing
is lost. `overlapped` is a history variable: the bills that were written while
another job held a copy. The proof review reads, saves the decision
(`SaveDecision`) and only then begins the credit (`LoadCredit`, `Diff`, `Write`).
`outstandingAmount` is kept as the code keeps it: stale after the two PATCH
endpoints, which no property forbids.

**`Billing`.** `runs[r]` is a run over residents: the check of a day (named by
the day), or what an admin or owner asks for. `Listed`, `Filter`, `ReadBalances`
and `Insert` are the four statements of `generateMonthlyFeesForAllHostels`;
`CreateInvoice` enters the same path at the third for a single resident. The
insert is one transaction: one bill that violates the unique index, or one
resident deleted meanwhile, fails it for all (`Collide`). `Fail` stands for the
database, Redis or the process failing, also after the insert, before the queue
knows that the job is done. A failed job is tried again from the start while
attempts remain. A period has two model days: the Nepali 1st and one for all
other days. The AD month a run bills is one per Nepali 1st, so a period stands
for both. Bills carry the balance of all open bills forward (`Balance`), and stay
open themselves, as in the code.

**`ResidentRooms`.** `req[q]` is a request with the entities it holds: the row it
asks for (`placement`), the room it goes to (`found`) and the one it leaves
(`old`). `Start...` is the handler up to its first reads, `Clear` the count of
beds taken (`findTakenBedsByHostel`, which sees active residents only), then
each `save` is an action: `PlaceResident` and `SaveRoom` for a creation,
`SaveRoom` (only when the room is not left), `FindOldRoom`, `SaveOldRoom`,
`SaveResident` for a move, and so on. `CommitImport` is the import row's one
transaction. `Abandon` ends a request anywhere. Whatever another request writes
makes a reading old (`stale`); `raced`, `unsettled` and `unchecked` are
history: rooms written on old readings, rooms counted by hand or left
half-counted, and residents in a bed not checked among the residents of their
hostel: those set active again, a change that checks no bed, and those moved to a
room of another hostel. TypeORM's `save` takes a foreign key from the relation when
the entity was read with it: `findResidentById` and `findByIdAndOwner` load the hostel,
so a resident that moves keeps its hostel (`Saved`), and `updateRoom` gives a hostel
only to a room that has none; creations and imports look rooms up without it, and
link them. `CreateRoomWithImage` is a creation that uploads an image: the room is
there at once, and `SaveRoom` saves it again, as it was created, after the upload.

**`MultiLevelCache`.** A row's version stands for its contents. A reader misses
both levels, starts a load or joins one, and stores the result in L1 and then in
Redis; a writer commits, drops L1, scans Redis for keys and deletes what it
found. `Tick` lets one unit of time pass for every lifetime and every value held; an
answer comes within `Hold`. `suspect` is history: where an old version was left,
and in which level. The lifetimes are those of an entry; the least recently used
entry is evicted at any time (`Evict`).

**The services.** `Handlers!GoesOn` marks a request as `raced` when another
writes an item its decision rests on. Each service then has one action per
statement of its handlers:

* `Subscriptions`: `SubscribeFree` / `SaveFree` and `Approve` / `Activate` are the
  two statements that replace a running plan; `FailSub` may come between them.
* `Bookings`: `Apply` is the idempotency decorator before the handler, `Answer`
  its `res.json` hook, `Forget` its clean-up or a restart.
* `Attendance`: the record's day is fixed when the request begins; `Midnight`
  may pass before it saves. `MovePin` is the check-in that moves the hostel.
* `ImportJobs`: requests, the record, the BullMQ job, and runs of
  `executeImport`; `LoseRun` and `Stall` are the worker failing and being taken
  for dead while it goes on, after which the job runs again beside it.
* `EmailDelivery`: dispatch, worker check, add or direct send; a send tries its
  hosts in turn; the worker's job is retried; the breaker gives up after its
  time limit while the send goes on (`Overtaken`).
* `QrImages`: `Upload` begins the old image's deletion, `AssetGoes` ends it,
  `SaveQr` saves the row.
* `DailyMeals`: `BeginSave`, `DeleteDay`, `CommitSave` are the transaction of a
  day's schedule under READ COMMITTED: its DELETE waits for the rows another is
  deleting, spares those that have left the day meanwhile and does not see what that
  one inserted. `FindMeal`, `SaveMeal`, `UpdateMeal` are an update, which may move
  the meal to another day; `displaced` remembers the rows it moved or put back.

## 3. Runs

| Run | Instance | Shows |
|---|---|---|
| `payment_txn` | 2 invoices (3 and 2 paisa, one carrying dues, each possibly cancelled), 2 requests of 1 or 2 paisa, 1 key, 1 reference | `LedgerBalanced`, `NothingPaidTwice`, `AnswersHold`; implements `PaymentLedger`; `EveryRequestAnswered` |
| `payment_txn_duplicate` | the same | violated: `DuplicateWasPaid` |
| `fee_ledger` | 1 bill of 2 paisa, 1 payment of 1, manual amounts 0 and 1, 1 proof of 1 or of all that is owed, the statuses PAID and CANCELLED, 2 jobs | `NeverOverpaid`, `SettledUnlessOverlapped`, `OneRowPerSource`, `CreditNeedsReview`, `CancelledTakesNoMoney`, `PaidFallsOnlyByOverlap`, `PaymentCreditsItsAmount` |
| `fee_ledger_paid_falls` | without manual payments and statuses | violated: `PaidNeverFalls` |
| `fee_ledger_uncredited` | the same | violated: `ApprovedMeansCredited` |
| `fee_ledger_double_credit` | the same | violated: `NoMoneyFromNothing` |
| `billing` | 2 residents, 2 days (the end of one month and the 1st of the next), 1 request, 2 attempts | `OneBillPerPeriod`, `DuesComeFromBills`, `NobodyLeftOut`, `EveryJobEnds` |
| `billing_missed_month` | 1 resident, 3 days, no requests, jobs end on their day | violated: `EveryMonthBilled` |
| `billing_recharged` | 1 resident, 4 days, 1 request | violated: `NeverRecharged` |
| `residents` | 2 rooms, 3 accounts, 2 hostels, 2 beds, a limit of 2, 2 requests, from 6 openings | `BedHeldOnce`, `CounterCoversRoom`, `NeverOverfull`, `LimitPassedOnlyUncounted`, `DeletedComesBackOnlyByRace`, `HostelKeepsItsRooms` |
| `cache` | 1 key, 2 readers, 1 update, lifetimes of 1 and 2 ticks, answers within 1 | `WaitersHaveALoad`, `StaleOnlyByRaceOrOutage`, `StalenessBounded`, `EventuallyFresh` |
| `services` | 3 requests (imports: 2), see below | `OneRunningPlan`, `PlanGivesWayToAnother`, `BookedOnce`, `ImportsAccountedFor`, `SentOnceOrAccounted`, `RowsKeepTheirImages`, `MenuFromOneSave`, `DaysSettle` |

Each passing run also checks the type invariant (`TypeOK`, `RoomsTypeOK`,
`CacheTypeOK`, `ServicesTypeOK`).

The services share no table, so their joint behaviour is the product of theirs
and says nothing beyond each alone. `MC_Services` therefore lets one of them,
chosen at the start, move while the others stay as they begin: one run explores
the sum of the seven state spaces. None of their actions is left out by it.

**Why the bounds are enough.** Every race modelled is between two actors, so two
requests, two jobs, or a check and a request show it; the theorems cover more.
In `payment_txn` two amounts on a bill of 3 reach partial, exact and excessive
payments; one key and one reference are enough to collide, on one invoice or
across two. In `fee_ledger` a manual 0 is the settling amount and 1 a partial one; a
proof that claims all 2 paisa exceeds the bill once something has been paid in
between; the claimed amount and the approved one are chosen apart. (Proofs of 0
and of 3, more than the bill from the start, pass too, in runs too long to keep;
the theorems cover every amount.) `Amounts` leaves out 0 for `POST /pay`, which refuses it. In
`billing` two residents are needed for one to collide and the other to be left
out, two periods for dues to be carried, two attempts for a retry and for
running out. `NeverRecharged` needs three bills, hence four days.

In `residents` the six openings put the rooms where two requests meet: half full,
full, of another hostel or of none, two rooms to move between in one hostel or
across two (with two residents to move to one bed), and an inactive
resident to set active; three accounts leave one to add to two. The room edits
give a room without a hostel one or none, count it by hand, shrink and close
it, and are the rows rooms are created with. One key suffices in `cache`: keys do not touch each other; two readers
are needed to coalesce, one update to make a value old, and a tick of either
lifetime to outlive the other. In `services` four subscriptions are two to
begin with and two more, two bookings and two keys are enough to apply twice,
and one midnight separates two days. An import has two rows, so that one may fail, and is checkpointed
after both; two attempts let it be run again. `ImportBound` keeps one of the three
requests unsent, keeps the second import free of bad rows and in the queue (it is
there for the limit and the key), and runs the first only. A mail has two hosts
and two attempts; a third copy counts as two. Three images are enough for a row
to be replaced twice; three meals and two days are two saves of a day, or one of
each day and the move of a meal between them.

**Deadlock.** It is checked in `fee_ledger`, where a proof can always be
reviewed or approved again, or a bill paid, and in `cache`, where time always
may pass. `PaymentTxn`, `Billing`, `ResidentRooms` and the services stop when all
requests are answered or the calendar ends, so their runs leave it off; that
nobody waits for ever is `EveryRequestAnswered`, `EveryJobEnds` and, of loads,
`WaitersHaveALoad`.

**Fairness.** `PaymentTxn!FairSpec`: weak fairness of each request's own steps,
the server keeps running the transactions it has begun. The lock is handed over
when its holder ends, and a request that can lock stays able to until another
takes it; with finitely many requests weak fairness suffices. Roll-backs and
lost answers are never required. `Billing!FairSpec`: weak fairness of the worker
as a whole, BullMQ keeps taking jobs, and of the days passing; nothing is
assumed of requests or of failures not happening. `MultiLevelCache!CacheFairSpec`:
weak fairness of each reader's own steps, the event loop goes on with what it has
begun, and of time. That an answer of Redis or of the database takes at most
`Hold` is an assumption of the module, which the code does not enforce: it sets no
time limit on commands or queries (`configs/redis.config.ts` retries a command
without limit), so `StalenessBounded` is relative to the slowest answer. Nothing is
assumed of writers, so `EventuallyFresh` holds even if an invalidation never
comes. `PromptSpec` adds, in favour of
the code, that all jobs of a day end on that day: `EveryMonthBilled` fails even
so.

## 4. Where code and documentation disagree

Each is a run that must end in a violation; `PROJECT.json` has the lines.

1. *DuplicateWasPaid*: an idempotency key already spent on another invoice is
   answered "Duplicate payment request: already processed" with that other
   invoice's payment; nothing was paid on this one.
2. *PaidNeverFalls*: only `POST /pay` takes the row lock that is to prevent
   "race conditions & overpayments". The overdue sweep (and the proof's credit,
   and both PATCH endpoints) writes back what it read before a payment.
   What survives is proved: `NeverOverpaid` always, the others on bills without
   overlap.
3. *ApprovedMeansCredited*: the approval is saved outside the transaction that
   "can never" leave a proof approved without its credit.
4. *NoMoneyFromNothing*: approving an approved proof credits the bill again.
5. *EveryMonthBilled*: a check that fails its attempts on the 1st is never made
   up for; the later checks skip because it is not the 1st.
6. *NeverRecharged*: a bill carried forward stays open and is carried again.

What the later models show of the code, where no line of it claims otherwise; each
is an exception named in a property:

* `updateResident` writes back the row it read: a resident deleted meanwhile is
  there again (`DeletedComesBackOnlyByRace`).
* The plan's limit is checked by an owner's creation only; an import, an activation
  and the save of a resident deleted or deactivated meanwhile pass it
  (`LimitPassedOnlyUncounted`).
* An import takes a room of that number whatever its hostel (`HostelKeepsItsRooms`).
* A move to a room of another hostel changes room and bed but not the resident's
  hostel, and the beds checked are those of the other hostel's residents: two
  residents moved one after the other get one bed, with no race
  (`unchecked` in `BedHeldOnce`).
* `createRoom` with an image saves the room again after the upload: the counter goes
  back to 0, and a hostel given meanwhile is taken away (`raced` in
  `CounterCoversRoom`, `NeverOverfull`, `HostelKeepsItsRooms`).
* An update moves a meal to a day with a schedule of its own, or puts back one that
  was deleted with its day (`displaced` in `MenuFromOneSave`).
* An import run again keeps the failures of the first run and finds its own
  residents as duplicates: it counts more failures than there are rows, and may end
  FAILED although residents were created (`ReportHonest` speaks of single runs). A
  crash between the record and the job leaves it QUEUED, a dead job PROCESSING, and
  either counts as an active import for the rest of the day.
* A failure between the two statements of an activation leaves the owner without
  a running plan (`PlanGivesWayToAnother`).
* Bulk mails sent directly are reported as accepted when every host fails
  (`swallowed` in `SentOnceOrAccounted`).
* A reader that loaded before an invalidation stores the old value after it, for
  the lifetime of the entry; `StalenessBounded` says how long that can last.

## 5. Proofs

All for every value of the constants, from the named assumptions on them
alone: positive totals, disjoint sets of names, and that there are finitely many
accounts and residents (`UsersAssumption`, `BillingAssumption`), whose
rows are counted and summed. Every invariant and every action property the runs
check is a theorem; each inductive invariant was checked with TLC on the run's
instance before it was proved.

* **Arithmetic** (`Amounts_proofs`). `ApplyPaymentBalances`, `ApplyPaymentSettles`
  and `PaymentsCompose`, by cases on the status and the clamp. Sums
  (`SumFunctionOnSet` of the community modules) are folds defined by recursion over
  sets. What the proofs need of them (a sum is natural, grows by what is added, is
  monotone) is shown by a smallest counterexample: among the subsets of a finite
  set for which a claim fails, one has the fewest elements (`SmallestSet`), and one
  element less refutes it. This takes no induction theorem with an operator
  parameter.
* **PaymentTxn.** The invariant `IInv`: a committed row adds up (`RowsSettled`);
  at most one transaction holds an invoice (`RowLocked`), so the row it read is
  still the committed one when it writes (`RowCurrent`); what the duplicate check
  and the unique index found is still so (`NoRepeatInFlight`); payment rows and
  requests correspond (`PaymentsByRequest`). `NothingPaidTwice` alone is not
  inductive: a commit could add a repetition were it not for
  `NoRepeatInFlight`, which in turn needs the lock. From it: `TypeCorrect`,
  `PaidOnce`, `AnswersAreTrue`, and `LedgerImplemented` (`Commit` maps to
  `Record`, every other step to a stutter, with `paid` read from the fee rows).
  `LedgerAddsUp` adds `PaymentsCounted`, that the paid amount of a row is the sum of its
  payment rows: `Commit` adds one row and its amount, nothing else touches either.
* **FeeLedger.** `IInv` adds to the checked properties that copies fit their
  bills (`JobFits`, `CopyFits`): a copy is never beyond the bill, and on a bill
  without overlap it is settled, not behind the committed row, and the row found
  by `save` is still the committed one. `DistinctInserts` says that no two jobs
  are about to insert one proof's row. From it: `TypeCorrect`,
  `BillsNeverOverpaid`, `StatusFollowsLedger`, `OneAuditRow`, `CreditsReviewed`,
  and the action properties `ReviewsStay`, `PaidGrows`, `CancelledStays`,
  `PaymentsCredit`. The last rests on the status: a bill that says PAID too early is
  settled in full by its next payment, and only overlapping writers leave one so.
* **Billing.** `IInv`: runs keep their shape, bills are one per resident and
  period, and a run that has looked for bills left out only residents who are
  billed or deleted (`RunFits`). From it: `BilledOnce`, `AllBilled`. `DuesInv`
  besides: bills are finite in number, naturals, and what a run carries for a
  resident is at most what the resident's bills asked for (`DuesAsked`) when they
  were summed, and so ever after, for bills are added and never change their
  total. From it: `BillsTyped`, `DuesCarried`.
* **ResidentRooms.** `IInv` = `Shape` (types, and what a request holds at each
  stage) and `ReadingsHold` and `BedHeldOnce`. `BedHeldOnce` is not inductive: a
  request about to place a resident must know that the bed is free. `ReadingsHold`
  says so: what a request in flight has read is still true, or is among its
  `stale` items, in which case its write is a race. The lemma `OthersStep` shows
  that one request's step keeps the knowledge of the others; each action then
  keeps its own. From it: `RoomsTyped`, `NoBedHeldTwice`, and the action properties
  `DeletedStaysDeleted`, `RoomsStayWithHostel`, `LimitKept`.
  `CounterCoversRoom` is not inductive either. `CountInv` counts one more group, the
  moves that have saved their new room and not yet their resident (`Expected`),
  which makes the books of a room stay level through all the writes of a move
  (`RoomSettled`); keeps `occupied` within the capacity, without which `NeverOverfull`
  does not follow; and says what each stage knows of the counter it has read
  (`Counts`: an entity about to be saved is one above the committed counter, the one
  of a room left at most one below, or the reading is stale). `RoomStays` adds up
  how a step of one request and one resident's row moves the four cardinalities, each
  by at most one (`Toggle`); each action then owes one inequality. From it:
  `CountersCover`, `RoomsNotOverfull`.
* **MultiLevelCache.** `Shape` adds to the type what each stage implies. `Ages`
  bounds the age of what Redis holds, of what a reader holds, and so of what L1
  holds: each adds its own waiting time to the bound of where the value came from
  (`AnswersAreYoung`). `Known`: an old value in a level is under suspicion or
  about to be dropped by a writer, whatever stage it is in (`StaleIsKnown`).
  `CacheTyped`, `LoadsCoalesced` besides.
* **Services.** For each, what a request in flight knows of the rows it has read
  unless it is marked `raced`: an activation knows that no plan of its scope runs
  (`OnePlanRuns`, `PlansGiveWay`); a check-out that the record is open (`DaysDoSettle`);
  a save of a day which rows the day has, and an update who wrote the row it has found
  (`MenuIsOfOneSave`); an application that none
  is pending and its key unused (`AppliedOnce`).
* **Background work.** `EmailInv` ties how far a mail has come to where its job and
  copies can be, so that a second copy needs a lost answer (`MailAccounted`). `QrInv`
  says who is deleting which image: a row's own only for a request that
  replaces it, at work or failed (`ImagesKept`). `ImportInv` bounds what an import's record and its runs
  count by the rows created, for any number of attempts, and follows the one run of
  an import that is not run again row by row (`ImportsCounted`); the limit of active
  imports holds because a request that is not overtaken counts before it saves.
  `ServicesTyped` is for the composed `ServicesSpec`: each service keeps its type in
  its own specification, and `ServicesSpec` implies the seven of them
  (`EachService`), so that what is proved of each holds of it as well
  (`ServicesKeepTheirWord`).

**Only proved:** `ReviewsStay`, which no run checks.

**Only model-checked:** liveness (`EveryRequestAnswered`, `EveryJobEnds`,
`EventuallyFresh`), which is out of the prover's reach under fairness, and that the runs
of section 4 end in a violation.

## 6. Abstractions and what is not modelled

* Amounts are whole paisa; `discountAmount` is 0, nothing writes it.
* `SELECT ... FOR UPDATE` on the joined query of `recordPayment` is taken to
  lock the fee row. (PostgreSQL refuses `FOR UPDATE` on the nullable side of an
  outer join; which join TypeORM generates is external.)
* Saving a `Fee` loaded with its `payments` may make TypeORM touch payment rows
  inserted meanwhile; that such a save may fail is covered by `Fail`.
* The overdue sweep compares the due date in the database's zone and the rest
  of the code in Nepal's; `pastDue` is one fact in the model.
* The conversion to the Nepali calendar, and that it takes the date in UTC while
  the check runs in the server's zone, are left out: one day of a month counts as
  the 1st. Due dates that lie before the Nepali 1st of their bill are covered by
  `DueDatePasses` at any time.
* Rows deleted with a resident are modelled in `Billing`, not in the ledger.
* A resident's room is named by its number, which is unique for an owner; renamed
  and deleted rooms, the `beds` table, accounts, rents and the admin's variants of
  the handlers are left out.
* The cache models one process, as deployed. The options that
  skip a level, `validateCached`, and a loader's `null`, which counts as a miss in
  L1, are left out; a key pattern that covers many keys is one writer per key.
* Subscriptions: prices, end dates, proofs and the reading side, which takes the newest row of the
  hostel or of the owner, are left out; so is the limit of hostels.
* Imports: what a row does to rooms is in `ResidentRooms`, that rows are created,
  exist already or fail is in `ImportJobs`. Parsing is a choice of bad rows. A row whose COMMIT
  succeeds while the run does not hear of it is left out: it would be counted as a
  failure and created all the same.
* Mail: when the breaker opens is a library's; it may at any time.
* Attendance: the distance is a relation on places. Codes: an image kept elsewhere
  is one value. Menus: the weekly schedule is left out.
* Sessions: a login or refresh replaces one stored hash, and the hazard of two at
  once is listed without a property. Notifications, leave requests and the rest of
  the services are single-row updates whose only race is a lost update, as already
  modelled for bills, rooms and codes.
* Runs for a single hostel bill a subset of residents; manual retries of failed
  jobs, re-sent emails, caches, events and notifications are left out.
* Everything marked `not_modelled` in `PROJECT.json`, with its reason.

## 7. Plan

Done: the arithmetic, payment recording, the ledger with proofs, billing, rooms
and residents, the cache, and the seven services. What is left, most useful first:

1. Composition: deletion of residents in the ledger, and `Billing` with the
   ledger's overlapping writers.
2. Sessions: two refreshes at once, logout and the blocklist when Redis is down.
3. The weekly schedule and the uploads besides codes.
4. An abstract specification of a room (residents come and go, within its beds) that
   `ResidentRooms` implements as long as no reading is old.
