------------------------------- MODULE Billing -------------------------------
(***************************************************************************)
(* How bills come to be: the monthly run over all active residents, which  *)
(* the daily check job starts on the first day of a Nepali month and an    *)
(* admin at any time (queued, or inside the request), and the owner's      *)
(* single invoice.  All of them read, compute and insert in separate       *)
(* statements; one worker runs the queued jobs, requests run beside it.    *)
(*                                                                         *)
(* A period is a billing month of two model days: the Nepali 1st, and one  *)
(* that stands for the rest of the month.  The calendar begins within the  *)
(* first month.  Emails, cache invalidation and sockets after the insert   *)
(* are left out.  A bill is open until it is paid in full (FeeLedger).     *)
(***************************************************************************)
EXTENDS Integers, FiniteSetsExt

CONSTANTS Residents,
          LastDay,    \* where the calendar ends
          Charges,    \* the fees of one month, in paisa
          Requests,   \* what admins and owners ask for
          Attempts    \* how often a queued job is tried

ASSUME BillingAssumption ==
  /\ LastDay \in Nat \ {0}
  /\ Charges \subseteq Nat \ {0}
  /\ Attempts \in Nat \ {0}
  /\ Requests \cap Nat = {}
  /\ IsFiniteSet(Residents)

Days == 1 .. LastDay
FirstOfMonth(d) == d % 2 = 0
Period(d) == d \div 2 + 1
Periods == {Period(d) : d \in Days}

(* The check job of a day is named by the day.                             *)
Runs == Days \cup Requests

VARIABLES bills,      \* the rows of the fee table
          residents,  \* residents[x]: whether x lives in the hostel
          day,        \* today
          runs        \* runs[r]: what run r has read

vars == <<bills, residents, day, runs>>

Bill == [resident: Residents, period: Periods, amount: Nat \ {0},
         due: Nat, paid: Nat]

Working == {"listed", "filtered", "balanced", "inserted"}
Ended == {"done", "skipped", "failed"}
Run == [stage: {"absent", "waiting"} \cup Working \cup Ended,
        queued: BOOLEAN,             \* a job of the worker
        asked: {0} \cup Periods,     \* the period asked for, 0 for today's
        period: {0} \cup Periods,    \* the period it bills
        found: SUBSET Residents,     \* residents the run is to bill
        unbilled: SUBSET Residents,  \* those of them without a bill
        dues: [Residents -> Nat],    \* what they owe
        attempts: 0 .. Attempts - 1] \* attempts that failed
Absent == [stage |-> "absent", queued |-> FALSE,
           asked |-> 0, period |-> 0, found |-> {}, unbilled |-> {},
           dues |-> [x \in Residents |-> 0], attempts |-> 0]
Waiting(asked) ==
  [Absent EXCEPT !.stage = "waiting", !.queued = TRUE, !.asked = asked]
End(stage) == [Absent EXCEPT !.stage = stage]

TypeOK == /\ bills \subseteq Bill
          /\ residents \in [Residents -> {"active", "inactive", "deleted"}]
          /\ day \in Days
          /\ runs \in [Runs -> Run]

Init == /\ bills = {}
        /\ residents = [x \in Residents |-> "active"]
        /\ day = 1
        /\ runs = [r \in Runs |-> IF r = 1 THEN Waiting(0) ELSE Absent]

-----------------------------------------------------------------------------
Active == {x \in Residents : residents[x] = "active"}

Total(b) == b.amount + b.due
Open(b) == b.paid < Total(b)
BillsOf(x) == {b \in bills : b.resident = x}
Billed(x, period) == \E b \in BillsOf(x) : b.period = period

(* What some of the bills asked for, and what is still to be paid of them. *)
Asked(some) == SumFunctionOnSet([b \in bills |-> Total(b)], some)
Owing(some) == SumFunctionOnSet([b \in bills |-> Total(b) - b.paid], some)

(* findPendingBalancesByResidents, and outstandingFor of a single invoice. *)
BalanceOfAll(x) == Owing(bills)
Balance(x) == Owing({b \in BillsOf(x) : Open(b)})

Go(r, run) == /\ runs' = [runs EXCEPT ![r] = run]
              /\ UNCHANGED <<bills, residents, day>>

(* generateMonthlyFeesForAllHostels: the active residents...               *)
Listed(r, period) == [runs[r] EXCEPT !.stage = "listed", !.period = period,
                                     !.found = Active]

WorkerBusy == \E q \in Runs : runs[q].queued /\ runs[q].stage \in Working

(* The worker takes a check, which bills only on the first of a month...   *)
TakeCheck(r) ==
  /\ runs[r].stage = "waiting"
  /\ ~WorkerBusy
  /\ Go(r, IF FirstOfMonth(day) THEN Listed(r, Period(day))
           ELSE End("skipped"))

(* ...or a run an admin or an owner has queued, for a period or for the    *)
(* one in which it is taken...                                             *)
Trigger(r, asked) ==
  /\ runs[r].stage = "absent"
  /\ Go(r, Waiting(asked))
TakeTrigger(r) ==
  /\ runs[r].stage = "waiting"
  /\ ~WorkerBusy
  /\ Go(r, Listed(r, IF runs[r].asked = 0 THEN Period(day) ELSE runs[r].asked))

(* ...or a request runs it.                                                *)
Call(r, period) ==
  /\ runs[r].stage = "absent"
  /\ Go(r, Listed(r, period))

(* ...those of them already billed, who are left out...                    *)
Filter(r) ==
  LET unbilled == {x \in runs[r].found : ~Billed(x, runs[r].period)}
  IN  /\ runs[r].stage = "listed"
      /\ Go(r, IF unbilled = {} THEN End("done")
               ELSE [runs[r] EXCEPT !.stage = "filtered", !.unbilled = unbilled])

(* InvoiceService.createInvoice looks for the one bill it is to create.    *)
CreateInvoice(r, x, period) ==
  /\ runs[r].stage = "absent"
  /\ x \in Active
  /\ ~Billed(x, period)
  /\ Go(r, [runs[r] EXCEPT !.stage = "filtered", !.period = period,
                           !.found = {x}, !.unbilled = {x}])

(* ...what they owe...                                                     *)
ReadBalances(r) ==
  /\ runs[r].stage = "filtered"
  /\ Go(r, [runs[r] EXCEPT !.stage = "balanced",
                           !.dues = [x \in Residents |->
                              IF x \in runs[r].unbilled THEN Balance(x) ELSE 0]])

(* A job that fails is tried again from the start, up to its attempts.     *)
FailedOnceMore(r) ==
  IF runs[r].queued /\ runs[r].attempts < Attempts
  THEN [Waiting(runs[r].asked) EXCEPT !.attempts = runs[r].attempts + 1]
  ELSE End("failed")
FailedUncounted(r) ==
  IF runs[r].queued
  THEN [Waiting(runs[r].asked) EXCEPT !.attempts = runs[r].attempts]
  ELSE End("failed")
Failed(r) ==
  IF runs[r].queued /\ runs[r].attempts + 1 < Attempts
  THEN [Waiting(runs[r].asked) EXCEPT !.attempts = runs[r].attempts + 1]
  ELSE End("failed")

(* ...and their bills, all in one transaction: the unique index on         *)
(* resident, period and type, or the reference to a deleted resident,      *)
(* fails all of them for one.                                              *)
Collides(r) == \E x \in runs[r].unbilled :
                 Billed(x, runs[r].period) \/ residents[x] = "deleted"
NewBills(r, amount) ==
  {[resident |-> x, period |-> runs[r].period, amount |-> amount,
    due |-> runs[r].dues[x], paid |-> 0] : x \in runs[r].unbilled}
InsertUnindexed(r, amount) ==
  /\ runs[r].stage = "balanced"
  /\ bills' = bills \cup NewBills(r, amount)
  /\ runs' = [runs EXCEPT ![r].stage = "inserted", ![r].unbilled = {},
                          ![r].dues = Absent.dues]
  /\ UNCHANGED <<residents, day>>
Insert(r, amount) ==
  /\ runs[r].stage = "balanced"
  /\ ~Collides(r)
  /\ bills' = bills \cup NewBills(r, amount)
  /\ runs' = [runs EXCEPT ![r].stage = "inserted", ![r].unbilled = {},
                          ![r].dues = Absent.dues]
  /\ UNCHANGED <<residents, day>>
CollideSilently(r) ==
  /\ runs[r].stage = "balanced"
  /\ Collides(r)
  /\ Go(r, End("done"))
Collide(r) ==
  /\ runs[r].stage = "balanced"
  /\ Collides(r)
  /\ Go(r, Failed(r))

(* The rest of a run: caches, emails, the reload of the invoice.           *)
Finish(r) ==
  /\ runs[r].stage = "inserted"
  /\ Go(r, End("done"))

(* The database or Redis is away, or the process stops: also after the     *)
(* bills are in, and before the queue knows that the job is done.          *)
Fail(r) ==
  /\ runs[r].stage \in Working
  /\ Go(r, Failed(r))

-----------------------------------------------------------------------------
(* The queue's scheduler adds the check of a day unless the one before     *)
(* still waits to be taken for the first time.                             *)
NextDay ==
  /\ day + 1 \in Days
  /\ day' = day + 1
  /\ runs' = IF \E d \in Days : runs[d].stage = "waiting" /\ runs[d].attempts = 0
             THEN runs
             ELSE [runs EXCEPT ![day + 1] = Waiting(0)]
  /\ UNCHANGED <<bills, residents>>

(* An owner marks a resident as gone or as back, or deletes the resident,  *)
(* with whom the bills go (ON DELETE CASCADE).                             *)
Move(x) ==
  /\ residents[x] # "deleted"
  /\ residents' = [residents EXCEPT ![x] = IF @ = "active" THEN "inactive"
                                           ELSE "active"]
  /\ UNCHANGED <<bills, day, runs>>
Delete(x) ==
  /\ residents[x] # "deleted"
  /\ residents' = [residents EXCEPT ![x] = "deleted"]
  /\ bills' = bills \ BillsOf(x)
  /\ UNCHANGED <<day, runs>>

Pay(b, amount) ==
  /\ bills' = (bills \ {b}) \cup {[b EXCEPT !.paid = @ + amount]}
  /\ UNCHANGED <<residents, day, runs>>

Proceed(r) == \/ Filter(r) \/ ReadBalances(r) \/ Collide(r) \/ Finish(r)
              \/ \E a \in Charges : Insert(r, a)

Work == \/ \E r \in Days : TakeCheck(r)
        \/ \E r \in Requests : TakeTrigger(r)
        \/ \E r \in Runs : runs[r].queued /\ Proceed(r)

Next == \/ Work
        \/ \E r \in Requests : ~runs[r].queued /\ Proceed(r)
        \/ \E r \in Runs : Fail(r)
        \/ \E r \in Requests, p \in Periods \cup {0} : Trigger(r, p)
        \/ \E r \in Requests, p \in Periods :
             Call(r, p) \/ \E x \in Residents : CreateInvoice(r, x, p)
        \/ NextDay
        \/ \E x \in Residents : Move(x) \/ Delete(x)
        \/ \E b \in bills : \E a \in 1 .. (Total(b) - b.paid) : Pay(b, a)

Spec == Init /\ [][Next]_vars

(* The worker keeps taking jobs and days pass.                             *)
FairSpec == Spec /\ WF_vars(Work) /\ WF_vars(NextDay)

(* A server that is up all day: the jobs of a day end on that day.         *)
PromptNext == Next /\ (day' # day => \A r \in Runs : ~runs[r].queued)
PromptSpec == /\ Init /\ [][PromptNext]_vars
              /\ WF_vars(Work) /\ WF_vars(NextDay)

-----------------------------------------------------------------------------
(* A resident has one bill a month, whichever of the scheduler, an admin   *)
(* and an owner bill at once (idx_fees_resident_month_year_type).          *)
OneBillPerPeriod ==
  \A b, c \in bills : b.resident = c.resident /\ b.period = c.period => b = c

(* A run that ends well leaves nobody out whom it found active, even where *)
(* others were billing them, or deleting them, or it was tried before.     *)
EndsWell(r) == runs[r].stage \in Working /\ runs'[r].stage = "done"
NobodyLeftOut ==
  [][\A r \in Runs : EndsWell(r) =>
       \A x \in runs[r].found :
         Billed(x, runs[r].period) \/ residents[x] = "deleted"]_vars

(* A new bill carries no more than the resident's earlier bills asked for. *)
DuesComeFromBills ==
  \A b \in bills : b.due <= Asked(BillsOf(b.resident) \ {b})

(* Every job the worker is given ends, however requests, failures and      *)
(* other jobs bill beside it.                                              *)
EveryJobEnds ==
  \A r \in Runs : runs[r].stage = "waiting" ~> runs[r].stage \in Ended

(* "Run automatically on the 1st day of every NEPALI month"                *)
(* (generateMonthlyFeesForAllHostels): who lives in the hostel on the 1st  *)
(* gets the bill of that month, or leaves.                                 *)
EveryMonthBilled ==
  \A x \in Residents, p \in Periods :
    FirstOfMonth(day) /\ Period(day) = p /\ x \in Active
      ~> Billed(x, p) \/ x \notin Active

(* "... so the next billing cycle never re-charges what has just been      *)
(* settled" (applyApprovedProofToFee): who has paid the last bill, with    *)
(* all that it carried forward from the bills still open, carries nothing  *)
(* into the next.                                                          *)
Settled(x) ==
  \E b \in BillsOf(x) :
    /\ ~Open(b)
    /\ \A c \in BillsOf(x) : c.period <= b.period
    /\ Owing(BillsOf(x) \ {b}) <= b.due
NeverRecharged ==
  [][\A r \in Runs, x \in Residents :
       /\ runs[r].stage = "filtered" /\ runs'[r].stage = "balanced"
       /\ x \in runs[r].unbilled /\ Settled(x)
       => runs'[r].dues[x] = 0]_vars

-----------------------------------------------------------------------------
(* What the proofs rest on.  A run that has looked for bills leaves out    *)
(* only residents who are billed by now, or gone.                          *)
Dealt(x, period) == Billed(x, period) \/ residents[x] = "deleted"

RunFits(run) ==
  /\ run.found \subseteq Residents
  /\ run.stage \in {"filtered", "balanced"} =>
       \A x \in run.found : x \in run.unbilled \/ Dealt(x, run.period)
  /\ run.stage = "inserted" => \A x \in run.found : Dealt(x, run.period)

Shape == /\ residents \in [Residents -> {"active", "inactive", "deleted"}]
         /\ DOMAIN runs = Runs
         /\ \A r \in Runs : DOMAIN runs[r] = DOMAIN Absent
         /\ \A b \in bills : {"resident", "period"} \subseteq DOMAIN b

IInv == Shape /\ OneBillPerPeriod /\ \A r \in Runs : RunFits(runs[r])

(* There are finitely many bills to sum, a run at work knows its period... *)
HasPeriod(run) == run.stage \in Working => run.period \in Periods
TypeInv == TypeOK /\ IsFiniteSet(bills) /\ \A r \in Runs : HasPeriod(runs[r])

(* ...and what a run has read of dues, the bills have asked for.           *)
DuesAsked(run) ==
  run.stage = "balanced" =>
    \A x \in run.unbilled :
      residents[x] = "deleted" \/ run.dues[x] <= Asked(BillsOf(x))
DuesInv == DuesComeFromBills /\ \A r \in Runs : DuesAsked(runs[r])
=============================================================================
