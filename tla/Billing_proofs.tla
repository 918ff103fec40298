---------------------------- MODULE Billing_proofs ----------------------------
(***************************************************************************)
(* A resident has one bill a month, and a run that ends well leaves nobody *)
(* out, for any number of residents, days, requests and attempts.          *)
(***************************************************************************)
EXTENDS Billing, Amounts_proofs

NobodyLeftOutByStep ==
  \A r \in Runs : EndsWell(r) => \A x \in runs[r].found : Dealt(x, runs[r].period)

Fields == {"stage", "queued", "asked", "period", "found", "unbilled", "dues", "attempts"}

LEMMA AbsentFields == DOMAIN Absent = Fields
BY DEF Absent, Fields

(* A step that touches one run keeps the invariant if the run fits.        *)
LEMMA GoStep ==
  ASSUME IInv, NEW r \in Runs, NEW run, Go(r, run),
         DOMAIN run = Fields, RunFits(run),
         runs[r].stage \in Working /\ run.stage = "done" =>
           \A x \in runs[r].found : Dealt(x, runs[r].period)
  PROVE  IInv' /\ NobodyLeftOutByStep
<1>1. /\ DOMAIN runs = Runs /\ UNCHANGED <<bills, residents>>
      /\ runs' = [runs EXCEPT ![r] = run]
  BY DEF Go, IInv, Shape
<1>2. DOMAIN runs' = Runs /\ \A q \in Runs : runs'[q] = IF q = r THEN run ELSE runs[q]
  BY <1>1
<1>3. \A x, p : Billed(x, p)' <=> Billed(x, p)
  BY <1>1 DEF Billed, BillsOf
<1>4. \A x, p : Dealt(x, p)' <=> Dealt(x, p)
  BY <1>1, <1>3 DEF Dealt
<1>5. Shape'
  BY <1>1, <1>2, AbsentFields DEF IInv, Shape, Absent
<1>6. OneBillPerPeriod'
  BY <1>1 DEF IInv, OneBillPerPeriod
<1>7. \A q \in Runs : RunFits(runs[q])'
  BY <1>1, <1>2, <1>4 DEF IInv, RunFits, Dealt, Billed, BillsOf
<1>8. NobodyLeftOutByStep
  BY <1>2 DEF NobodyLeftOutByStep, EndsWell, Working
<1>9. QED BY <1>5, <1>6, <1>7, <1>8 DEF IInv

(* The records a run becomes.                                              *)
LEMMA EndFits ==
  ASSUME NEW stage, stage \notin {"filtered", "balanced", "inserted"}
  PROVE  /\ DOMAIN End(stage) = Fields /\ End(stage).stage = stage
         /\ RunFits(End(stage))
<1>1. DOMAIN End(stage) = Fields
  BY AbsentFields DEF End
<1>2. End(stage).stage = stage /\ End(stage).found = {}
  BY DEF End, Absent
<1>3. QED BY <1>1, <1>2 DEF RunFits

LEMMA WaitingFits ==
  ASSUME NEW period, NEW attempts
  PROVE  LET run == [Waiting(period) EXCEPT !.attempts = attempts]
         IN  /\ DOMAIN run = Fields /\ run.stage = "waiting" /\ RunFits(run)
             /\ DOMAIN Waiting(period) = Fields
             /\ Waiting(period).stage = "waiting" /\ RunFits(Waiting(period))
<1>1. PICK run : run = [Waiting(period) EXCEPT !.attempts = attempts]
  OBVIOUS
<1>2. /\ DOMAIN Waiting(period) = Fields
      /\ Waiting(period).stage = "waiting" /\ Waiting(period).found = {}
  BY AbsentFields DEF Waiting, Absent, Fields
<1>3. /\ DOMAIN run = Fields /\ run.stage = "waiting" /\ run.found = {}
  BY <1>1, <1>2 DEF Fields
<1>4. RunFits(run) /\ RunFits(Waiting(period))
  BY <1>2, <1>3 DEF RunFits
<1>5. QED BY <1>1, <1>2, <1>3, <1>4

LEMMA FailedFits ==
  ASSUME NEW r
  PROVE  /\ DOMAIN Failed(r) = Fields /\ Failed(r).stage \in {"waiting", "failed"}
         /\ RunFits(Failed(r))
<1>1. CASE runs[r].queued /\ runs[r].attempts + 1 < Attempts
  BY <1>1, WaitingFits DEF Failed
<1>2. CASE ~(runs[r].queued /\ runs[r].attempts + 1 < Attempts)
  BY <1>2, EndFits DEF Failed
<1>3. QED BY <1>1, <1>2

LEMMA ListedFits ==
  ASSUME IInv, NEW r \in Runs, NEW period
  PROVE  /\ DOMAIN Listed(r, period) = Fields
         /\ Listed(r, period).stage = "listed"
         /\ RunFits(Listed(r, period))
<1>1. DOMAIN runs[r] = Fields
  BY AbsentFields DEF IInv, Shape
<1>2. /\ DOMAIN Listed(r, period) = Fields
      /\ Listed(r, period).stage = "listed"
      /\ Listed(r, period).found = Active
  BY <1>1 DEF Listed, Fields
<1>3. QED BY <1>2 DEF RunFits, Active

-----------------------------------------------------------------------------
LEMMA TakeCheckStep ==
  ASSUME IInv, NEW r \in Runs, TakeCheck(r)
  PROVE  IInv' /\ NobodyLeftOutByStep
<1>1. runs[r].stage \notin Working
  BY DEF TakeCheck, Working
<1>2. CASE FirstOfMonth(day)
  <2>1. Go(r, Listed(r, Period(day)))
    BY <1>2 DEF TakeCheck
  <2>2. QED BY <1>1, <2>1, ListedFits, GoStep
<1>3. CASE ~FirstOfMonth(day)
  <2>1. Go(r, End("skipped"))
    BY <1>3 DEF TakeCheck
  <2>2. QED BY <1>1, <2>1, EndFits, GoStep
<1>4. QED BY <1>2, <1>3

LEMMA StartSteps ==
  ASSUME IInv, NEW r \in Runs, NEW period,
         Trigger(r, period) \/ TakeTrigger(r) \/ Call(r, period)
  PROVE  IInv' /\ NobodyLeftOutByStep
<1>1. runs[r].stage \notin Working
  BY DEF Trigger, TakeTrigger, Call, Working
<1>2. CASE Trigger(r, period)
  <2>1. Go(r, Waiting(period))
    BY <1>2 DEF Trigger
  <2>2. QED BY <1>1, <2>1, WaitingFits, GoStep
<1>3. CASE TakeTrigger(r)
  <2>1. PICK p : p = IF runs[r].asked = 0 THEN Period(day) ELSE runs[r].asked
    OBVIOUS
  <2>2. Go(r, Listed(r, p))
    BY <1>3, <2>1 DEF TakeTrigger
  <2>3. QED BY <1>1, <2>2, ListedFits, GoStep
<1>4. CASE Call(r, period)
  <2>1. Go(r, Listed(r, period))
    BY <1>4 DEF Call
  <2>2. QED BY <1>1, <2>1, ListedFits, GoStep
<1>5. QED BY <1>2, <1>3, <1>4

LEMMA FilterStep ==
  ASSUME IInv, NEW r \in Runs, Filter(r)
  PROVE  IInv' /\ NobodyLeftOutByStep
<1>1. PICK unbilled :
        unbilled = {x \in runs[r].found : ~Billed(x, runs[r].period)}
  OBVIOUS
<1>2. Go(r, IF unbilled = {} THEN End("done")
            ELSE [runs[r] EXCEPT !.stage = "filtered", !.unbilled = unbilled])
  BY <1>1 DEF Filter
<1>3. \A x \in runs[r].found : x \in unbilled \/ Dealt(x, runs[r].period)
  BY <1>1 DEF Dealt
<1>4. CASE unbilled = {}
  <2>1. Go(r, End("done"))
    BY <1>2, <1>4
  <2>2. QED BY <1>3, <1>4, <2>1, EndFits, GoStep
<1>5. CASE unbilled # {}
  <2>1. PICK run : run = [runs[r] EXCEPT !.stage = "filtered", !.unbilled = unbilled]
    OBVIOUS
  <2>2. Go(r, run)
    BY <1>2, <1>5, <2>1
  <2>3. DOMAIN runs[r] = Fields /\ runs[r].found \subseteq Residents
    BY AbsentFields DEF IInv, Shape, RunFits
  <2>4. /\ DOMAIN run = Fields /\ run.stage = "filtered" /\ run.found = runs[r].found
        /\ run.unbilled = unbilled /\ run.period = runs[r].period
    BY <2>1, <2>3 DEF Fields
  <2>5. RunFits(run)
    BY <1>3, <2>3, <2>4 DEF RunFits
  <2>6. QED BY <2>2, <2>4, <2>5, GoStep
<1>6. QED BY <1>4, <1>5

LEMMA CreateInvoiceStep ==
  ASSUME IInv, NEW r \in Runs, NEW x \in Residents, NEW period,
         CreateInvoice(r, x, period)
  PROVE  IInv' /\ NobodyLeftOutByStep
<1>1. PICK run : run = [runs[r] EXCEPT !.stage = "filtered", !.period = period,
                                       !.found = {x}, !.unbilled = {x}]
  OBVIOUS
<1>2. Go(r, run) /\ runs[r].stage \notin Working
  BY <1>1 DEF CreateInvoice, Working
<1>3. DOMAIN runs[r] = Fields
  BY AbsentFields DEF IInv, Shape
<1>4. /\ DOMAIN run = Fields /\ run.stage = "filtered"
      /\ run.found = {x} /\ run.unbilled = {x}
  BY <1>1, <1>3 DEF Fields
<1>5. RunFits(run)
  BY <1>4 DEF RunFits
<1>6. QED BY <1>2, <1>4, <1>5, GoStep

LEMMA ReadBalancesStep ==
  ASSUME IInv, NEW r \in Runs, ReadBalances(r)
  PROVE  IInv' /\ NobodyLeftOutByStep
<1>1. PICK dues : dues = [x \in Residents |->
                            IF x \in runs[r].unbilled THEN Balance(x) ELSE 0]
  OBVIOUS
<1>2. PICK run : run = [runs[r] EXCEPT !.stage = "balanced", !.dues = dues]
  OBVIOUS
<1>3. Go(r, run) /\ runs[r].stage = "filtered"
  BY <1>1, <1>2 DEF ReadBalances
<1>4. DOMAIN runs[r] = Fields /\ RunFits(runs[r])
  BY AbsentFields DEF IInv, Shape
<1>5. /\ DOMAIN run = Fields /\ run.stage = "balanced" /\ run.found = runs[r].found
      /\ run.unbilled = runs[r].unbilled /\ run.period = runs[r].period
  BY <1>2, <1>4 DEF Fields
<1>6. RunFits(run)
  BY <1>3, <1>4, <1>5 DEF RunFits
<1>7. QED BY <1>3, <1>5, <1>6, GoStep

LEMMA EndSteps ==
  ASSUME IInv, NEW r \in Runs, Collide(r) \/ Fail(r) \/ Finish(r)
  PROVE  IInv' /\ NobodyLeftOutByStep
<1>1. CASE Collide(r) \/ Fail(r)
  <2>1. Go(r, Failed(r))
    BY <1>1 DEF Collide, Fail
  <2>2. QED BY <2>1, FailedFits, GoStep
<1>2. CASE Finish(r)
  <2>1. Go(r, End("done")) /\ runs[r].stage = "inserted"
    BY <1>2 DEF Finish
  <2>2. \A x \in runs[r].found : Dealt(x, runs[r].period)
    BY <2>1 DEF IInv, RunFits
  <2>3. QED BY <2>1, <2>2, EndFits, GoStep
<1>3. QED BY <1>1, <1>2

-----------------------------------------------------------------------------
(* The insert: no resident of the run has a bill of its period yet.        *)
LEMMA InsertStep ==
  ASSUME IInv, NEW r \in Runs, NEW amount, Insert(r, amount)
  PROVE  IInv' /\ NobodyLeftOutByStep
<1>1. PICK run : run = [runs[r] EXCEPT !.stage = "inserted", !.unbilled = {},
                                       !.dues = Absent.dues]
  OBVIOUS
<1>2. /\ runs[r].stage = "balanced" /\ ~Collides(r)
      /\ bills' = bills \cup NewBills(r, amount)
      /\ UNCHANGED <<residents, day>>
  BY DEF Insert
<1>3. DOMAIN runs = Runs /\ DOMAIN runs[r] = Fields /\ RunFits(runs[r])
  BY AbsentFields DEF IInv, Shape
<1>4. runs' = [runs EXCEPT ![r] = run]
  BY <1>1, <1>3 DEF Insert
<1>5. /\ DOMAIN run = Fields /\ run.stage = "inserted"
      /\ run.found = runs[r].found /\ run.period = runs[r].period
  BY <1>1, <1>3 DEF Fields
<1>6. DOMAIN runs' = Runs /\ \A q \in Runs : runs'[q] = IF q = r THEN run ELSE runs[q]
  BY <1>3, <1>4
<1>7. \A b \in NewBills(r, amount) :
        /\ {"resident", "period"} \subseteq DOMAIN b
        /\ b.resident \in runs[r].unbilled /\ b.period = runs[r].period
  BY DEF NewBills
<1>8. \A b, c \in NewBills(r, amount) : b.resident = c.resident => b = c
  BY DEF NewBills
<1>9. \A x \in runs[r].unbilled : ~Billed(x, runs[r].period)
  BY <1>2 DEF Collides
<1>10. \A b \in bills, c \in NewBills(r, amount) :
         ~(b.resident = c.resident /\ b.period = c.period)
  BY <1>7, <1>9 DEF Billed, BillsOf
<1>11. OneBillPerPeriod'
  BY <1>2, <1>8, <1>10 DEF IInv, OneBillPerPeriod
<1>12. \A x, p : Dealt(x, p) => Dealt(x, p)'
  BY <1>2 DEF Dealt, Billed, BillsOf
<1>13. \A x \in runs[r].unbilled : Billed(x, run.period)'
  <2>1. SUFFICES ASSUME NEW x \in runs[r].unbilled
                 PROVE  \E b \in NewBills(r, amount) :
                          b.resident = x /\ b.period = runs[r].period
    BY <1>2, <1>5 DEF Billed, BillsOf
  <2>2. PICK b : b = [resident |-> x, period |-> runs[r].period,
                      amount |-> amount, due |-> runs[r].dues[x], paid |-> 0]
    OBVIOUS
  <2>3. b \in NewBills(r, amount)
    BY <2>2 DEF NewBills
  <2>4. QED BY <2>2, <2>3
<1>14. \A x \in run.found : Dealt(x, run.period)'
  <2>1. \A x \in run.found : x \in runs[r].unbilled \/ Dealt(x, run.period)
    BY <1>2, <1>3, <1>5 DEF RunFits
  <2>2. \A x \in runs[r].unbilled : Dealt(x, run.period)'
    BY <1>13 DEF Dealt
  <2>3. QED BY <1>12, <2>1, <2>2
<1>15. Shape'
  BY <1>2, <1>5, <1>6, <1>7, AbsentFields DEF IInv, Shape, Absent
<1>16. \A q \in Runs : RunFits(runs[q])'
  <2>1. RunFits(run)'
    BY <1>3, <1>5, <1>14 DEF RunFits
  <2>2. ASSUME NEW q \in Runs, q # r
        PROVE  RunFits(runs[q])'
    <3>1. PICK other : other = runs[q]
      OBVIOUS
    <3>2. RunFits(other) /\ runs'[q] = other
      BY <1>6, <2>2, <3>1 DEF IInv
    <3>3. QED BY <1>12, <3>2 DEF RunFits
  <2>3. runs'[r] = run
    BY <1>6
  <2>4. RunFits(runs[r])'
    BY <2>1, <2>3 DEF RunFits
  <2>5. QED BY <2>2, <2>4
<1>17. NobodyLeftOutByStep
  BY <1>5, <1>6 DEF NobodyLeftOutByStep, EndsWell, Working
<1>18. QED BY <1>11, <1>15, <1>16, <1>17 DEF IInv

-----------------------------------------------------------------------------
LEMMA NextDayStep ==
  ASSUME IInv, NextDay
  PROVE  IInv' /\ NobodyLeftOutByStep
<1>1. DOMAIN runs = Runs /\ UNCHANGED <<bills, residents>> /\ day + 1 \in Runs
  BY DEF NextDay, IInv, Shape, Runs
<1>2. /\ DOMAIN Waiting(0) = Fields /\ Waiting(0).stage = "waiting"
      /\ RunFits(Waiting(0))
  BY WaitingFits
<1>3. \A q \in Runs : runs'[q] = runs[q] \/ runs'[q] = Waiting(0)
  BY <1>1 DEF NextDay
<1>4. DOMAIN runs' = Runs
  BY <1>1 DEF NextDay
<1>5. Shape'
  BY <1>1, <1>2, <1>3, <1>4, AbsentFields DEF IInv, Shape, Absent
<1>6. OneBillPerPeriod'
  BY <1>1 DEF IInv, OneBillPerPeriod
<1>7. \A q \in Runs : RunFits(runs[q])'
  <2>1. RunFits(Waiting(0))'
    BY <1>1, <1>2 DEF RunFits, Dealt, Billed, BillsOf, Waiting, Absent
  <2>2. \A q \in Runs : RunFits(runs[q])
    BY DEF IInv
  <2>3. QED BY <1>1, <1>2, <1>3, <2>2 DEF RunFits, Dealt, Billed, BillsOf
<1>8. NobodyLeftOutByStep
  BY <1>2, <1>3 DEF NobodyLeftOutByStep, EndsWell, Working
<1>9. QED BY <1>5, <1>6, <1>7, <1>8 DEF IInv

(* Steps that leave the runs alone: what a run has dealt with stays so.    *)
LEMMA OutsideStep ==
  ASSUME IInv, UNCHANGED runs, Shape', OneBillPerPeriod',
         \A x \in Residents : \A p : Dealt(x, p) => Dealt(x, p)'
  PROVE  IInv' /\ NobodyLeftOutByStep
<1>1. \A q \in Runs : RunFits(runs[q])'
  BY DEF IInv, RunFits
<1>2. NobodyLeftOutByStep
  BY DEF NobodyLeftOutByStep, EndsWell, Working
<1>3. QED BY <1>1, <1>2 DEF IInv

LEMMA MoveStep ==
  ASSUME IInv, NEW x \in Residents, Move(x)
  PROVE  IInv' /\ NobodyLeftOutByStep
<1>1. /\ residents[x] # "deleted" /\ UNCHANGED <<bills, runs>>
      /\ residents' = [residents EXCEPT
           ![x] = IF residents[x] = "active" THEN "inactive" ELSE "active"]
  BY DEF Move
<1>2. Shape' /\ OneBillPerPeriod'
  BY <1>1 DEF IInv, Shape, OneBillPerPeriod, Absent
<1>3. \A y \in Residents : residents[y] = "deleted" => residents'[y] = "deleted"
  BY <1>1 DEF IInv, Shape
<1>4. \A y \in Residents : \A p : Dealt(y, p) => Dealt(y, p)'
  BY <1>1, <1>3 DEF Dealt, Billed, BillsOf
<1>5. QED BY <1>1, <1>2, <1>4, OutsideStep

LEMMA DeleteStep ==
  ASSUME IInv, NEW x \in Residents, Delete(x)
  PROVE  IInv' /\ NobodyLeftOutByStep
<1>1. /\ residents' = [residents EXCEPT ![x] = "deleted"]
      /\ bills' = bills \ BillsOf(x) /\ UNCHANGED runs
  BY DEF Delete
<1>2. Shape' /\ OneBillPerPeriod'
  BY <1>1 DEF IInv, Shape, OneBillPerPeriod, Absent
<1>3. \A y \in Residents : residents'[y] = IF y = x THEN "deleted" ELSE residents[y]
  BY <1>1 DEF IInv, Shape
<1>4. \A y \in Residents : \A p : Dealt(y, p) => Dealt(y, p)'
  BY <1>1, <1>3 DEF Dealt, Billed, BillsOf
<1>5. QED BY <1>1, <1>2, <1>4, OutsideStep

LEMMA PayStep ==
  ASSUME IInv, NEW b \in bills, NEW amount, Pay(b, amount)
  PROVE  IInv' /\ NobodyLeftOutByStep
<1>1. PICK c : c = [b EXCEPT !.paid = @ + amount]
  OBVIOUS
<1>2. bills' = (bills \ {b}) \cup {c} /\ UNCHANGED <<residents, runs>>
  BY <1>1 DEF Pay
<1>3. /\ {"resident", "period"} \subseteq DOMAIN b
      /\ DOMAIN c = DOMAIN b
  BY <1>1 DEF IInv, Shape
<1>4. c.resident = b.resident /\ c.period = b.period
  BY <1>1, <1>3
<1>5. Shape'
  BY <1>2, <1>3 DEF IInv, Shape, Absent
<1>6. OneBillPerPeriod'
  BY <1>2, <1>4 DEF IInv, OneBillPerPeriod
<1>7. \A x, p : Billed(x, p) => Billed(x, p)'
  BY <1>2, <1>4 DEF Billed, BillsOf
<1>8. QED BY <1>2, <1>5, <1>6, <1>7, OutsideStep DEF Dealt

-----------------------------------------------------------------------------
LEMMA InitFits == Init => IInv
<1>1. SUFFICES ASSUME Init PROVE IInv
  OBVIOUS
<1>2. /\ DOMAIN Waiting(0) = Fields /\ Waiting(0).stage = "waiting"
      /\ RunFits(Waiting(0))
  BY WaitingFits
<1>3. RunFits(Absent)
  BY DEF RunFits, Absent
<1>4. /\ DOMAIN runs = Runs
      /\ \A r \in Runs : runs[r] = Waiting(0) \/ runs[r] = Absent
  BY <1>1 DEF Init
<1>5. Shape
  BY <1>1, <1>2, <1>4, AbsentFields DEF Init, Shape
<1>6. QED BY <1>1, <1>2, <1>3, <1>4, <1>5 DEF IInv, OneBillPerPeriod, Init

LEMMA NextFits ==
  ASSUME IInv, Next
  PROVE  IInv' /\ NobodyLeftOutByStep
<1>1. ASSUME NEW r \in Runs, Proceed(r) PROVE IInv' /\ NobodyLeftOutByStep
  BY <1>1, FilterStep, ReadBalancesStep, EndSteps, InsertStep DEF Proceed
<1>2. Requests \subseteq Runs /\ Days \subseteq Runs
  BY DEF Runs
<1>3. CASE Work
  BY <1>1, <1>2, <1>3, TakeCheckStep, StartSteps DEF Work
<1>4. CASE \E r \in Runs : Fail(r)
  BY <1>4, EndSteps
<1>5. CASE \/ \E r \in Requests, p \in Periods \cup {0} : Trigger(r, p)
           \/ \E r \in Requests, p \in Periods :
                Call(r, p) \/ \E x \in Residents : CreateInvoice(r, x, p)
  BY <1>2, <1>5, StartSteps, CreateInvoiceStep
<1>6. CASE \E x \in Residents : Move(x) \/ Delete(x)
  BY <1>6, MoveStep, DeleteStep
<1>7. CASE \E b \in bills : \E a \in 1 .. (Total(b) - b.paid) : Pay(b, a)
  BY <1>7, PayStep
<1>8. QED BY <1>1, <1>2, <1>3, <1>4, <1>5, <1>6, <1>7, NextDayStep DEF Next

LEMMA StutterFits ==
  ASSUME IInv, UNCHANGED vars
  PROVE  IInv' /\ NobodyLeftOutByStep
<1>1. Shape' /\ OneBillPerPeriod'
  BY DEF IInv, Shape, OneBillPerPeriod, vars, Absent
<1>2. \A x, p : Dealt(x, p) => Dealt(x, p)'
  BY DEF Dealt, Billed, BillsOf, vars
<1>3. QED BY <1>1, <1>2, OutsideStep DEF vars

(* The invariant the two others follow from.                               *)
THEOREM Invariance == Spec => []IInv
<1>1. IInv /\ [Next]_vars => IInv'
  BY NextFits, StutterFits
<1>2. QED BY <1>1, InitFits, PTL DEF Spec

(* Whoever bills, in whatever order, a resident has one bill a month.      *)
THEOREM BilledOnce == Spec => []OneBillPerPeriod
<1>1. IInv => OneBillPerPeriod
  BY DEF IInv
<1>2. QED BY <1>1, Invariance, PTL

(* A run that ends well has billed everybody it found, or found billed.    *)
THEOREM AllBilled == Spec => NobodyLeftOut
<1>1. IInv /\ [Next]_vars =>
        [\A r \in Runs : EndsWell(r) =>
           \A x \in runs[r].found :
             Billed(x, runs[r].period) \/ residents[x] = "deleted"]_vars
  BY NextFits, StutterFits DEF NobodyLeftOutByStep, Dealt
<1>2. QED BY <1>1, Invariance, PTL DEF Spec, NobodyLeftOut

-----------------------------------------------------------------------------
(* Types.  The records a run becomes, and the bills, of which there are    *)
(* finitely many.                                                          *)
LEMMA RunTypes ==
  ASSUME TypeOK, NEW r \in Runs, NEW period \in Periods
  PROVE  /\ Absent \in Run
         /\ \A asked \in {0} \cup Periods : Waiting(asked) \in Run
         /\ \A stage \in Ended : End(stage) \in Run
         /\ Listed(r, period) \in Run /\ HasPeriod(Listed(r, period))
         /\ Failed(r) \in Run /\ HasPeriod(Failed(r))
         /\ \A asked : HasPeriod(Waiting(asked))
         /\ \A stage \in Ended : HasPeriod(End(stage))
<1>1. /\ 0 \in 0 .. Attempts - 1 /\ Attempts \in Nat
      /\ [x \in Residents |-> 0] \in [Residents -> Nat]
  BY BillingAssumption DEF BillingAssumption
<1>2. Absent \in Run
  BY <1>1 DEF Absent, Run
<1>3. ASSUME NEW asked \in {0} \cup Periods PROVE Waiting(asked) \in Run
  BY <1>2, <1>3 DEF Waiting, Run
<1>4. ASSUME NEW stage \in Ended PROVE End(stage) \in Run
  BY <1>2, <1>4 DEF End, Run
<1>5. runs[r] \in Run
  BY DEF TypeOK
<1>6. Listed(r, period) \in Run /\ HasPeriod(Listed(r, period))
  <2>1. Active \in SUBSET Residents
    BY DEF Active
  <2>2. QED BY <1>5, <2>1 DEF Listed, Run, Working, HasPeriod
<1>7. Failed(r) \in Run /\ HasPeriod(Failed(r))
  <2>1. CASE runs[r].queued /\ runs[r].attempts + 1 < Attempts
    <3>1. runs[r].asked \in {0} \cup Periods /\ runs[r].attempts \in 0 .. Attempts - 1
      BY <1>5 DEF Run
    <3>2. runs[r].attempts + 1 \in 0 .. Attempts - 1
      BY <1>1, <2>1, <3>1
    <3>3. Waiting(runs[r].asked) \in Run
      BY <1>3, <3>1
    <3> DEFINE again == Waiting(runs[r].asked)
    <3>4. /\ [again EXCEPT !.attempts = runs[r].attempts + 1] \in Run
          /\ HasPeriod([again EXCEPT !.attempts = runs[r].attempts + 1])
      <4>1. again.stage = "waiting"
        BY DEF Waiting, Absent
      <4> HIDE DEF again
      <4>2. again \in Run
        BY <3>3 DEF again
      <4>3. QED BY <3>2, <4>1, <4>2 DEF Run, HasPeriod, Working
    <3>5. QED BY <2>1, <3>4 DEF Failed
  <2>2. CASE ~(runs[r].queued /\ runs[r].attempts + 1 < Attempts)
    BY <1>4, <2>2 DEF Failed, Ended, HasPeriod, End, Absent, Working
  <2>3. QED BY <2>1, <2>2
<1>8. /\ \A asked : HasPeriod(Waiting(asked))
      /\ \A stage \in Ended : HasPeriod(End(stage))
  BY DEF HasPeriod, Waiting, End, Absent, Working, Ended
<1>9. QED BY <1>2, <1>3, <1>4, <1>6, <1>7, <1>8

LEMMA GoTyped ==
  ASSUME TypeInv, NEW r \in Runs, NEW run \in Run, HasPeriod(run), Go(r, run)
  PROVE  TypeInv'
BY DEF TypeInv, TypeOK, Go, HasPeriod

(* What is owed on open bills is a sum of what is positive.                *)
LEMMA OwingIsNat ==
  ASSUME TypeInv, NEW some \in SUBSET bills, \A b \in some : Open(b)
  PROVE  Owing(some) \in Nat
<1> DEFINE w == [b \in bills |-> Total(b) - b.paid]
<1>1. IsFiniteSet(some)
  BY FS_Subset DEF TypeInv
<1>2. ASSUME NEW b \in some PROVE w[b] \in Nat
  <2>1. b \in Bill /\ b.paid < Total(b)
    BY <1>2 DEF TypeInv, TypeOK, Open
  <2>2. b.paid \in Nat /\ Total(b) \in Nat
    BY <2>1 DEF Bill, Total
  <2>3. QED BY <2>1, <2>2
<1> HIDE DEF w
<1>3. QED BY <1>1, <1>2, SumIsNat DEF Owing, w

LEMMA NewBillsTyped ==
  ASSUME TypeInv, NEW r \in Runs, NEW amount \in Charges, runs[r].period \in Periods
  PROVE  NewBills(r, amount) \subseteq Bill /\ IsFiniteSet(NewBills(r, amount))
<1>1. /\ runs[r].unbilled \subseteq Residents /\ amount \in Nat \ {0}
      /\ runs[r].dues \in [Residents -> Nat]
  BY BillingAssumption DEF TypeInv, TypeOK, Run, BillingAssumption
<1>2. NewBills(r, amount) \subseteq Bill
  BY <1>1 DEF NewBills, Bill
<1> DEFINE bill == [x \in runs[r].unbilled |->
                      [resident |-> x, period |-> runs[r].period, amount |-> amount,
                       due |-> runs[r].dues[x], paid |-> 0]]
<1>3. bill \in Surjection(runs[r].unbilled, NewBills(r, amount))
  BY DEF Surjection, NewBills
<1>4. IsFiniteSet(runs[r].unbilled)
  BY <1>1, BillingAssumption, FS_Subset DEF BillingAssumption
<1>5. QED BY <1>2, <1>3, <1>4, FS_Surjection

LEMMA InitTyped == Init => TypeInv
<1>1. SUFFICES ASSUME Init PROVE TypeInv
  OBVIOUS
<1>2. 1 \in Days /\ Attempts \in Nat \ {0}
  BY BillingAssumption DEF BillingAssumption, Days
<1>3. Absent \in Run /\ HasPeriod(Absent)
  BY <1>2 DEF Absent, Run, HasPeriod, Working
<1>4. Waiting(0) \in Run /\ HasPeriod(Waiting(0))
  BY <1>3 DEF Waiting, Run, Absent, HasPeriod, Working
<1>5. QED BY <1>1, <1>2, <1>3, <1>4, FS_EmptySet DEF Init, TypeInv, TypeOK

LEMMA ProceedTyped ==
  ASSUME TypeInv, NEW r \in Runs, Proceed(r)
  PROVE  TypeInv'
<1>1. runs[r] \in Run /\ HasPeriod(runs[r]) /\ day \in Days
  BY DEF TypeInv, TypeOK
<1>2. Period(day) \in Periods
  BY <1>1 DEF Periods
<1>3. CASE Filter(r)
  <2> DEFINE unbilled == {x \in runs[r].found : ~Billed(x, runs[r].period)}
             run == [runs[r] EXCEPT !.stage = "filtered", !.unbilled = unbilled]
  <2>1. unbilled \in SUBSET Residents
    BY <1>1 DEF Run
  <2> HIDE DEF unbilled
  <2>2. run \in Run /\ HasPeriod(run)
    BY <1>1, <1>3, <2>1 DEF Run, Working, HasPeriod, Filter
  <2> HIDE DEF run
  <2>3. End("done") \in Run /\ HasPeriod(End("done"))
    BY <1>2, RunTypes DEF TypeInv, Ended
  <2>4. Go(r, End("done")) \/ Go(r, run)
    BY <1>3 DEF Filter, run, unbilled
  <2>5. QED BY <2>2, <2>3, <2>4, GoTyped
<1>4. CASE ReadBalances(r)
  <2> DEFINE dues == [x \in Residents |->
                        IF x \in runs[r].unbilled THEN Balance(x) ELSE 0]
             run == [runs[r] EXCEPT !.stage = "balanced", !.dues = dues]
  <2>1. ASSUME NEW x PROVE Balance(x) \in Nat
    <3>1. {b \in BillsOf(x) : Open(b)} \in SUBSET bills
      BY DEF BillsOf
    <3>2. QED BY <3>1, OwingIsNat DEF Balance
  <2>2. dues \in [Residents -> Nat]
    BY <2>1
  <2> HIDE DEF dues
  <2>3. run \in Run /\ HasPeriod(run)
    BY <1>1, <1>4, <2>2 DEF Run, Working, HasPeriod, ReadBalances
  <2> HIDE DEF run
  <2>4. Go(r, run)
    BY <1>4 DEF ReadBalances, run, dues
  <2>5. QED BY <2>3, <2>4, GoTyped
<1>5. CASE Collide(r) \/ Finish(r)
  <2>1. Go(r, Failed(r)) \/ Go(r, End("done"))
    BY <1>5 DEF Collide, Finish
  <2>2. /\ Failed(r) \in Run /\ End("done") \in Run
        /\ HasPeriod(Failed(r)) /\ HasPeriod(End("done"))
    BY <1>2, RunTypes DEF TypeInv, Ended
  <2>3. QED BY <2>1, <2>2, GoTyped
<1>6. ASSUME NEW amount \in Charges, Insert(r, amount) PROVE TypeInv'
  <2> DEFINE run == [runs[r] EXCEPT !.stage = "inserted", !.unbilled = {},
                                    !.dues = Absent.dues]
  <2>1. Absent.dues \in [Residents -> Nat]
    BY DEF Absent
  <2>2. run \in Run /\ HasPeriod(run) /\ runs[r].period \in Periods
    BY <1>1, <1>6, <2>1 DEF Run, Working, HasPeriod, Insert
  <2>3. /\ NewBills(r, amount) \subseteq Bill /\ IsFiniteSet(NewBills(r, amount))
    BY <2>2, NewBillsTyped
  <2>4. /\ bills' = bills \cup NewBills(r, amount)
        /\ runs' = [runs EXCEPT ![r] = run] /\ UNCHANGED <<residents, day>>
    BY <1>6 DEF Insert, TypeInv, TypeOK, Run
  <2> HIDE DEF run
  <2>5. IsFiniteSet(bills')
    BY <2>3, <2>4, FS_Union DEF TypeInv
  <2>6. QED BY <2>2, <2>3, <2>4, <2>5 DEF TypeInv, TypeOK, HasPeriod
<1>7. QED BY <1>3, <1>4, <1>5, <1>6 DEF Proceed

LEMMA NextTyped ==
  ASSUME TypeInv, Next
  PROVE  TypeInv'
<1>1. /\ Requests \subseteq Runs /\ Days \subseteq Runs /\ day \in Days
      /\ Period(day) \in Periods
  BY DEF Runs, Periods, TypeInv, TypeOK
<1>2. ASSUME NEW r \in Runs, TakeCheck(r) PROVE TypeInv'
  <2>1. Go(r, Listed(r, Period(day))) \/ Go(r, End("skipped"))
    BY <1>2 DEF TakeCheck
  <2>2. QED BY <1>1, <2>1, RunTypes, GoTyped DEF TypeInv, Ended
<1>3. ASSUME NEW r \in Runs, TakeTrigger(r) PROVE TypeInv'
  <2>1. runs[r].asked \in {0} \cup Periods
    BY DEF TypeInv, TypeOK, Run
  <2>2. PICK p \in Periods : Go(r, Listed(r, p))
    BY <1>1, <1>3, <2>1 DEF TakeTrigger
  <2>3. QED BY <2>2, RunTypes, GoTyped DEF TypeInv
<1>4. ASSUME NEW r \in Runs, NEW p \in Periods \cup {0}, Trigger(r, p) PROVE TypeInv'
  BY <1>1, <1>4, RunTypes, GoTyped DEF Trigger, TypeInv
<1>5. ASSUME NEW r \in Runs, NEW p \in Periods, Call(r, p) PROVE TypeInv'
  BY <1>5, RunTypes, GoTyped DEF Call, TypeInv
<1>6. ASSUME NEW r \in Runs, NEW p \in Periods, NEW x \in Residents,
             CreateInvoice(r, x, p)
      PROVE  TypeInv'
  <2> DEFINE run == [runs[r] EXCEPT !.stage = "filtered", !.period = p,
                                    !.found = {x}, !.unbilled = {x}]
  <2>1. run \in Run /\ HasPeriod(run)
    BY DEF TypeInv, TypeOK, Run, Working, HasPeriod
  <2>2. Go(r, run)
    BY <1>6 DEF CreateInvoice
  <2> HIDE DEF run
  <2>3. QED BY <2>1, <2>2, GoTyped
<1>7. ASSUME NEW r \in Runs, Fail(r) PROVE TypeInv'
  BY <1>1, <1>7, RunTypes, GoTyped DEF Fail, TypeInv
<1>8. CASE NextDay
  <2>1. Waiting(0) \in Run /\ HasPeriod(Waiting(0))
    BY <1>1, RunTypes DEF TypeInv
  <2>2. day + 1 \in Runs /\ day' \in Days /\ UNCHANGED <<bills, residents>>
    BY <1>1, <1>8 DEF NextDay
  <2>3. runs' = runs \/ runs' = [runs EXCEPT ![day + 1] = Waiting(0)]
    BY <1>8 DEF NextDay
  <2>4. QED BY <2>1, <2>2, <2>3 DEF TypeInv, TypeOK, HasPeriod
<1>9. ASSUME NEW x \in Residents, Move(x) PROVE TypeInv'
  BY <1>9 DEF Move, TypeInv, TypeOK, HasPeriod
<1>10. ASSUME NEW x \in Residents, Delete(x) PROVE TypeInv'
  <2>1. bills' \in SUBSET bills
    BY <1>10 DEF Delete
  <2>2. IsFiniteSet(bills')
    BY <2>1, FS_Subset DEF TypeInv
  <2>3. QED BY <1>10, <2>1, <2>2 DEF Delete, TypeInv, TypeOK, HasPeriod
<1>11. ASSUME NEW b \in bills, NEW a \in 1 .. (Total(b) - b.paid), Pay(b, a)
       PROVE  TypeInv'
  <2> DEFINE c == [b EXCEPT !.paid = @ + a]
  <2>1. b \in Bill /\ Total(b) \in Nat /\ a \in Nat
    BY DEF TypeInv, TypeOK, Bill, Total
  <2>2. c \in Bill
    BY <2>1 DEF Bill
  <2>3. bills' = (bills \ {b}) \cup {c} /\ UNCHANGED <<residents, day, runs>>
    BY <1>11 DEF Pay
  <2> HIDE DEF c
  <2>4. IsFiniteSet(bills')
    BY <2>3, FS_AddElement, FS_RemoveElement DEF TypeInv
  <2>5. QED BY <2>2, <2>3, <2>4 DEF TypeInv, TypeOK, HasPeriod
<1>12. QED BY <1>1, <1>2, <1>3, <1>4, <1>5, <1>6, <1>7, <1>8, <1>9, <1>10, <1>11,
              ProceedTyped DEF Next, Work

LEMMA TypeInvariance == Spec => []TypeInv
<1>1. TypeInv /\ [Next]_vars => TypeInv'
  <2>1. ASSUME TypeInv, UNCHANGED vars PROVE TypeInv'
    BY <2>1 DEF TypeInv, TypeOK, HasPeriod, vars
  <2>2. QED BY <2>1, NextTyped
<1>2. QED BY <1>1, InitTyped, PTL DEF Spec

(* The bills, the residents and what every run has read keep their types.  *)
THEOREM BillsTyped == Spec => []TypeOK
<1>1. TypeInv => TypeOK
  BY DEF TypeInv
<1>2. QED BY <1>1, TypeInvariance, PTL

-----------------------------------------------------------------------------
(* Dues.  What some bills asked for, by any function that has their totals.*)
LEMMA AskedIs ==
  ASSUME TypeInv, NEW some \in SUBSET bills,
         NEW w, \A b \in some : w[b] = Total(b)
  PROVE  /\ Asked(some) = SumFunctionOnSet(w, some)
         /\ Asked(some) \in Nat /\ IsFiniteSet(some)
         /\ \A b \in some : w[b] \in Nat
<1> DEFINE totals == [b \in bills |-> Total(b)]
<1>1. IsFiniteSet(some)
  BY FS_Subset DEF TypeInv
<1>2. \A b \in some : w[b] \in Nat /\ totals[b] = w[b]
  BY DEF TypeInv, TypeOK, Bill, Total
<1> HIDE DEF totals
<1>3. SumFunctionOnSet(totals, some) = SumFunctionOnSet(w, some)
  BY <1>1, <1>2, SumSame
<1>4. SumFunctionOnSet(w, some) \in Nat
  BY <1>1, <1>2, SumIsNat
<1>5. QED BY <1>1, <1>2, <1>3, <1>4 DEF Asked, totals

(* The same after a step.                                                  *)
AskedThen(some) == SumFunctionOnSet([b \in bills' |-> Total(b)], some)
BillsThen(x) == {b \in bills' : b.resident = x}

LEMMA AskedThenIs ==
  ASSUME TypeInv', NEW some \in SUBSET bills',
         NEW w, \A b \in some : w[b] = Total(b)
  PROVE  /\ AskedThen(some) = SumFunctionOnSet(w, some)
         /\ AskedThen(some) \in Nat /\ IsFiniteSet(some)
         /\ \A b \in some : w[b] \in Nat
<1> DEFINE totals == [b \in bills' |-> Total(b)]
<1>1. IsFiniteSet(some)
  BY FS_Subset DEF TypeInv
<1>2. \A b \in some : w[b] \in Nat /\ totals[b] = w[b]
  BY DEF TypeInv, TypeOK, Bill, Total
<1> HIDE DEF totals
<1>3. SumFunctionOnSet(totals, some) = SumFunctionOnSet(w, some)
  BY <1>1, <1>2, SumSame
<1>4. SumFunctionOnSet(w, some) \in Nat
  BY <1>1, <1>2, SumIsNat
<1>5. QED BY <1>1, <1>2, <1>3, <1>4 DEF AskedThen, totals

(* More bills ask for more...                                              *)
LEMMA AskedGrows ==
  ASSUME TypeInv, TypeInv', NEW some \in SUBSET bills, NEW more \in SUBSET bills',
         some \subseteq more, NEW due \in Nat, due <= Asked(some)
  PROVE  due <= AskedThen(more)
<1> DEFINE w == [b \in bills \cup bills' |-> Total(b)]
<1>1. \A b \in some : w[b] = Total(b)
  OBVIOUS
<1>2. \A b \in more : w[b] = Total(b)
  OBVIOUS
<1> HIDE DEF w
<1>3. Asked(some) = SumFunctionOnSet(w, some) /\ Asked(some) \in Nat
  BY <1>1, AskedIs
<1>4. /\ AskedThen(more) = SumFunctionOnSet(w, more) /\ AskedThen(more) \in Nat
      /\ IsFiniteSet(more) /\ \A b \in more : w[b] \in Nat
  BY <1>2, AskedThenIs
<1>5. SumFunctionOnSet(w, some) <= SumFunctionOnSet(w, more)
  BY <1>4, SumWithin
<1>6. QED BY <1>3, <1>4, <1>5

(* ...and a bill that is paid asks for what it asked for.                  *)
LEMMA AskedSwaps ==
  ASSUME TypeInv, TypeInv', NEW some \in SUBSET bills, NEW b \in some,
         NEW c \in bills', c \notin bills, Total(c) = Total(b),
         some \ {b} \subseteq bills'
  PROVE  AskedThen((some \ {b}) \cup {c}) = Asked(some)
<1> DEFINE w == [d \in bills \cup bills' |-> Total(d)]
           rest == some \ {b}
<1>1. \A d \in some : w[d] = Total(d)
  OBVIOUS
<1>2. \A d \in rest \cup {c} : w[d] = Total(d)
  OBVIOUS
<1>3. rest \cup {c} \in SUBSET bills' /\ c \notin rest /\ w[c] = w[b]
  OBVIOUS
<1> HIDE DEF w
<1>4. /\ Asked(some) = SumFunctionOnSet(w, some)
      /\ IsFiniteSet(some) /\ \A d \in some : w[d] \in Nat
  BY <1>1, AskedIs
<1>5. AskedThen(rest \cup {c}) = SumFunctionOnSet(w, rest \cup {c})
  BY <1>2, <1>3, AskedThenIs
<1>6. SumFunctionOnSet(w, some) = w[b] + SumFunctionOnSet(w, rest)
  BY <1>4, SumWithout
<1>7. IsFiniteSet(rest) /\ w[c] \in Nat /\ \A d \in rest : w[d] \in Nat
  BY <1>3, <1>4, FS_Subset
<1> HIDE DEF rest
<1>8. SumFunctionOnSet(w, rest \cup {c}) = w[c] + SumFunctionOnSet(w, rest)
  BY <1>3, <1>7, SumWith
<1>9. QED BY <1>3, <1>4, <1>5, <1>6, <1>8 DEF rest

(* What is owed on open bills is part of what all of them asked for.       *)
LEMMA BalanceAsked ==
  ASSUME TypeInv, NEW x
  PROVE  Balance(x) <= Asked(BillsOf(x))
<1> DEFINE open == {b \in BillsOf(x) : Open(b)}
           all == BillsOf(x)
           rest == [b \in bills |-> Total(b) - b.paid]
           totals == [b \in bills |-> Total(b)]
<1>1. open \in SUBSET all /\ all \in SUBSET bills
  BY DEF BillsOf
<1>2. IsFiniteSet(open) /\ IsFiniteSet(all)
  BY <1>1, FS_Subset DEF TypeInv
<1>3. ASSUME NEW b \in all
      PROVE  totals[b] \in Nat /\ (b \in open => rest[b] \in Nat /\ rest[b] <= totals[b])
  <2>1. b \in Bill
    BY <1>1 DEF TypeInv, TypeOK
  <2>2. b.paid \in Nat /\ Total(b) \in Nat /\ totals[b] = Total(b)
        /\ rest[b] = Total(b) - b.paid
    BY <1>1, <2>1 DEF Bill, Total
  <2>3. b \in open => b.paid < Total(b)
    BY DEF Open
  <2> HIDE DEF totals, rest, open
  <2>4. QED BY <2>2, <2>3
<1> HIDE DEF open, all, rest, totals
<1>4. SumFunctionOnSet(rest, open) <= SumFunctionOnSet(totals, open)
  BY <1>1, <1>2, <1>3, SumAtMost
<1>5. SumFunctionOnSet(totals, open) <= SumFunctionOnSet(totals, all)
  BY <1>1, <1>2, <1>3, SumWithin
<1>6. /\ SumFunctionOnSet(rest, open) \in Nat /\ SumFunctionOnSet(totals, open) \in Nat
      /\ SumFunctionOnSet(totals, all) \in Nat
  BY <1>1, <1>2, <1>3, SumIsNat
<1>7. SumFunctionOnSet(rest, open) <= SumFunctionOnSet(totals, all)
  BY <1>4, <1>5, <1>6
<1>8. QED BY <1>7 DEF Balance, Owing, Asked, open, all, rest, totals

(* A step of a run that reads no dues and changes no bills.                *)
LEMMA GoDues ==
  ASSUME TypeInv, DuesInv, NEW r \in Runs, NEW run, Go(r, run),
         run.stage # "balanced" \/ DuesAsked(run)
  PROVE  DuesInv'
<1>1. UNCHANGED <<bills, residents>> /\ runs' = [runs EXCEPT ![r] = run]
  BY DEF Go
<1>2. DuesComeFromBills'
  BY <1>1 DEF DuesInv, DuesComeFromBills, Asked, BillsOf
<1>3. ASSUME NEW q \in Runs PROVE DuesAsked(runs[q])'
  <2>1. CASE q # r
    <3>1. runs'[q] = runs[q] /\ DuesAsked(runs[q])
      BY <1>1, <2>1 DEF TypeInv, TypeOK, DuesInv
    <3>2. QED BY <1>1, <3>1 DEF DuesAsked, Asked, BillsOf
  <2>2. CASE q = r
    <3>1. runs'[q] = run
      BY <1>1, <2>2 DEF TypeInv, TypeOK
    <3>2. QED BY <1>1, <3>1 DEF DuesAsked, Asked, BillsOf
  <2>3. QED BY <2>1, <2>2
<1>4. QED BY <1>2, <1>3 DEF DuesInv

LEMMA ReadBalancesDues ==
  ASSUME TypeInv, DuesInv, NEW r \in Runs, ReadBalances(r)
  PROVE  DuesInv'
<1> DEFINE dues == [x \in Residents |->
                      IF x \in runs[r].unbilled THEN Balance(x) ELSE 0]
           run == [runs[r] EXCEPT !.stage = "balanced", !.dues = dues]
<1>1. runs[r] \in Run
  BY DEF TypeInv, TypeOK
<1>2. run.unbilled = runs[r].unbilled /\ run.dues = dues
      /\ run.unbilled \subseteq Residents
  BY <1>1 DEF Run
<1>3. \A x \in run.unbilled : run.dues[x] = Balance(x)
  BY <1>2
<1>4. Go(r, run)
  BY DEF ReadBalances
<1> HIDE DEF run
<1>5. DuesAsked(run)
  BY <1>3, BalanceAsked DEF DuesAsked
<1>6. QED BY <1>4, <1>5, GoDues

(* What is to be shown of a step that changes the bills.                  *)
LEMMA DuesThen ==
  ASSUME TypeInv',
         \A b \in bills' : b.due <= AskedThen(BillsThen(b.resident) \ {b}),
         \A r \in Runs : runs'[r].stage = "balanced" =>
           \A x \in runs'[r].unbilled :
             residents'[x] = "deleted" \/ runs'[r].dues[x] <= AskedThen(BillsThen(x))
  PROVE  DuesInv'
<1>1. \A x : BillsOf(x)' = BillsThen(x)
  BY DEF BillsOf, BillsThen
<1>2. \A b : Asked(BillsOf(b.resident) \ {b})' = AskedThen(BillsThen(b.resident) \ {b})
  BY DEF BillsOf, BillsThen, Asked, AskedThen
<1>3. \A x : Asked(BillsOf(x))' = AskedThen(BillsThen(x))
  BY DEF BillsOf, BillsThen, Asked, AskedThen
<1>4. QED BY <1>2, <1>3 DEF DuesInv, DuesComeFromBills, DuesAsked

(* The insert: a new bill carries what was read, and is the only new one   *)
(* of its resident.                                                        *)
LEMMA InsertDues ==
  ASSUME TypeInv, TypeInv', DuesInv, NEW r \in Runs, NEW amount, Insert(r, amount)
  PROVE  DuesInv'
<1>1. /\ runs[r].stage = "balanced" /\ ~Collides(r)
      /\ bills' = bills \cup NewBills(r, amount)
      /\ UNCHANGED residents
  BY DEF Insert
<1>2. \A x \in Residents : /\ BillsOf(x) \in SUBSET bills
                           /\ BillsThen(x) \in SUBSET bills'
                           /\ BillsOf(x) \subseteq BillsThen(x)
  BY <1>1 DEF BillsOf, BillsThen
<1>3. ASSUME NEW b \in bills
      PROVE  b.due <= AskedThen(BillsThen(b.resident) \ {b})
  <2>1. b.due \in Nat /\ b.resident \in Residents
    BY DEF TypeInv, TypeOK, Bill
  <2>2. b.due <= Asked(BillsOf(b.resident) \ {b})
    BY DEF DuesInv, DuesComeFromBills
  <2>3. /\ BillsOf(b.resident) \ {b} \in SUBSET bills
        /\ BillsThen(b.resident) \ {b} \in SUBSET bills'
        /\ BillsOf(b.resident) \ {b} \subseteq BillsThen(b.resident) \ {b}
    BY <1>2, <2>1
  <2>4. QED BY <2>1, <2>2, <2>3, AskedGrows
<1>4. runs[r].unbilled \subseteq Residents /\ runs[r].dues \in [Residents -> Nat]
  BY DEF TypeInv, TypeOK, Run
<1>5. ASSUME NEW q \in Runs, runs[q].stage = "balanced",
             NEW x \in runs[q].unbilled, residents[x] # "deleted"
      PROVE  runs[q].dues[x] \in Nat /\ x \in Residents
             /\ runs[q].dues[x] <= Asked(BillsOf(x))
             /\ runs[q].dues[x] <= AskedThen(BillsThen(x))
  <2>1. runs[q].dues[x] \in Nat /\ x \in Residents
    BY DEF TypeInv, TypeOK, Run
  <2>2. runs[q].dues[x] <= Asked(BillsOf(x))
    BY <1>5 DEF DuesInv, DuesAsked
  <2>3. QED BY <1>2, <2>1, <2>2, AskedGrows
<1>6. ASSUME NEW b \in NewBills(r, amount)
      PROVE  b.due <= AskedThen(BillsThen(b.resident) \ {b})
  <2>1. PICK x \in runs[r].unbilled :
          b = [resident |-> x, period |-> runs[r].period, amount |-> amount,
               due |-> runs[r].dues[x], paid |-> 0]
    BY DEF NewBills
  <2>2. residents[x] # "deleted" /\ ~Billed(x, runs[r].period)
    BY <1>1 DEF Collides
  <2>3. /\ b.resident = x /\ b.due = runs[r].dues[x] /\ b \notin BillsOf(x)
    BY <2>1, <2>2 DEF Billed
  <2>4. /\ runs[r].dues[x] \in Nat /\ x \in Residents
        /\ runs[r].dues[x] <= Asked(BillsOf(x))
    BY <1>1, <1>5, <2>2
  <2>5. /\ BillsOf(x) \in SUBSET bills /\ BillsThen(x) \ {b} \in SUBSET bills'
        /\ BillsOf(x) \subseteq BillsThen(x) \ {b}
    BY <1>2, <2>3, <2>4
  <2>6. QED BY <2>3, <2>4, <2>5, AskedGrows
<1>7. \A q \in Runs : runs'[q].stage = "balanced" => runs'[q] = runs[q]
  BY DEF Insert, TypeInv, TypeOK, Run
<1>8. QED BY <1>1, <1>3, <1>5, <1>6, <1>7, DuesThen

LEMMA DeleteDues ==
  ASSUME TypeInv, TypeInv', DuesInv, NEW x \in Residents, Delete(x)
  PROVE  DuesInv'
<1>1. /\ residents' = [residents EXCEPT ![x] = "deleted"]
      /\ bills' = bills \ BillsOf(x) /\ UNCHANGED runs
  BY DEF Delete
<1>2. \A y : y # x => BillsThen(y) = BillsOf(y) /\ BillsOf(y) \in SUBSET bills
  BY <1>1 DEF BillsOf, BillsThen
<1>3. ASSUME NEW b \in bills'
      PROVE  b.due <= AskedThen(BillsThen(b.resident) \ {b})
  <2>1. b \in bills /\ b.resident # x /\ b.due \in Nat
    BY <1>1 DEF BillsOf, TypeInv, TypeOK, Bill
  <2>2. b.due <= Asked(BillsOf(b.resident) \ {b})
    BY <2>1 DEF DuesInv, DuesComeFromBills
  <2>3. /\ BillsOf(b.resident) \ {b} \in SUBSET bills
        /\ BillsThen(b.resident) \ {b} \in SUBSET bills'
        /\ BillsOf(b.resident) \ {b} \subseteq BillsThen(b.resident) \ {b}
    BY <1>2, <2>1 DEF BillsThen
  <2>4. QED BY <2>1, <2>2, <2>3, AskedGrows
<1>4. ASSUME NEW q \in Runs, runs[q].stage = "balanced",
             NEW y \in runs[q].unbilled, residents'[y] # "deleted"
      PROVE  runs[q].dues[y] <= AskedThen(BillsThen(y))
  <2>1. runs[q].dues[y] \in Nat /\ y \in Residents /\ y # x /\ residents[y] # "deleted"
    BY <1>1, <1>4 DEF TypeInv, TypeOK, Run
  <2>2. runs[q].dues[y] <= Asked(BillsOf(y))
    BY <1>4, <2>1 DEF DuesInv, DuesAsked
  <2>3. BillsThen(y) \in SUBSET bills' /\ BillsOf(y) \in SUBSET bills
        /\ BillsOf(y) \subseteq BillsThen(y)
    BY <1>2, <2>1 DEF BillsThen
  <2>4. QED BY <2>1, <2>2, <2>3, AskedGrows
<1>5. QED BY <1>1, <1>3, <1>4, DuesThen

LEMMA PayDues ==
  ASSUME TypeInv, TypeInv', OneBillPerPeriod, DuesInv, NEW b \in bills,
         NEW a \in 1 .. (Total(b) - b.paid), Pay(b, a)
  PROVE  DuesInv'
<1> DEFINE c == [b EXCEPT !.paid = @ + a]
<1>1. b \in Bill /\ a \in Nat \ {0}
  BY DEF TypeInv, TypeOK, Bill, Total
<1>2. /\ Total(c) = Total(b) /\ c.resident = b.resident /\ c.period = b.period
      /\ c.due = b.due /\ c # b
  BY <1>1 DEF Bill, Total
<1>3. bills' = (bills \ {b}) \cup {c} /\ UNCHANGED <<residents, runs>>
  BY DEF Pay
<1> HIDE DEF c
<1>4. c \notin bills
  BY <1>2 DEF OneBillPerPeriod
<1>5. ASSUME NEW some \in SUBSET bills, NEW more \in SUBSET bills',
             NEW due \in Nat, due <= Asked(some),
             more = IF b \in some THEN (some \ {b}) \cup {c} ELSE some
      PROVE  due <= AskedThen(more)
  <2>1. CASE b \in some
    BY <1>2, <1>3, <1>4, <1>5, <2>1, AskedSwaps
  <2>2. CASE b \notin some
    BY <1>5, <2>2, AskedGrows
  <2>3. QED BY <2>1, <2>2
<1>6. \A x : /\ BillsOf(x) \in SUBSET bills /\ BillsThen(x) \in SUBSET bills'
             /\ BillsThen(x) = IF b \in BillsOf(x) THEN (BillsOf(x) \ {b}) \cup {c}
                               ELSE BillsOf(x)
  BY <1>2, <1>3 DEF BillsOf, BillsThen
<1>7. ASSUME NEW d \in bills'
      PROVE  d.due <= AskedThen(BillsThen(d.resident) \ {d})
  <2>1. CASE d = c
    <3>1. /\ BillsOf(b.resident) \ {b} \in SUBSET bills
          /\ BillsThen(b.resident) \ {c} \in SUBSET bills'
          /\ BillsOf(b.resident) \ {b} = BillsThen(b.resident) \ {c}
      BY <1>4, <1>6 DEF BillsOf
    <3>2. b.due <= Asked(BillsOf(b.resident) \ {b}) /\ b.due \in Nat
      BY <1>1 DEF DuesInv, DuesComeFromBills, Bill
    <3>3. QED BY <1>2, <2>1, <3>1, <3>2, AskedGrows
  <2>2. CASE d # c
    <3> DEFINE some == BillsOf(d.resident) \ {d}
               more == BillsThen(d.resident) \ {d}
    <3>1. d \in bills /\ d # b
      BY <1>3, <2>2
    <3>2. d.due <= Asked(some) /\ d.due \in Nat
      BY <3>1 DEF DuesInv, DuesComeFromBills, TypeInv, TypeOK, Bill
    <3>3. /\ some \in SUBSET bills /\ more \in SUBSET bills'
          /\ more = IF b \in some THEN (some \ {b}) \cup {c} ELSE some
      BY <1>4, <1>6, <3>1
    <3> HIDE DEF some, more
    <3>4. d.due <= AskedThen(more)
      BY <1>5, <3>2, <3>3
    <3>5. QED BY <3>4 DEF more
  <2>3. QED BY <2>1, <2>2
<1>8. ASSUME NEW q \in Runs, runs[q].stage = "balanced",
             NEW y \in runs[q].unbilled, residents[y] # "deleted"
      PROVE  runs[q].dues[y] <= AskedThen(BillsThen(y))
  <2>1. runs[q].dues[y] \in Nat
    BY <1>8 DEF TypeInv, TypeOK, Run
  <2>2. runs[q].dues[y] <= Asked(BillsOf(y))
    BY <1>8 DEF DuesInv, DuesAsked
  <2>3. QED BY <1>5, <1>6, <2>1, <2>2
<1>9. QED BY <1>3, <1>7, <1>8, DuesThen

LEMMA NextDues ==
  ASSUME TypeInv, TypeInv', IInv, DuesInv, Next
  PROVE  DuesInv'
<1>1. Requests \subseteq Runs /\ Days \subseteq Runs
  BY DEF Runs
<1>2. /\ \A stage \in Ended : End(stage).stage # "balanced"
      /\ \A asked : Waiting(asked).stage # "balanced"
      /\ \A r \in Runs : \A p : Listed(r, p).stage # "balanced"
      /\ \A r \in Runs : Failed(r).stage # "balanced"
  BY EndFits, WaitingFits, ListedFits, FailedFits DEF Ended
<1>3. ASSUME NEW r \in Runs, NEW run, Go(r, run), run.stage # "balanced"
      PROVE  DuesInv'
  BY <1>3, GoDues
<1>4. ASSUME NEW r \in Runs, Proceed(r) PROVE DuesInv'
  <2>1. CASE Filter(r)
    <3> DEFINE run == [runs[r] EXCEPT !.stage = "filtered",
                         !.unbilled = {x \in runs[r].found : ~Billed(x, runs[r].period)}]
    <3>1. run.stage # "balanced"
      BY DEF TypeInv, TypeOK, Run
    <3>2. Go(r, run) \/ Go(r, End("done"))
      BY <2>1 DEF Filter
    <3> HIDE DEF run
    <3>3. QED BY <1>2, <1>3, <3>1, <3>2 DEF Ended
  <2>2. CASE Collide(r) \/ Finish(r)
    BY <1>2, <1>3, <2>2 DEF Collide, Finish, Ended
  <2>3. QED BY <1>4, <2>1, <2>2, ReadBalancesDues, InsertDues DEF Proceed
<1>5. ASSUME NEW r \in Runs, NEW p,
             TakeCheck(r) \/ TakeTrigger(r) \/ Trigger(r, p) \/ Call(r, p) \/ Fail(r)
      PROVE  DuesInv'
  BY <1>2, <1>3, <1>5 DEF TakeCheck, TakeTrigger, Trigger, Call, Fail, Ended
<1>6. ASSUME NEW r \in Runs, NEW p, NEW x \in Residents, CreateInvoice(r, x, p)
      PROVE  DuesInv'
  <2> DEFINE run == [runs[r] EXCEPT !.stage = "filtered", !.period = p,
                                    !.found = {x}, !.unbilled = {x}]
  <2>1. run.stage # "balanced" /\ Go(r, run)
    BY <1>6 DEF TypeInv, TypeOK, Run, CreateInvoice
  <2> HIDE DEF run
  <2>2. QED BY <1>3, <2>1
<1>7. CASE NextDay
  <2>1. UNCHANGED <<bills, residents>>
    BY <1>7 DEF NextDay
  <2>2. \A q \in Runs : runs'[q] = runs[q] \/ runs'[q] = Waiting(0)
    BY <1>7 DEF NextDay, TypeInv, TypeOK
  <2>3. \A q \in Runs : runs'[q].stage = "balanced" => runs'[q] = runs[q]
    BY <1>2, <2>2
  <2>4. QED BY <2>1, <2>3
            DEF DuesInv, DuesComeFromBills, DuesAsked, Asked, BillsOf
<1>8. ASSUME NEW x \in Residents, Move(x) PROVE DuesInv'
  <2>1. UNCHANGED <<bills, runs>>
        /\ \A y \in Residents : residents[y] = "deleted" => residents'[y] = "deleted"
    BY <1>8 DEF Move, TypeInv, TypeOK
  <2>2. \A q \in Runs : runs[q].unbilled \subseteq Residents
    BY DEF TypeInv, TypeOK, Run
  <2>3. QED BY <2>1, <2>2
            DEF DuesInv, DuesComeFromBills, DuesAsked, Asked, BillsOf
<1>9. ASSUME NEW x \in Residents, Delete(x) PROVE DuesInv'
  BY <1>9, DeleteDues
<1>10. ASSUME NEW b \in bills, NEW a \in 1 .. (Total(b) - b.paid), Pay(b, a)
       PROVE  DuesInv'
  BY <1>10, PayDues DEF IInv
<1>11. CASE Work
  BY <1>1, <1>4, <1>5, <1>11 DEF Work
<1>12. QED BY <1>1, <1>4, <1>5, <1>6, <1>7, <1>8, <1>9, <1>10, <1>11 DEF Next

(* What a new bill carries forward, the earlier bills have asked for.      *)
THEOREM DuesCarried == Spec => []DuesComeFromBills
<1>1. Init => DuesInv
  <2>1. ASSUME Init, NEW r \in Runs PROVE runs[r].stage # "balanced"
    BY <2>1, WaitingFits DEF Init, Absent
  <2>2. QED BY <2>1 DEF Init, DuesInv, DuesComeFromBills, DuesAsked
<1>2. TypeInv /\ TypeInv' /\ IInv /\ DuesInv /\ [Next]_vars => DuesInv'
  <2>1. ASSUME DuesInv, UNCHANGED vars PROVE DuesInv'
    BY <2>1 DEF DuesInv, DuesComeFromBills, DuesAsked, Asked, BillsOf, vars
  <2>2. QED BY <2>1, NextDues
<1>3. DuesInv => DuesComeFromBills
  BY DEF DuesInv
<1>4. QED BY <1>1, <1>2, <1>3, TypeInvariance, Invariance, PTL DEF Spec
=============================================================================
