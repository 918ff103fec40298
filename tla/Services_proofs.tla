--------------------------- MODULE Services_proofs ---------------------------
(***************************************************************************)
(* For any number of requests, rows and days: a day of attendance settles, *)
(* a day's menu is of one save, an application is made once, one plan runs *)
(* for a hostel and expires only for another, but where a request is       *)
(* marked as overtaken.  Each proof says what a request in flight still    *)
(* knows of the rows it has read, unless it is marked.                     *)
(***************************************************************************)
EXTENDS Attendance, DailyMeals, Bookings, Subscriptions, TLAPS

(* How y stands that stood as x, after another request has written items.  *)
Beside(x, y, items) ==
  \/ y = x /\ x.reads \cap items = {}
  \/ y = [x EXCEPT !.raced = TRUE] /\ x.reads \cap items # {}

LEMMA StepBeside ==
  ASSUME NEW reqs, NEW q \in Requests, NEW r, NEW items, NEW new,
         new = GoesOn(reqs, q, r, items)
  PROVE  /\ new[q] = r
         /\ \A p \in Requests \ {q} : Beside(reqs[p], new[p], items)
<1>1. new[q] = r
  BY DEF GoesOn
<1>2. ASSUME NEW p \in Requests \ {q} PROVE Beside(reqs[p], new[p], items)
  <2>1. CASE reqs[p].reads \cap items # {}
    <3>1. new[p] = [reqs[p] EXCEPT !.raced = TRUE]
      BY <2>1 DEF GoesOn
    <3>2. QED BY <2>1, <3>1 DEF Beside
  <2>2. CASE reqs[p].reads \cap items = {}
    <3>1. new[p] = reqs[p]
      BY <2>2 DEF GoesOn
    <3>2. QED BY <2>2, <3>1 DEF Beside
  <2>3. QED BY <2>1, <2>2
<1>3. QED BY <1>1, <1>2

-----------------------------------------------------------------------------
(* Attendance.                                                             *)
LEMMA RacedMark ==
  ASSUME NEW x \in MarkRequest, NEW y, y = [x EXCEPT !.raced = TRUE]
  PROVE  /\ y \in MarkRequest /\ y.stage = x.stage /\ y.op = x.op
         /\ y.resident = x.resident /\ y.place = x.place /\ y.day = x.day
         /\ y.began = x.began /\ y.found = x.found /\ y.reads = x.reads /\ y.raced
BY DEF MarkRequest

LEMMA BesideMark ==
  ASSUME NEW x \in MarkRequest, NEW items, NEW y, Beside(x, y, items)
  PROVE  /\ y \in MarkRequest /\ y.stage = x.stage /\ y.op = x.op
         /\ y.resident = x.resident /\ y.place = x.place /\ y.day = x.day
         /\ y.began = x.began /\ y.found = x.found /\ y.reads = x.reads
         /\ x.raced => y.raced
         /\ x.reads \cap items # {} => y.raced
<1>1. CASE y = x /\ x.reads \cap items = {}
  BY <1>1
<1>2. CASE y = [x EXCEPT !.raced = TRUE] /\ x.reads \cap items # {}
  BY <1>2, RacedMark
<1>3. QED BY <1>1, <1>2 DEF Beside

(* A request marks the day it came on, and a check-out knows the record is *)
(* as it found it, or is marked; it is there in any case, as it came in.   *)
MarkKnows(r) ==
  r.stage \in {"checked", "near"} =>
    /\ r.op \in {"in", "sync", "out"} /\ r.resident \in Residents /\ r.place \in Places
    /\ r.day \in Days /\ r.began = r.day /\ r.reads = {<<r.resident, r.day>>}
    /\ r.op = "out" =>
         /\ r.found \in AttendanceRow /\ r.found.out = None
         /\ records[r.resident][r.day] # None
         /\ records[r.resident][r.day].in = r.found.in
         /\ r.raced \/ records[r.resident][r.day] = r.found

MarkIInv == AttendanceTypeOK /\ \A q \in Requests : MarkKnows(markReq[q])

LEMMA MarkInitIInv == AttendanceInit => MarkIInv
<1> SUFFICES ASSUME AttendanceInit PROVE MarkIInv
  OBVIOUS
<1>1. NoMark \in MarkRequest /\ NoMark.stage = "unsent"
  BY DEF NoMark, MarkRequest
<1>2. \A q \in Requests : markReq[q] = NoMark
  BY DEF AttendanceInit
<1>3. AttendanceTypeOK
  BY <1>1, MaxDayAssumption DEF AttendanceInit, AttendanceTypeOK, Days, MaxDayAssumption
<1>4. \A q \in Requests : MarkKnows(markReq[q])
  BY <1>1, <1>2 DEF MarkKnows
<1>5. QED BY <1>3, <1>4 DEF MarkIInv

(* A step of q that leaves the records, or writes what items tell.         *)
LEMMA MarkStep ==
  ASSUME MarkIInv, NEW q \in Requests, NEW r \in MarkRequest, NEW items,
         MarkGoesOn(q, r, items), MarkKnows(r)',
         records' \in [Residents -> [Days -> AttendanceRow \cup {None}]],
         pin' \in Places \cup {None}, today' \in Days,
         \A c \in Residents, d \in Days : records'[c][d] # records[c][d] =>
           /\ <<c, d>> \in items /\ records'[c][d] # None
           /\ records[c][d] # None => records'[c][d].in = records[c][d].in
  PROVE  MarkIInv'
<1>1. /\ markReq' = [p \in Requests |-> markReq'[p]] /\ markReq'[q] = r
      /\ \A p \in Requests \ {q} : Beside(markReq[p], markReq'[p], items)
  <2>1. markReq' = [p \in Requests |-> markReq'[p]]
    BY DEF MarkGoesOn, GoesOn
  <2>2. QED BY <2>1, StepBeside DEF MarkGoesOn
<1>2. ASSUME NEW p \in Requests \ {q}
      PROVE  markReq'[p] \in MarkRequest /\ MarkKnows(markReq[p])'
  <2>1. PICK x \in MarkRequest : x = markReq[p] /\ MarkKnows(x)
    BY DEF MarkIInv, AttendanceTypeOK
  <2>2. PICK y : y = markReq'[p] /\ Beside(x, y, items)
    BY <1>1, <2>1
  <2>3. /\ y \in MarkRequest /\ y.stage = x.stage /\ y.op = x.op
        /\ y.resident = x.resident /\ y.place = x.place /\ y.day = x.day
        /\ y.began = x.began /\ y.found = x.found /\ y.reads = x.reads
        /\ x.raced => y.raced
        /\ x.reads \cap items # {} => y.raced
    BY <2>2, BesideMark
  <2>4. MarkKnows(y)'
    <3> SUFFICES ASSUME x.stage \in {"checked", "near"} PROVE MarkKnows(y)'
      BY <2>3 DEF MarkKnows
    <3>1. /\ x.op \in {"in", "sync", "out"} /\ x.resident \in Residents
          /\ x.place \in Places /\ x.day \in Days /\ x.began = x.day
          /\ x.reads = {<<x.resident, x.day>>}
          /\ x.op = "out" =>
               /\ x.found \in AttendanceRow /\ x.found.out = None
               /\ records[x.resident][x.day] # None
               /\ records[x.resident][x.day].in = x.found.in
               /\ x.raced \/ records[x.resident][x.day] = x.found
      BY <2>1 DEF MarkKnows
    <3>2. CASE <<x.resident, x.day>> \in items
      <4>1. y.raced
        BY <2>3, <3>1, <3>2
      <4>2. x.op = "out" => /\ records'[x.resident][x.day] # None
                            /\ records'[x.resident][x.day].in = x.found.in
        BY <3>1
      <4>3. QED BY <2>3, <3>1, <4>1, <4>2 DEF MarkKnows
    <3>3. CASE <<x.resident, x.day>> \notin items
      <4>1. records'[x.resident][x.day] = records[x.resident][x.day]
        BY <3>1, <3>3
      <4>2. QED BY <2>3, <3>1, <4>1 DEF MarkKnows
    <3>4. QED BY <3>2, <3>3
  <2>5. QED BY <2>2, <2>3, <2>4 DEF MarkKnows
<1>3. MarkKnows(markReq[q])'
  BY <1>1 DEF MarkKnows
<1>4. QED BY <1>1, <1>2, <1>3 DEF MarkIInv, AttendanceTypeOK

LEMMA MarkOnlyStep ==
  ASSUME MarkIInv, NEW q \in Requests, NEW r \in MarkRequest, MarkOnly(q, r), MarkKnows(r)
  PROVE  MarkIInv'
<1>1. MarkKnows(r)'
  BY DEF MarkOnly, MarkKnows
<1>2. QED BY <1>1, MarkStep DEF MarkOnly, MarkIInv, AttendanceTypeOK

LEMMA OverMark ==
  ASSUME NEW x \in MarkRequest, NEW stage \in {"done", "refused", "failed"},
         NEW y, y = Over(x, stage)
  PROVE  y \in MarkRequest /\ y.stage = stage
BY DEF Over, MarkRequest

LEMMA NearMark ==
  ASSUME NEW x \in MarkRequest, NEW y, y = [x EXCEPT !.stage = "near"]
  PROVE  /\ y \in MarkRequest /\ y.stage = "near" /\ y.op = x.op
         /\ y.resident = x.resident /\ y.place = x.place /\ y.day = x.day
         /\ y.began = x.began /\ y.found = x.found /\ y.reads = x.reads
         /\ y.raced = x.raced
BY DEF MarkRequest

LEMMA MarkTyped ==
  ASSUME MarkIInv, NEW op \in {"in", "sync", "out"}, NEW c \in Residents, NEW p \in Places,
         NEW found \in AttendanceRow \cup {None}, NEW r, r = Mark(op, c, p, today, found)
  PROVE  /\ r \in MarkRequest /\ r.stage = "checked" /\ r.op = op /\ r.resident = c
         /\ r.place = p /\ r.day = today /\ r.began = today /\ r.found = found
         /\ r.reads = {<<c, today>>} /\ today \in Days
<1>1. today \in Days /\ {<<c, today>>} \in SUBSET MarkItems
  BY DEF MarkIInv, AttendanceTypeOK, MarkItems
<1>2. QED BY <1>1 DEF Mark, NoMark, MarkRequest

LEMMA CheckInStep ==
  ASSUME MarkIInv, NEW q \in Requests, NEW op \in {"in", "sync"}, NEW c \in Residents,
         NEW p \in Places, CheckIn(q, op, c, p)
  PROVE  MarkIInv'
<1>1. PICK x : x = Mark(op, c, p, today, None)
  OBVIOUS
<1>2. /\ x \in MarkRequest /\ x.stage = "checked" /\ x.op = op /\ x.resident = c
      /\ x.place = p /\ x.day = today /\ x.began = today
      /\ x.reads = {<<c, today>>} /\ today \in Days
  BY <1>1, MarkTyped
<1>3. PICK y : y = Over(x, "refused")
  OBVIOUS
<1>4. y \in MarkRequest /\ y.stage = "refused"
  BY <1>2, <1>3, OverMark
<1>5. MarkOnly(q, x) \/ MarkOnly(q, y)
  BY <1>1, <1>3 DEF CheckIn
<1>6. MarkKnows(x) /\ MarkKnows(y)
  BY <1>2, <1>4 DEF MarkKnows
<1>7. QED BY <1>2, <1>4, <1>5, <1>6, MarkOnlyStep

LEMMA CheckOutStep ==
  ASSUME MarkIInv, NEW q \in Requests, NEW c \in Residents, NEW p \in Places,
         CheckOut(q, c, p)
  PROVE  MarkIInv'
<1>1. CASE IsOpen(c, today)
  <2>1. PICK found \in AttendanceRow : found = records[c][today] /\ found.out = None
    BY <1>1 DEF IsOpen, MarkIInv, AttendanceTypeOK
  <2>2. PICK x : x = Mark("out", c, p, today, found)
    OBVIOUS
  <2>3. /\ x \in MarkRequest /\ x.stage = "checked" /\ x.op = "out" /\ x.resident = c
        /\ x.place = p /\ x.day = today /\ x.began = today /\ x.found = found
        /\ x.reads = {<<c, today>>} /\ today \in Days
    BY <2>2, MarkTyped
  <2>4. MarkOnly(q, x)
    BY <1>1, <2>1, <2>2 DEF CheckOut
  <2>5. MarkKnows(x)
    BY <1>1, <2>1, <2>3 DEF MarkKnows, IsOpen
  <2>6. QED BY <2>3, <2>4, <2>5, MarkOnlyStep
<1>2. CASE ~IsOpen(c, today)
  <2>1. PICK x : x = Mark("out", c, p, today, None)
    OBVIOUS
  <2>2. x \in MarkRequest
    BY <2>1, MarkTyped
  <2>3. PICK y : y = Over(x, "refused")
    OBVIOUS
  <2>4. y \in MarkRequest /\ y.stage = "refused"
    BY <2>2, <2>3, OverMark
  <2>5. MarkOnly(q, y)
    BY <1>2, <2>1, <2>3 DEF CheckOut
  <2>6. MarkKnows(y)
    BY <2>4 DEF MarkKnows
  <2>7. QED BY <2>4, <2>5, <2>6, MarkOnlyStep
<1>3. QED BY <1>1, <1>2

LEMMA MarkEndStep ==
  ASSUME MarkIInv, NEW q \in Requests, NEW stage \in {"refused", "failed"},
         MarkOnly(q, Over(markReq[q], stage))
  PROVE  MarkIInv'
<1>1. PICK x \in MarkRequest : x = markReq[q]
  BY DEF MarkIInv, AttendanceTypeOK
<1>2. PICK y : y = Over(x, stage)
  OBVIOUS
<1>3. y \in MarkRequest /\ y.stage = stage
  BY <1>2, OverMark
<1>4. MarkOnly(q, y) /\ MarkKnows(y)
  BY <1>1, <1>2, <1>3 DEF MarkKnows
<1>5. QED BY <1>3, <1>4, MarkOnlyStep

LEMMA NearStep ==
  ASSUME MarkIInv, NEW q \in Requests, MeasureDistance(q) \/ MovePin(q)
  PROVE  MarkIInv'
<1>1. PICK x \in MarkRequest : x = markReq[q] /\ MarkKnows(x)
  BY DEF MarkIInv, AttendanceTypeOK
<1>2. x.stage = "checked"
  BY <1>1 DEF MeasureDistance, MovePin
<1>3. PICK y : y = [x EXCEPT !.stage = "near"]
  OBVIOUS
<1>4. /\ y \in MarkRequest /\ y.stage = "near" /\ y.op = x.op
      /\ y.resident = x.resident /\ y.place = x.place /\ y.day = x.day
      /\ y.began = x.began /\ y.found = x.found /\ y.reads = x.reads
      /\ y.raced = x.raced
  BY <1>3, NearMark
<1>5. MarkKnows(y)
  BY <1>1, <1>2, <1>4 DEF MarkKnows
<1>6. CASE MovePin(q)
  <2>1. MarkGoesOn(q, y, {}) /\ UNCHANGED <<records, today>>
    BY <1>1, <1>3, <1>6 DEF MovePin
  <2>2. pin' \in Places
    BY <1>1, <1>2, <1>6 DEF MovePin, MarkKnows
  <2>3. MarkKnows(y)'
    BY <1>5, <2>1 DEF MarkKnows
  <2>4. QED BY <1>4, <2>1, <2>2, <2>3, MarkStep DEF MarkIInv, AttendanceTypeOK
<1>7. CASE MeasureDistance(q)
  <2>1. MarkOnly(q, y) \/ MarkOnly(q, Over(markReq[q], "refused"))
    BY <1>1, <1>3, <1>7 DEF MeasureDistance
  <2>2. QED BY <1>4, <1>5, <2>1, MarkOnlyStep, MarkEndStep
<1>8. QED BY <1>6, <1>7

LEMMA SaveMarkStep ==
  ASSUME MarkIInv, NEW q \in Requests, NEW row \in AttendanceRow, SaveMark(q, row),
         markReq[q].stage = "near",
         LET r == markReq[q]
         IN  records[r.resident][r.day] # None => row.in = records[r.resident][r.day].in
  PROVE  MarkIInv'
<1>1. PICK x \in MarkRequest : x = markReq[q] /\ MarkKnows(x)
  BY DEF MarkIInv, AttendanceTypeOK
<1>2. x.resident \in Residents /\ x.day \in Days
  BY <1>1 DEF MarkKnows
<1>3. PICK y : y = Over(x, "done")
  OBVIOUS
<1>4. y \in MarkRequest /\ y.stage = "done"
  BY <1>3, OverMark
<1>5. MarkGoesOn(q, y, {<<x.resident, x.day>>}) /\ UNCHANGED <<pin, today>>
  BY <1>1, <1>3 DEF SaveMark
<1>6. /\ records' \in [Residents -> [Days -> AttendanceRow \cup {None}]]
      /\ \A c \in Residents, d \in Days :
           records'[c][d] = IF c = x.resident /\ d = x.day THEN row ELSE records[c][d]
  BY <1>1, <1>2 DEF SaveMark, MarkIInv, AttendanceTypeOK
<1>7. row # None
  BY <1>1, <1>2, NoPlaceAssumption DEF NoPlaceAssumption, AttendanceRow
<1>8. MarkKnows(y)'
  BY <1>4 DEF MarkKnows
<1>9. QED
  BY <1>1, <1>2, <1>4, <1>5, <1>6, <1>7, <1>8, MarkStep DEF MarkIInv, AttendanceTypeOK

LEMMA MarkNextIInv == MarkIInv /\ [AttendanceNext]_markVars => MarkIInv'
<1> SUFFICES ASSUME MarkIInv, [AttendanceNext]_markVars PROVE MarkIInv'
  OBVIOUS
<1>1. ASSUME NEW q \in Requests, NEW c \in Residents, NEW p \in Places,
             CheckIn(q, "in", c, p) \/ CheckIn(q, "sync", c, p) \/ CheckOut(q, c, p)
      PROVE  MarkIInv'
  BY <1>1, CheckInStep, CheckOutStep
<1>2. ASSUME NEW q \in Requests, MeasureDistance(q) \/ MovePin(q) PROVE MarkIInv'
  BY <1>2, NearStep
<1>3. ASSUME NEW q \in Requests, SecondCheckIn(q) \/ FailMark(q) PROVE MarkIInv'
  BY <1>3, MarkEndStep DEF SecondCheckIn, FailMark
<1>4. ASSUME NEW q \in Requests, SaveCheckIn(q) PROVE MarkIInv'
  <2>1. PICK x \in MarkRequest : x = markReq[q] /\ MarkKnows(x)
    BY DEF MarkIInv, AttendanceTypeOK
  <2>2. x.stage = "near" /\ x.place \in Places /\ records[x.resident][x.day] = None
    BY <1>4, <2>1 DEF SaveCheckIn, MarkKnows
  <2>3. PICK row : row = [in |-> x.place, out |-> None]
    OBVIOUS
  <2>4. row \in AttendanceRow /\ SaveMark(q, row)
    BY <1>4, <2>1, <2>2, <2>3 DEF SaveCheckIn, AttendanceRow
  <2>5. QED BY <2>1, <2>2, <2>4, SaveMarkStep
<1>5. ASSUME NEW q \in Requests, SaveCheckOut(q) PROVE MarkIInv'
  <2>1. PICK x \in MarkRequest : x = markReq[q] /\ MarkKnows(x)
    BY DEF MarkIInv, AttendanceTypeOK
  <2>2. /\ x.stage = "near" /\ x.place \in Places /\ x.found \in AttendanceRow
        /\ records[x.resident][x.day].in = x.found.in
    BY <1>5, <2>1 DEF SaveCheckOut, MarkKnows
  <2>3. PICK row : row = [x.found EXCEPT !.out = x.place]
    OBVIOUS
  <2>4. row \in AttendanceRow /\ row.in = x.found.in
    BY <2>2, <2>3 DEF AttendanceRow
  <2>5. SaveMark(q, row)
    BY <1>5, <2>1, <2>3 DEF SaveCheckOut
  <2>6. QED BY <2>1, <2>2, <2>4, <2>5, SaveMarkStep
<1>6. CASE Midnight
  <2>1. /\ UNCHANGED <<records, pin, markReq>> /\ today' \in Days
    BY <1>6, MaxDayAssumption DEF Midnight, MaxDayAssumption, MarkIInv, AttendanceTypeOK, Days
  <2>2. QED BY <2>1 DEF MarkIInv, AttendanceTypeOK, MarkKnows
<1>7. CASE UNCHANGED markVars
  BY <1>7 DEF markVars, MarkIInv, AttendanceTypeOK, MarkKnows
<1>8. QED BY <1>1, <1>2, <1>3, <1>4, <1>5, <1>6, <1>7 DEF AttendanceNext

(* A day's record is opened, closed, and closed again only by a check-out  *)
(* that another overtook; each by a request of that day.                   *)
THEOREM DaysDoSettle == AttendanceSpec => DaysSettle
<1>1. ASSUME MarkIInv, [AttendanceNext]_markVars, NEW c \in Residents, NEW d \in Days,
             records'[c][d] # records[c][d]
      PROVE  \E q \in Requests :
               /\ markReq'[q].stage = "done" /\ markReq[q].stage = "near"
               /\ markReq[q].resident = c /\ markReq[q].began = d
               /\ IF records[c][d] = None THEN records'[c][d].out = None
                  ELSE /\ records'[c][d].in = records[c][d].in
                       /\ records'[c][d].out # None
                       /\ records[c][d].out = None \/ markReq[q].raced
  <2>1. PICK q \in Requests : SaveCheckIn(q) \/ SaveCheckOut(q)
    BY <1>1 DEF AttendanceNext, markVars, CheckIn, CheckOut, MeasureDistance, MovePin,
                SecondCheckIn, FailMark, Midnight, MarkOnly
  <2>2. PICK x \in MarkRequest : x = markReq[q] /\ MarkKnows(x) /\ x.stage = "near"
    BY <1>1, <2>1 DEF MarkIInv, AttendanceTypeOK, SaveCheckIn, SaveCheckOut
  <2>3. /\ x.resident \in Residents /\ x.day \in Days /\ x.began = x.day
        /\ x.place \in Places
    BY <2>2 DEF MarkKnows
  <2>4. ASSUME NEW row, SaveMark(q, row)
        PROVE  /\ markReq'[q].stage = "done" /\ c = x.resident /\ d = x.day
               /\ records'[c][d] = row
    <3>1. markReq'[q] = Over(x, "done")
      BY <2>2, <2>4 DEF SaveMark, MarkGoesOn, GoesOn
    <3>2. Over(x, "done").stage = "done"
      BY OverMark
    <3>3. c = x.resident /\ d = x.day /\ records'[c][d] = row
      BY <1>1, <2>2, <2>3, <2>4 DEF SaveMark, MarkIInv, AttendanceTypeOK
    <3>4. QED BY <3>1, <3>2, <3>3
  <2>5. CASE SaveCheckIn(q)
    <3>1. records[x.resident][x.day] = None /\ SaveMark(q, [in |-> x.place, out |-> None])
      BY <2>2, <2>5 DEF SaveCheckIn
    <3>2. QED BY <2>2, <2>3, <2>4, <3>1
  <2>6. CASE SaveCheckOut(q)
    <3>1. /\ x.op = "out" /\ SaveMark(q, [x.found EXCEPT !.out = x.place])
      BY <2>2, <2>6 DEF SaveCheckOut
    <3>2. /\ x.found \in AttendanceRow /\ x.found.out = None
          /\ records[x.resident][x.day] # None
          /\ records[x.resident][x.day].in = x.found.in
          /\ x.raced \/ records[x.resident][x.day] = x.found
      BY <2>2, <3>1 DEF MarkKnows
    <3>3. /\ markReq'[q].stage = "done" /\ c = x.resident /\ d = x.day
          /\ records'[c][d] = [x.found EXCEPT !.out = x.place]
      BY <2>4, <3>1
    <3>4. records'[c][d].in = x.found.in /\ records'[c][d].out = x.place
      BY <3>2, <3>3 DEF AttendanceRow
    <3>5. x.place # None
      BY <2>3, NoPlaceAssumption DEF NoPlaceAssumption
    <3>6. QED BY <2>2, <2>3, <3>2, <3>3, <3>4, <3>5
  <2>7. QED BY <2>1, <2>5, <2>6
<1>2. MarkIInv /\ [AttendanceNext]_markVars =>
        [\A c \in Residents, d \in Days :
           records'[c][d] # records[c][d] =>
             \E q \in Requests :
               /\ markReq'[q].stage = "done" /\ markReq[q].stage = "near"
               /\ markReq[q].resident = c /\ markReq[q].began = d
               /\ IF records[c][d] = None THEN records'[c][d].out = None
                  ELSE /\ records'[c][d].in = records[c][d].in
                       /\ records'[c][d].out # None
                       /\ records[c][d].out = None \/ markReq[q].raced]_markVars
  BY <1>1
<1>3. QED
  BY <1>2, MarkInitIInv, MarkNextIInv, PTL DEF AttendanceSpec, DaysSettle

-----------------------------------------------------------------------------
(* Daily meals.                                                            *)
LEMMA BesideMeal ==
  ASSUME NEW x \in MealRequest, NEW items, NEW y, Beside(x, y, items)
  PROVE  /\ y \in MealRequest /\ y.stage = x.stage /\ y.day = x.day
         /\ y.rows = x.rows /\ y.id = x.id /\ y.entity = x.entity /\ y.reads = x.reads
         /\ x.raced => y.raced
         /\ x.reads \cap items # {} => y.raced
<1>1. CASE y = x /\ x.reads \cap items = {}
  BY <1>1
<1>2. CASE y = [x EXCEPT !.raced = TRUE] /\ x.reads \cap items # {}
  BY <1>2 DEF MealRequest
<1>3. QED BY <1>1, <1>2 DEF Beside

(* A schedule being saved knows all the day's rows, or is marked; a meal   *)
(* being updated was written by whom it was when found, by any request.    *)
MealKnows(r) ==
  /\ r.stage \in {"deleting", "deleted"} =>
       /\ r.day \in MealDays /\ r.reads = {r.day}
       /\ \/ r.raced
          \/ \A i \in MealIds \ displaced :
               meals[i] # None /\ meals[i].day = r.day => i \in r.rows
  /\ r.stage \in {"found", "updating"} =>
       /\ r.id \in MealIds /\ r.id < nextMeal /\ r.entity \in MealRow
       /\ meals[r.id] # None => meals[r.id].by = r.entity.by

SameMeal(r, s) ==
  r.stage \in {"found", "updating"} /\ s.stage \in {"found", "updating"} /\ r.id = s.id
    => r.entity.by = s.entity.by

(* Who wrote a row has answered.                                           *)
WrittenBy(row) == row.by # None => mealReq[row.by].stage = "done"

MealIInv ==
  /\ MealsTypeOK
  /\ \A q \in Requests :
       /\ MealKnows(mealReq[q])
       /\ mealReq[q].stage \in {"found", "updating"} => WrittenBy(mealReq[q].entity)
  /\ \A q, p \in Requests : SameMeal(mealReq[q], mealReq[p])
  /\ \A i \in MealIds : meals[i] # None => i < nextMeal /\ WrittenBy(meals[i])
  /\ MenuFromOneSave

LEMMA MealInitIInv == MealsInit => MealIInv
<1> SUFFICES ASSUME MealsInit PROVE MealIInv
  OBVIOUS
<1>1. NoMealRequest \in MealRequest /\ NoMealRequest.stage = "unsent"
  BY DEF NoMealRequest, MealRequest
<1>2. \A q \in Requests : mealReq[q] = NoMealRequest
  BY DEF MealsInit
<1>3. MealsTypeOK
  BY <1>1, MealsAssumption DEF MealsInit, MealsTypeOK, MealsAssumption
<1>4. \A i \in MealIds : meals[i] = None
  BY DEF MealsInit
<1>5. QED
  BY <1>1, <1>2, <1>3, <1>4 DEF MealIInv, MealKnows, SameMeal, MenuFromOneSave

LEMMA MealStep ==
  ASSUME MealIInv, NEW q \in Requests, NEW r \in MealRequest, NEW items,
         MealGoesOn(q, r, items), mealReq[q].stage # "done",
         meals' \in [MealIds -> MealRow \cup {None}],
         nextMeal' \in 1 .. MaxMeals + 1, nextMeal <= nextMeal',
         displaced \subseteq displaced', displaced' \subseteq MealIds,
         \A i \in MealIds : meals[i] # None =>
           \/ meals'[i] \in {None, meals[i]}
           \/ i \in displaced' /\ meals'[i] # None /\ meals'[i].by = meals[i].by,
         \A i \in MealIds : meals[i] = None /\ meals'[i] # None =>
           /\ i \in displaced' \/ meals'[i].day \in items
           /\ i < nextMeal => /\ mealReq[q].stage = "found" /\ mealReq[q].id = i
                              /\ meals'[i] = mealReq[q].entity
                              /\ i \in displaced'
           /\ ~(i < nextMeal) => /\ i < nextMeal'
                                 /\ \/ meals'[i].by = None
                                    \/ meals'[i].by = q /\ r.stage = "done",
         MealKnows(r)', r.stage \in {"found", "updating"} => WrittenBy(r.entity),
         \A p \in Requests \ {q} : SameMeal(r, mealReq[p]),
         \A i, j \in MealIds \ displaced' :
           /\ meals'[i] # None /\ meals'[j] # None /\ meals'[i].day = meals'[j].day
           /\ meals'[i].by = q /\ meals'[j].by \notin {q, None}
           => r.raced
  PROVE  MealIInv'
<1>1. /\ mealReq' = [p \in Requests |-> mealReq'[p]] /\ mealReq'[q] = r
      /\ \A p \in Requests \ {q} : Beside(mealReq[p], mealReq'[p], items)
  <2>1. mealReq' = [p \in Requests |-> mealReq'[p]]
    BY DEF MealGoesOn, GoesOn
  <2>2. QED BY <2>1, StepBeside DEF MealGoesOn
<1>2. ASSUME NEW p \in Requests \ {q}
      PROVE  LET x == mealReq[p]
                 y == mealReq'[p]
             IN  /\ x \in MealRequest /\ y \in MealRequest /\ y.stage = x.stage
                 /\ y.day = x.day /\ y.rows = x.rows /\ y.id = x.id
                 /\ y.entity = x.entity /\ y.reads = x.reads
                 /\ x.raced => y.raced
                 /\ x.reads \cap items # {} => y.raced
  <2>1. mealReq[p] \in MealRequest
    BY DEF MealIInv, MealsTypeOK
  <2>2. Beside(mealReq[p], mealReq'[p], items)
    BY <1>1
  <2>3. QED BY <2>1, <2>2, BesideMeal
<1>3. MealsTypeOK'
  <2>1. \A p \in Requests : mealReq'[p] \in MealRequest
    BY <1>1, <1>2
  <2>2. mealReq' \in [Requests -> MealRequest]
    BY <1>1, <2>1
  <2>3. QED BY <2>2 DEF MealsTypeOK
<1>4. ASSUME NEW row, WrittenBy(row), row.by \in Requests \cup {None}
      PROVE  row.by # None => row.by # q /\ mealReq'[row.by].stage = "done"
  BY <1>2, <1>4 DEF WrittenBy
<1>5. ASSUME NEW p \in Requests PROVE MealKnows(mealReq[p])'
  <2>1. CASE p = q
    BY <1>1, <2>1 DEF MealKnows
  <2>2. CASE p # q
    <3>1. PICK x, y : /\ x = mealReq[p] /\ y = mealReq'[p] /\ MealKnows(x)
                      /\ x \in MealRequest /\ y.stage = x.stage
                      /\ y.day = x.day /\ y.rows = x.rows /\ y.id = x.id
                      /\ y.entity = x.entity /\ y.reads = x.reads
                      /\ x.raced => y.raced
                      /\ x.reads \cap items # {} => y.raced
      BY <1>2, <2>2 DEF MealIInv
    <3>2. x.stage \in {"deleting", "deleted"} =>
            /\ y.day \in MealDays /\ y.reads = {y.day}
            /\ \/ y.raced
               \/ \A i \in MealIds \ displaced' :
                    meals'[i] # None /\ meals'[i].day = y.day => i \in y.rows
      <4> SUFFICES ASSUME x.stage \in {"deleting", "deleted"}, ~y.raced,
                          NEW i \in MealIds \ displaced',
                          meals'[i] # None, meals'[i].day = x.day
                   PROVE  i \in x.rows
        BY <3>1 DEF MealKnows
      <4>1. /\ x.reads = {x.day} /\ x.day \notin items /\ ~x.raced
            /\ \A j \in MealIds \ displaced :
                 meals[j] # None /\ meals[j].day = x.day => j \in x.rows
        BY <3>1 DEF MealKnows
      <4>2. QED BY <4>1
    <3>3. x.stage \in {"found", "updating"} =>
            /\ y.id \in MealIds /\ y.id < nextMeal' /\ y.entity \in MealRow
            /\ meals'[y.id] # None => meals'[y.id].by = y.entity.by
      <4> SUFFICES ASSUME x.stage \in {"found", "updating"}
                   PROVE  /\ x.id \in MealIds /\ x.id < nextMeal' /\ x.entity \in MealRow
                          /\ meals'[x.id] # None => meals'[x.id].by = x.entity.by
        BY <3>1
      <4>1. /\ x.id \in MealIds /\ x.id < nextMeal /\ x.entity \in MealRow
            /\ meals[x.id] # None => meals[x.id].by = x.entity.by
        BY <3>1 DEF MealKnows
      <4>2. x.id < nextMeal'
        BY <4>1 DEF MealIInv, MealsTypeOK, MealIds
      <4>3. meals[x.id] = None /\ meals'[x.id] # None => meals'[x.id].by = x.entity.by
        <5> SUFFICES ASSUME meals[x.id] = None, meals'[x.id] # None
                     PROVE  meals'[x.id].by = x.entity.by
          OBVIOUS
        <5>1. /\ mealReq[q].stage = "found" /\ mealReq[q].id = x.id
              /\ meals'[x.id] = mealReq[q].entity
          BY <4>1
        <5>2. SameMeal(mealReq[q], mealReq[p])
          BY DEF MealIInv
        <5>3. QED BY <3>1, <5>1, <5>2 DEF SameMeal
      <4>4. QED BY <4>1, <4>2, <4>3
    <3>4. QED BY <3>1, <3>2, <3>3 DEF MealKnows
  <2>3. QED BY <2>1, <2>2
<1>6. ASSUME NEW p \in Requests, mealReq'[p].stage \in {"found", "updating"}
      PROVE  WrittenBy(mealReq[p].entity)'
  <2>1. PICK row \in MealRow : row = mealReq'[p].entity /\ WrittenBy(row)
    <3>1. CASE p = q
      BY <1>1, <1>5, <1>6, <3>1 DEF MealKnows
    <3>2. CASE p # q
      BY <1>2, <1>6, <3>2 DEF MealIInv, MealKnows
    <3>3. QED BY <3>1, <3>2
  <2>2. row.by \in Requests \cup {None}
    BY DEF MealRow
  <2>3. QED BY <1>4, <2>1, <2>2 DEF WrittenBy
<1>7. ASSUME NEW p \in Requests, NEW w \in Requests
      PROVE  SameMeal(mealReq[p], mealReq[w])'
  BY <1>1, <1>2 DEF MealIInv, SameMeal
<1>8. ASSUME NEW i \in MealIds, meals'[i] # None
      PROVE  i < nextMeal' /\ WrittenBy(meals[i])'
  <2>1. CASE meals[i] # None
    <3>1. i < nextMeal /\ WrittenBy(meals[i]) /\ meals[i].by \in Requests \cup {None}
      BY <2>1 DEF MealIInv, MealsTypeOK, MealRow
    <3>2. i < nextMeal'
      BY <3>1 DEF MealIInv, MealsTypeOK, MealIds
    <3>3. PICK row, old : row = meals'[i] /\ old = meals[i] /\ row.by = old.by
      BY <1>8, <2>1
    <3>4. QED BY <1>4, <3>1, <3>2, <3>3 DEF WrittenBy
  <2>2. CASE meals[i] = None
    <3>1. CASE i < nextMeal
      <4>1. /\ mealReq[q].stage = "found" /\ meals'[i] = mealReq[q].entity
        BY <1>8, <2>2, <3>1
      <4>2. PICK row \in MealRow : row = mealReq[q].entity /\ WrittenBy(row)
        BY <4>1 DEF MealIInv, MealKnows
      <4>3. row.by \in Requests \cup {None}
        BY DEF MealRow
      <4>4. meals'[i] = row /\ mealReq[q].stage = "found" /\ WrittenBy(meals[i])'
        BY <1>4, <4>1, <4>2, <4>3 DEF WrittenBy
      <4>5. i < nextMeal'
        BY <3>1 DEF MealIInv, MealsTypeOK, MealIds
      <4>6. QED BY <4>4, <4>5
    <3>2. CASE ~(i < nextMeal)
      BY <1>1, <1>8, <2>2, <3>2 DEF WrittenBy
    <3>3. QED BY <3>1, <3>2
  <2>3. QED BY <2>1, <2>2
<1>9. MenuFromOneSave'
  <2> SUFFICES ASSUME NEW i \in MealIds \ displaced', NEW j \in MealIds \ displaced',
                      meals'[i] # None, meals'[j] # None,
                      meals'[i].day = meals'[j].day, meals'[i].by # meals'[j].by,
                      meals'[i].by # None, meals'[j].by # None
               PROVE  mealReq'[meals'[i].by].raced \/ mealReq'[meals'[j].by].raced
    BY DEF MenuFromOneSave
  <2>1. CASE meals'[i].by = q
    BY <1>1, <2>1
  <2>2. CASE meals'[j].by = q
    BY <1>1, <2>2
  <2>3. CASE meals'[i].by # q /\ meals'[j].by # q
    <3>1. meals'[i] = meals[i] /\ meals'[j] = meals[j]
      BY <2>3
    <3>2. mealReq[meals[i].by].raced \/ mealReq[meals[j].by].raced
      BY <3>1 DEF MealIInv, MenuFromOneSave
    <3>3. meals[i].by \in Requests \ {q} /\ meals[j].by \in Requests \ {q}
      BY <2>3, <3>1 DEF MealRow
    <3>4. QED BY <1>2, <3>1, <3>2, <3>3
  <2>4. QED BY <2>1, <2>2, <2>3
<1>10. QED BY <1>3, <1>5, <1>6, <1>7, <1>8, <1>9 DEF MealIInv

(* Steps that leave the rows alone.                                        *)
LEMMA MealReadStep ==
  ASSUME MealIInv, NEW q \in Requests, NEW r \in MealRequest, MealGoesOn(q, r, {}),
         mealReq[q].stage # "done", UNCHANGED <<meals, nextMeal, displaced>>,
         MealKnows(r), r.stage \in {"found", "updating"} => WrittenBy(r.entity),
         \A p \in Requests \ {q} : SameMeal(r, mealReq[p])
  PROVE  MealIInv'
<1>1. MealKnows(r)'
  BY DEF MealKnows
<1>2. meals \in [MealIds -> MealRow \cup {None}] /\ nextMeal \in 1 .. MaxMeals + 1
      /\ displaced \subseteq MealIds /\ nextMeal <= nextMeal
  BY MealsAssumption DEF MealIInv, MealsTypeOK, MealsAssumption
<1>3. ASSUME NEW i \in MealIds, meals[i] # None PROVE meals[i].by # q
  <2>1. WrittenBy(meals[i]) /\ meals[i] \in MealRow
    BY <1>2, <1>3 DEF MealIInv
  <2>2. q # None
    BY NoMealAssumption DEF NoMealAssumption
  <2>3. QED BY <2>1, <2>2 DEF WrittenBy
<1>4. QED BY <1>1, <1>2, <1>3, MealStep

LEMMA OverMeal ==
  ASSUME NEW q \in Requests, mealReq[q] \in MealRequest, NEW stage \in {"done", "failed"},
         NEW y, y = MealOver(q, stage)
  PROVE  y \in MealRequest /\ y.stage = stage /\ y.raced = mealReq[q].raced
<1>1. PICK x \in MealRequest : x = mealReq[q]
  OBVIOUS
<1>2. PICK z : z = Over(x, stage)
  OBVIOUS
<1>3. z \in MealRequest /\ z.stage = stage /\ z.raced = x.raced
  BY <1>2 DEF Over, MealRequest
<1>4. y = [z EXCEPT !.rows = {}]
  BY <1>1, <1>2 DEF MealOver
<1>5. y \in MealRequest /\ y.stage = stage /\ y.raced = z.raced
  BY <1>3, <1>4 DEF MealRequest
<1>6. QED BY <1>1, <1>3, <1>5

LEMMA FailMealStep ==
  ASSUME MealIInv, NEW q \in Requests, FailMeal(q)
  PROVE  MealIInv'
<1>1. PICK y : y = MealOver(q, "failed")
  OBVIOUS
<1>2. y \in MealRequest /\ y.stage = "failed"
  BY <1>1, OverMeal DEF MealIInv, MealsTypeOK
<1>3. /\ MealGoesOn(q, y, {}) /\ mealReq[q].stage # "done"
      /\ UNCHANGED <<meals, nextMeal, displaced>>
  BY <1>1 DEF FailMeal, MealAt
<1>4. MealKnows(y) /\ \A p \in Requests : SameMeal(y, mealReq[p])
  BY <1>2 DEF MealKnows, SameMeal
<1>5. QED BY <1>2, <1>3, <1>4, MealReadStep

LEMMA BeginSaveStep ==
  ASSUME MealIInv, NEW q \in Requests, NEW d \in MealDays, BeginSave(q, d)
  PROVE  MealIInv'
<1>1. PICK y : y = [NoMealRequest EXCEPT !.stage = "deleting", !.day = d,
                                         !.rows = RowsOf(d), !.reads = {d}]
  OBVIOUS
<1>2. RowsOf(d) \in SUBSET MealIds
  BY DEF RowsOf
<1>3. /\ y \in MealRequest /\ y.stage = "deleting" /\ y.day = d /\ y.rows = RowsOf(d)
      /\ y.reads = {d}
  BY <1>1, <1>2 DEF NoMealRequest, MealRequest
<1>4. /\ MealGoesOn(q, y, {}) /\ mealReq[q].stage # "done"
      /\ UNCHANGED <<meals, nextMeal, displaced>>
  BY <1>1 DEF BeginSave, MealAt
<1>5. MealKnows(y)
  BY <1>3 DEF MealKnows, RowsOf
<1>6. \A p \in Requests : SameMeal(y, mealReq[p])
  BY <1>3 DEF SameMeal
<1>7. QED BY <1>3, <1>4, <1>5, <1>6, MealReadStep

LEMMA DeleteDayStep ==
  ASSUME MealIInv, NEW q \in Requests, DeleteDay(q)
  PROVE  MealIInv'
<1>1. PICK x \in MealRequest : x = mealReq[q] /\ MealKnows(x) /\ x.stage = "deleting"
  BY DEF DeleteDay, MealAt, MealIInv, MealsTypeOK
<1>2. PICK rows \in SUBSET MealIds : rows = x.rows \cap RowsOf(x.day)
  BY DEF MealRequest
<1>3. PICK y : y = [x EXCEPT !.stage = "deleted", !.rows = rows]
  OBVIOUS
<1>4. /\ y \in MealRequest /\ y.stage = "deleted" /\ y.day = x.day /\ y.rows = rows
      /\ y.reads = x.reads /\ y.raced = x.raced
  BY <1>3 DEF MealRequest
<1>5. /\ MealGoesOn(q, y, {}) /\ mealReq[q].stage # "done"
      /\ UNCHANGED <<meals, nextMeal, displaced>>
  BY <1>1, <1>2, <1>3 DEF DeleteDay, MealAt
<1>6. MealKnows(y)
  BY <1>1, <1>2, <1>4 DEF MealKnows, RowsOf
<1>7. \A p \in Requests : SameMeal(y, mealReq[p])
  BY <1>4 DEF SameMeal
<1>8. QED BY <1>4, <1>5, <1>6, <1>7, MealReadStep

LEMMA FindMealStep ==
  ASSUME MealIInv, NEW q \in Requests, NEW i \in MealIds, NEW d \in MealDays,
         FindMeal(q, i, d)
  PROVE  MealIInv'
<1>1. PICK row \in MealRow : row = meals[i] /\ i < nextMeal /\ WrittenBy(row)
  BY DEF FindMeal, MealIInv, MealsTypeOK
<1>2. PICK e : e = [row EXCEPT !.day = d]
  OBVIOUS
<1>3. e \in MealRow /\ e.by = row.by
  BY <1>2 DEF MealRow
<1>4. PICK y : y = [NoMealRequest EXCEPT !.stage = "found", !.id = i, !.entity = e]
  OBVIOUS
<1>5. y \in MealRequest /\ y.stage = "found" /\ y.id = i /\ y.entity = e
  BY <1>3, <1>4 DEF NoMealRequest, MealRequest
<1>6. /\ MealGoesOn(q, y, {}) /\ mealReq[q].stage # "done"
      /\ UNCHANGED <<meals, nextMeal, displaced>> /\ meals[i] # None
  BY <1>1, <1>2, <1>4 DEF FindMeal, MealAt
<1>7. MealKnows(y)
  BY <1>1, <1>3, <1>5 DEF MealKnows
<1>8. \A p \in Requests : SameMeal(y, mealReq[p])
  BY <1>1, <1>3, <1>5, <1>6 DEF SameMeal, MealIInv, MealKnows
<1>9. WrittenBy(y.entity)
  BY <1>1, <1>3, <1>5 DEF WrittenBy
<1>10. QED BY <1>5, <1>6, <1>7, <1>8, <1>9, MealReadStep

(* A row that is there was not written by a request that is still going.   *)
LEMMA NotWritten ==
  ASSUME MealIInv, NEW q \in Requests, mealReq[q].stage # "done",
         NEW i \in MealIds, meals[i] # None
  PROVE  meals[i].by # q /\ meals[i] \in MealRow /\ i < nextMeal
<1>1. WrittenBy(meals[i]) /\ meals[i] \in MealRow /\ i < nextMeal
  BY DEF MealIInv, MealsTypeOK
<1>2. q # None
  BY NoMealAssumption DEF NoMealAssumption
<1>3. QED BY <1>1, <1>2 DEF WrittenBy

LEMMA CommitSaveStep ==
  ASSUME MealIInv, NEW q \in Requests, NEW n \in 0 .. MaxSlots, CommitSave(q, n)
  PROVE  MealIInv'
<1>1. PICK x \in MealRequest : x = mealReq[q] /\ MealKnows(x) /\ x.stage = "deleted"
  BY DEF CommitSave, MealAt, MealIInv, MealsTypeOK
<1>2. PICK y : y = MealOver(q, "done")
  OBVIOUS
<1>3. y \in MealRequest /\ y.stage = "done" /\ y.raced = x.raced
  BY <1>1, <1>2, OverMeal
<1>4. PICK row \in MealRow : row = [day |-> x.day, by |-> q]
  BY <1>1 DEF MealKnows, MealRow
<1>5. row.day = x.day /\ row.by = q /\ row # None
  BY <1>4, NoMealAssumption DEF NoMealAssumption
<1>6. /\ n \in Nat /\ nextMeal \in Nat /\ MaxMeals \in Nat /\ nextMeal \in 1 .. MaxMeals + 1
      /\ meals \in [MealIds -> MealRow \cup {None}] /\ displaced \subseteq MealIds
  BY MealsAssumption DEF MealsAssumption, MealIInv, MealsTypeOK
<1>7. /\ meals' = [i \in MealIds |-> IF i \in nextMeal .. nextMeal + n - 1 THEN row
                                    ELSE IF i \in x.rows THEN None ELSE meals[i]]
      /\ nextMeal' = nextMeal + n /\ nextMeal + n <= MaxMeals + 1
      /\ MealGoesOn(q, y, {x.day}) /\ displaced' = displaced
  BY <1>1, <1>2, <1>4 DEF CommitSave
<1>8. meals' \in [MealIds -> MealRow \cup {None}]
  BY <1>6, <1>7
<1>9. nextMeal' \in 1 .. MaxMeals + 1 /\ nextMeal <= nextMeal'
  BY <1>6, <1>7
<1>10. ASSUME NEW i \in MealIds, meals[i] # None
       PROVE  meals'[i] \in {None, meals[i]} /\ meals[i].by # q
  <2>1. i < nextMeal /\ meals[i].by # q
    BY <1>1, <1>10, NotWritten
  <2>2. i \notin nextMeal .. nextMeal + n - 1
    BY <1>6, <2>1 DEF MealIds
  <2>3. QED BY <1>7, <2>1, <2>2
<1>11. ASSUME NEW i \in MealIds, meals[i] = None, meals'[i] # None
       PROVE  meals'[i] = row /\ ~(i < nextMeal) /\ i < nextMeal'
  <2>1. i \in nextMeal .. nextMeal + n - 1 /\ meals'[i] = row
    BY <1>7, <1>11
  <2>2. QED BY <1>6, <1>7, <2>1 DEF MealIds
<1>12. ASSUME NEW i \in MealIds \ displaced', NEW j \in MealIds \ displaced',
              meals'[i] # None, meals'[j] # None, meals'[i].day = meals'[j].day,
              meals'[i].by = q, meals'[j].by \notin {q, None}
       PROVE  y.raced
  <2>1. meals[i] = None
    BY <1>10, <1>12
  <2>2. meals'[i].day = x.day
    BY <1>5, <1>11, <1>12, <2>1
  <2>3. meals[j] # None
    BY <1>5, <1>11, <1>12
  <2>4. meals'[j] = meals[j] /\ j \notin nextMeal .. nextMeal + n - 1
    BY <1>5, <1>7, <1>10, <1>12, <2>3
  <2>5. j \notin x.rows
    BY <1>7, <1>12, <2>4
  <2>6. QED BY <1>1, <1>3, <1>7, <1>12, <2>2, <2>3, <2>4, <2>5 DEF MealKnows
<1>13. MealKnows(y)' /\ \A p \in Requests : SameMeal(y, mealReq[p])
  BY <1>3 DEF MealKnows, SameMeal
<1>14. QED
  BY <1>1, <1>3, <1>5, <1>6, <1>7, <1>8, <1>9, <1>10, <1>11, <1>12, <1>13, MealStep

LEMMA CreateMealStep ==
  ASSUME MealIInv, NEW q \in Requests, NEW d \in MealDays, CreateMeal(q, d)
  PROVE  MealIInv'
<1>1. mealReq[q] \in MealRequest /\ mealReq[q].stage # "done"
  BY DEF CreateMeal, MealAt, MealIInv, MealsTypeOK
<1>2. PICK y : y = MealOver(q, "done")
  OBVIOUS
<1>3. y \in MealRequest /\ y.stage = "done"
  BY <1>1, <1>2, OverMeal
<1>4. PICK row \in MealRow : row = [day |-> d, by |-> None]
  BY DEF MealRow
<1>5. row.day = d /\ row.by = None /\ row # None
  BY <1>4, NoMealAssumption DEF NoMealAssumption
<1>6. /\ nextMeal \in Nat /\ MaxMeals \in Nat /\ nextMeal \in 1 .. MaxMeals + 1
      /\ meals \in [MealIds -> MealRow \cup {None}] /\ displaced \subseteq MealIds
  BY MealsAssumption DEF MealsAssumption, MealIInv, MealsTypeOK
<1>7. /\ meals' = [meals EXCEPT ![nextMeal] = row] /\ nextMeal <= MaxMeals
      /\ nextMeal' = nextMeal + 1 /\ MealGoesOn(q, y, {d}) /\ displaced' = displaced
  BY <1>2, <1>4 DEF CreateMeal
<1>8. /\ meals' \in [MealIds -> MealRow \cup {None}]
      /\ nextMeal' \in 1 .. MaxMeals + 1 /\ nextMeal <= nextMeal'
  <2>1. meals' \in [MealIds -> MealRow \cup {None}]
    BY <1>6, <1>7
  <2>2. nextMeal' \in 1 .. MaxMeals + 1 /\ nextMeal <= nextMeal'
    BY <1>6, <1>7
  <2>3. QED BY <2>1, <2>2
<1>9. ASSUME NEW i \in MealIds, meals[i] # None
      PROVE  meals'[i] = meals[i] /\ meals[i].by # q
  <2>1. i < nextMeal /\ meals[i].by # q
    BY <1>1, <1>9, NotWritten
  <2>2. QED BY <1>6, <1>7, <2>1 DEF MealIds
<1>10. ASSUME NEW i \in MealIds, meals[i] = None, meals'[i] # None
       PROVE  meals'[i] = row /\ ~(i < nextMeal) /\ i < nextMeal'
  BY <1>6, <1>7, <1>10 DEF MealIds
<1>11. ASSUME NEW i \in MealIds, meals'[i] # None PROVE meals'[i].by # q
  <2>1. q # None
    BY NoMealAssumption DEF NoMealAssumption
  <2>2. QED BY <1>5, <1>9, <1>10, <1>11, <2>1
<1>12. MealKnows(y)' /\ \A p \in Requests : SameMeal(y, mealReq[p])
  BY <1>3 DEF MealKnows, SameMeal
<1>13. QED
  BY <1>1, <1>3, <1>5, <1>6, <1>7, <1>8, <1>9, <1>10, <1>11, <1>12, MealStep

LEMMA SaveMealStep ==
  ASSUME MealIInv, NEW q \in Requests, SaveMeal(q)
  PROVE  MealIInv'
<1>1. PICK x \in MealRequest : /\ x = mealReq[q] /\ MealKnows(x) /\ x.stage = "found"
                               /\ WrittenBy(x.entity)
  BY DEF SaveMeal, MealAt, MealIInv, MealsTypeOK
<1>2. PICK i \in MealIds : i = x.id /\ i < nextMeal /\ x.entity \in MealRow
  BY <1>1 DEF MealKnows
<1>3. CASE meals[i] # None
  <2> DEFINE moved == IF x.entity.day = meals[i].day THEN None ELSE x.entity.day
  <2>1. PICK y : y = [x EXCEPT !.stage = "updating", !.day = moved]
    OBVIOUS
  <2>2. /\ y \in MealRequest /\ y.stage = "updating" /\ y.id = x.id
        /\ y.entity = x.entity
    <3>1. moved \in MealDays \cup {None}
      BY <1>2 DEF MealRow
    <3> HIDE DEF moved
    <3>2. QED BY <1>1, <2>1, <3>1 DEF MealRequest
  <2>3. /\ MealGoesOn(q, y, {}) /\ mealReq[q].stage # "done"
        /\ UNCHANGED <<meals, nextMeal, displaced>>
    BY <1>1, <1>2, <1>3, <2>1 DEF SaveMeal
  <2> HIDE DEF moved
  <2>4. MealKnows(y)
    BY <1>1, <2>2 DEF MealKnows
  <2>5. \A p \in Requests : SameMeal(y, mealReq[p])
    <3> SUFFICES ASSUME NEW p \in Requests PROVE SameMeal(y, mealReq[p])
      OBVIOUS
    <3>1. SameMeal(x, mealReq[p])
      BY <1>1 DEF MealIInv
    <3>2. QED BY <1>1, <2>2, <3>1 DEF SameMeal
  <2>6. QED BY <1>1, <2>2, <2>3, <2>4, <2>5, MealReadStep
<1>4. CASE meals[i] = None
  <2>1. PICK y : y = MealOver(q, "done")
    OBVIOUS
  <2>2. y \in MealRequest /\ y.stage = "done"
    BY <1>1, <2>1, OverMeal
  <2>3. /\ MealGoesOn(q, y, {x.entity.day}) /\ mealReq[q].stage # "done"
        /\ meals' = [meals EXCEPT ![i] = x.entity]
        /\ displaced' = displaced \cup {i} /\ nextMeal' = nextMeal
    BY <1>1, <1>2, <1>4, <2>1 DEF SaveMeal
  <2>4. /\ nextMeal \in Nat /\ nextMeal \in 1 .. MaxMeals + 1
        /\ meals \in [MealIds -> MealRow \cup {None}] /\ displaced \subseteq MealIds
    BY MealsAssumption DEF MealsAssumption, MealIInv, MealsTypeOK
  <2>5. /\ meals' \in [MealIds -> MealRow \cup {None}]
        /\ displaced' \subseteq MealIds /\ displaced \subseteq displaced'
        /\ nextMeal <= nextMeal'
    BY <1>2, <2>3, <2>4
  <2>6. ASSUME NEW j \in MealIds, j # i PROVE meals'[j] = meals[j] 
    BY <2>3, <2>4, <2>6
  <2>7. meals'[i] = x.entity /\ i \in displaced'
    BY <1>2, <2>3, <2>4
  <2>8. ASSUME NEW j \in MealIds \ displaced', meals'[j] # None
        PROVE  meals'[j].by # q
    <3>1. meals'[j] = meals[j] /\ meals[j] # None
      BY <2>6, <2>7, <2>8
    <3>2. QED BY <2>3, <3>1, NotWritten
  <2>9. MealKnows(y)' /\ \A p \in Requests : SameMeal(y, mealReq[p])
    BY <2>2 DEF MealKnows, SameMeal
  <2>10. QED
    BY <1>1, <1>2, <1>4, <2>2, <2>3, <2>4, <2>5, <2>6, <2>7, <2>8, <2>9, MealStep
<1>5. QED BY <1>3, <1>4

LEMMA UpdateMealStep ==
  ASSUME MealIInv, NEW q \in Requests, UpdateMeal(q)
  PROVE  MealIInv'
<1>1. PICK x \in MealRequest : x = mealReq[q] /\ MealKnows(x) /\ x.stage = "updating"
  BY DEF UpdateMeal, MealAt, MealIInv, MealsTypeOK
<1>2. PICK y : y = MealOver(q, "done")
  OBVIOUS
<1>3. y \in MealRequest /\ y.stage = "done"
  BY <1>1, <1>2, OverMeal
<1>4. /\ MealGoesOn(q, y, {}) /\ mealReq[q].stage # "done" /\ nextMeal' = nextMeal
  BY <1>1, <1>2 DEF UpdateMeal
<1>5. PICK i \in MealIds : i = x.id
  BY <1>1 DEF MealKnows
<1>6. CASE meals[i] = None \/ x.day = None
  <2>1. UNCHANGED <<meals, nextMeal, displaced>>
    BY <1>1, <1>4, <1>5, <1>6 DEF UpdateMeal
  <2>2. MealKnows(y) /\ \A p \in Requests : SameMeal(y, mealReq[p])
    BY <1>3 DEF MealKnows, SameMeal
  <2>3. QED BY <1>3, <1>4, <2>1, <2>2, MealReadStep
<1>7. CASE meals[i] # None /\ x.day # None
  <2>1. PICK row \in MealRow : row = meals[i] /\ row.by # q
    BY <1>4, <1>7, NotWritten
  <2>2. PICK new : new = [row EXCEPT !.day = x.day]
    OBVIOUS
  <2>3. new \in MealRow /\ new.by = row.by
    BY <1>7, <2>2 DEF MealRequest, MealRow
  <2>4. new # None
    BY <2>3, NoMealAssumption DEF NoMealAssumption
  <2>5. /\ nextMeal \in Nat /\ nextMeal \in 1 .. MaxMeals + 1
        /\ meals \in [MealIds -> MealRow \cup {None}] /\ displaced \subseteq MealIds
    BY MealsAssumption DEF MealsAssumption, MealIInv, MealsTypeOK
  <2>6. meals' = [meals EXCEPT ![i] = new] /\ displaced' = displaced \cup {i}
    BY <1>1, <1>5, <1>7, <2>1, <2>2, <2>5 DEF UpdateMeal
  <2>7. /\ meals' \in [MealIds -> MealRow \cup {None}]
        /\ displaced' \subseteq MealIds /\ displaced \subseteq displaced'
        /\ nextMeal <= nextMeal' /\ meals'[i] = new /\ i \in displaced'
    BY <1>4, <2>3, <2>5, <2>6
  <2>8. ASSUME NEW j \in MealIds, j # i PROVE meals'[j] = meals[j]
    BY <2>5, <2>6, <2>8
  <2>9. ASSUME NEW j \in MealIds \ displaced', meals'[j] # None
        PROVE  meals'[j].by # q
    <3>1. meals'[j] = meals[j] /\ meals[j] # None
      BY <2>7, <2>8, <2>9
    <3>2. QED BY <1>4, <3>1, NotWritten
  <2>10. MealKnows(y)' /\ \A p \in Requests : SameMeal(y, mealReq[p])
    BY <1>3 DEF MealKnows, SameMeal
  <2>11. ASSUME NEW j \in MealIds, meals[j] # None
         PROVE  \/ meals'[j] \in {None, meals[j]}
                \/ j \in displaced' /\ meals'[j] # None /\ meals'[j].by = meals[j].by
    BY <2>1, <2>3, <2>4, <2>7, <2>8
  <2>12. \A j \in MealIds : meals[j] = None => meals'[j] = None
    BY <1>7, <2>8
  <2>13. nextMeal' \in 1 .. MaxMeals + 1
    BY <1>4, <2>5
  <2>14. QED
    BY <1>1, <1>3, <1>4, <2>7, <2>9, <2>10, <2>11, <2>12, <2>13, MealStep
<1>8. QED BY <1>6, <1>7

LEMMA DeleteMealsStep ==
  ASSUME MealIInv, NEW q \in Requests, NEW rows, DeleteMeals(q, rows)
  PROVE  MealIInv'
<1>1. mealReq[q] \in MealRequest /\ mealReq[q].stage # "done"
  BY DEF DeleteMeals, MealAt, MealIInv, MealsTypeOK
<1>2. PICK y : y = MealOver(q, "done")
  OBVIOUS
<1>3. y \in MealRequest /\ y.stage = "done"
  BY <1>1, <1>2, OverMeal
<1>4. PICK items : MealGoesOn(q, y, items)
  BY <1>2 DEF DeleteMeals
<1>5. /\ meals' = [i \in MealIds |-> IF i \in rows THEN None ELSE meals[i]]
      /\ nextMeal' = nextMeal /\ displaced' = displaced
  BY DEF DeleteMeals
<1>6. /\ nextMeal \in Nat /\ nextMeal \in 1 .. MaxMeals + 1
      /\ meals \in [MealIds -> MealRow \cup {None}] /\ displaced \subseteq MealIds
  BY MealsAssumption DEF MealsAssumption, MealIInv, MealsTypeOK
<1>7. meals' \in [MealIds -> MealRow \cup {None}] /\ nextMeal <= nextMeal'
  BY <1>5, <1>6
<1>8. \A i \in MealIds : meals'[i] \in {None, meals[i]}
  BY <1>5
<1>9. ASSUME NEW i \in MealIds, meals'[i] # None PROVE meals'[i].by # q
  <2>1. meals'[i] = meals[i] /\ meals[i] # None
    BY <1>8, <1>9
  <2>2. QED BY <1>1, <2>1, NotWritten
<1>10. MealKnows(y)' /\ \A p \in Requests : SameMeal(y, mealReq[p])
  BY <1>3 DEF MealKnows, SameMeal
<1>11. QED
  BY <1>1, <1>3, <1>4, <1>5, <1>6, <1>7, <1>8, <1>9, <1>10, MealStep

LEMMA MealNextIInv == MealIInv /\ [MealsNext]_mealVars => MealIInv'
<1> SUFFICES ASSUME MealIInv, [MealsNext]_mealVars PROVE MealIInv'
  OBVIOUS
<1>1. CASE UNCHANGED mealVars
  BY <1>1 DEF mealVars, MealIInv, MealsTypeOK, MealKnows, SameMeal, WrittenBy,
              MenuFromOneSave
<1>2. CASE MealsNext
  <2> PICK q \in Requests :
        \/ \E d \in MealDays : \/ BeginSave(q, d) \/ CreateMeal(q, d)
                               \/ RowsOf(d) # {} /\ DeleteMeals(q, RowsOf(d))
        \/ \E n \in 0 .. MaxSlots : CommitSave(q, n)
        \/ \E i \in MealIds : \/ \E d \in MealDays : FindMeal(q, i, d)
                              \/ meals[i] # None /\ DeleteMeals(q, {i})
        \/ DeleteMeals(q, UNION {RowsOf(d) : d \in MealDays})
        \/ DeleteDay(q) \/ SaveMeal(q) \/ UpdateMeal(q) \/ FailMeal(q)
    BY <1>2 DEF MealsNext
  <2>1. CASE \E d \in MealDays : BeginSave(q, d)
    BY <2>1, BeginSaveStep
  <2>2. CASE \E d \in MealDays : CreateMeal(q, d)
    BY <2>2, CreateMealStep
  <2>3. CASE \E n \in 0 .. MaxSlots : CommitSave(q, n)
    BY <2>3, CommitSaveStep
  <2>4. CASE \E i \in MealIds, d \in MealDays : FindMeal(q, i, d)
    BY <2>4, FindMealStep
  <2>5. CASE \E rows : DeleteMeals(q, rows)
    BY <2>5, DeleteMealsStep
  <2>6. CASE DeleteDay(q)
    BY <2>6, DeleteDayStep
  <2>7. CASE SaveMeal(q)
    BY <2>7, SaveMealStep
  <2>8. CASE UpdateMeal(q)
    BY <2>8, UpdateMealStep
  <2>9. CASE FailMeal(q)
    BY <2>9, FailMealStep
  <2>10. QED
    BY <2>1, <2>2, <2>3, <2>4, <2>5, <2>6, <2>7, <2>8, <2>9
<1>3. QED BY <1>1, <1>2

(* A day's menu is of one save: saveDailyMeals replaces the day's rows in  *)
(* one transaction, so two saves mix only when they ran at the same time   *)
(* (READ COMMITTED: the second DELETE does not see the first one's rows)   *)
(* or when an update moved a row to the day or put a deleted one back.     *)
THEOREM MenuIsOfOneSave == MealsSpec => []MenuFromOneSave
<1>1. MealIInv => MenuFromOneSave
  BY DEF MealIInv
<1>2. QED
  BY <1>1, MealInitIInv, MealNextIInv, PTL DEF MealsSpec

-----------------------------------------------------------------------------
(* Bookings.                                                               *)
LEMMA BesideBook ==
  ASSUME NEW x \in BookRequest, NEW items, NEW y, Beside(x, y, items)
  PROVE  /\ y \in BookRequest /\ y.stage = x.stage /\ y.key = x.key /\ y.row = x.row
         /\ y.status = x.status /\ y.reads = x.reads
         /\ x.raced => y.raced
         /\ x.reads \cap items # {} => y.raced
<1>1. CASE y = x /\ x.reads \cap items = {}
  BY <1>1
<1>2. CASE y = [x EXCEPT !.raced = TRUE] /\ x.reads \cap items # {}
  BY <1>2 DEF BookRequest
<1>3. QED BY <1>1, <1>2 DEF Beside

(* A request admitted for a key knows that whoever booked with it has not  *)
(* answered; one that has counted the pending rows knows there is none.    *)
BookKnows(r) ==
  /\ r.stage \in {"admitted", "checked"} =>
       /\ r.key \in IdemKeys /\ <<"key", r.key>> \in r.reads
       /\ \/ r.raced
          \/ \A b \in BookingIds :
               madeBy[b] # None /\ Maker(b).key = r.key =>
                 r.key \in forgotten \/ Maker(b).stage \in {"inserted", "failed"}
  /\ r.stage = "checked" =>
       /\ BooksPending \in r.reads
       /\ r.raced \/ \A b \in BookingIds : bookings[b] # "PENDING"
  /\ r.stage = "inserted" =>
       r.key \in IdemKeys /\ r.row \in BookingIds /\ <<"key", r.key>> \in r.reads
  /\ r.stage = "found" => r.row \in BookingIds /\ madeBy[r.row] # None

(* The maker of a row has inserted it, and once it has answered the answer *)
(* is kept or was dropped.                                                 *)
Made(b) ==
  /\ bookings[b] # None => madeBy[b] # None
  /\ madeBy[b] # None =>
       /\ Maker(b).stage \in {"inserted", "done", "failed"} /\ Maker(b).key \in IdemKeys
       /\ Maker(b).stage = "done" =>
            replies[Maker(b).key] # None \/ Maker(b).key \in forgotten

BookIInv ==
  /\ BookingsTypeOK
  /\ \A q \in Requests : BookKnows(bookReq[q])
  /\ \A b \in BookingIds : Made(b)
  /\ BookedOnce

LEMMA BookInitIInv == BookingsInit => BookIInv
<1> SUFFICES ASSUME BookingsInit PROVE BookIInv
  OBVIOUS
<1>1. NoBookRequest \in BookRequest /\ NoBookRequest.stage = "unsent"
  BY DEF NoBookRequest, BookRequest
<1>2. \A q \in Requests : bookReq[q] = NoBookRequest
  BY DEF BookingsInit
<1>3. BookingsTypeOK
  BY <1>1 DEF BookingsInit, BookingsTypeOK
<1>4. \A b \in BookingIds : bookings[b] = None /\ madeBy[b] = None
  BY DEF BookingsInit
<1>5. BookedOnce
  BY <1>4, NoBookingAssumption
  DEF NoBookingAssumption, BookedOnce, PendingOnce, KeyBooksOnce, BookingStatus
<1>6. QED
  BY <1>1, <1>2, <1>3, <1>4, <1>5 DEF BookIInv, BookKnows, Made

(* A step of q that makes no row: what the others know they still know, or *)
(* they are marked.                                                        *)
LEMMA BookStep ==
  ASSUME BookIInv, NEW q \in Requests, NEW r \in BookRequest, NEW items,
         BookGoesOn(q, r, items), r.reads \cap items = {}, BookKnows(r),
         madeBy' = madeBy, forgotten' = forgotten,
         bookings' \in [BookingIds -> BookingStatus \cup {None}],
         replies' \in [IdemKeys -> BookingIds \cup {None}],
         reopened \subseteq reopened', reopened' \subseteq BookingIds,
         \A k \in IdemKeys : replies[k] # None => replies'[k] # None,
         bookReq[q].stage \notin {"done", "failed"},
         bookReq[q].stage = "inserted" =>
           /\ r.stage \in {"done", "failed"} /\ r.key = bookReq[q].key
           /\ r.raced = bookReq[q].raced
           /\ r.stage = "done" => replies'[r.key] # None /\ <<"key", r.key>> \in items,
         \A b \in BookingIds : bookings'[b] # bookings[b] =>
           /\ madeBy[b] # None
           /\ bookings'[b] = "PENDING" => b \in reopened' /\ BooksPending \in items
  PROVE  BookIInv'
<1>1. /\ bookReq' = [p \in Requests |-> bookReq'[p]] /\ bookReq'[q] = r
      /\ \A p \in Requests \ {q} : Beside(bookReq[p], bookReq'[p], items)
  <2>1. bookReq' = [p \in Requests |-> bookReq'[p]]
    BY DEF BookGoesOn, GoesOn
  <2>2. QED BY <2>1, StepBeside DEF BookGoesOn
<1>2. /\ bookReq \in [Requests -> BookRequest]
      /\ madeBy \in [BookingIds -> Requests \cup {None}]
      /\ bookings \in [BookingIds -> BookingStatus \cup {None}]
      /\ forgotten \subseteq IdemKeys
  BY DEF BookIInv, BookingsTypeOK
<1>3. ASSUME NEW p \in Requests \ {q}
      PROVE  LET x == bookReq[p]
                 y == bookReq'[p]
             IN  /\ y \in BookRequest /\ y.stage = x.stage /\ y.key = x.key
                 /\ y.row = x.row /\ y.status = x.status /\ y.reads = x.reads
                 /\ x.raced => y.raced
                 /\ x.reads \cap items # {} => y.raced
  <2>1. bookReq[p] \in BookRequest /\ Beside(bookReq[p], bookReq'[p], items)
    BY <1>1, <1>2
  <2>2. QED BY <2>1, BesideBook
<1>4. BookingsTypeOK'
  <2>1. \A p \in Requests : bookReq'[p] \in BookRequest
    BY <1>1, <1>3
  <2>2. bookReq' \in [Requests -> BookRequest]
    BY <1>1, <2>1
  <2>3. QED BY <1>2, <2>2 DEF BookingsTypeOK
<1>5. ASSUME NEW b \in BookingIds, madeBy[b] # None
      PROVE  /\ Maker(b).key' = Maker(b).key
             /\ Maker(b).raced => Maker(b).raced'
             /\ \/ Maker(b).stage' = Maker(b).stage
                \/ /\ Maker(b).stage = "inserted" /\ Maker(b).stage' = "failed"
                \/ /\ Maker(b).stage = "inserted" /\ Maker(b).stage' = "done"
                   /\ replies'[Maker(b).key] # None /\ <<"key", Maker(b).key>> \in items
  <2>1. PICK m \in Requests : m = madeBy[b] /\ m = madeBy'[b]
    BY <1>2, <1>5
  <2>2. Maker(b) = bookReq[m] /\ Maker(b)' = bookReq'[m]
    BY <2>1 DEF Maker
  <2>3. CASE m # q
    BY <1>3, <2>2, <2>3
  <2>4. CASE m = q
    <3>1. bookReq[q].stage \in {"inserted", "done", "failed"}
      BY <1>5, <2>2, <2>4 DEF BookIInv, Made
    <3>2. QED BY <1>1, <2>2, <2>4, <3>1
  <2>5. QED BY <2>3, <2>4
<1>6. ASSUME NEW x \in BookRequest, BookKnows(x), NEW y,
             y.stage = x.stage, y.key = x.key, y.row = x.row, y.reads = x.reads,
             x.raced => y.raced, x.reads \cap items # {} => y.raced
      PROVE  BookKnows(y)'
  <2>1. ASSUME x.stage \in {"admitted", "checked"}
        PROVE  /\ y.key \in IdemKeys /\ <<"key", y.key>> \in y.reads
               /\ \/ y.raced
                  \/ \A b \in BookingIds :
                       madeBy'[b] # None /\ Maker(b).key' = y.key =>
                         \/ y.key \in forgotten'
                         \/ Maker(b).stage' \in {"inserted", "failed"}
    <3> SUFFICES ASSUME ~y.raced, NEW b \in BookingIds, madeBy'[b] # None,
                        Maker(b).key' = y.key, y.key \notin forgotten'
                 PROVE  Maker(b).stage' \in {"inserted", "failed"}
      BY <1>6, <2>1 DEF BookKnows
    <3>1. /\ Maker(b).key = x.key /\ Maker(b).stage \in {"inserted", "failed"}
          /\ <<"key", x.key>> \notin items
      BY <1>5, <1>6, <2>1 DEF BookKnows
    <3>2. QED BY <1>5, <3>1
  <2>2. ASSUME x.stage = "checked"
        PROVE  /\ BooksPending \in y.reads
               /\ y.raced \/ \A b \in BookingIds : bookings'[b] # "PENDING"
    <3>1. /\ BooksPending \in x.reads
          /\ x.raced \/ \A b \in BookingIds : bookings[b] # "PENDING"
      BY <1>6, <2>2 DEF BookKnows
    <3>2. CASE BooksPending \in items
      BY <1>6, <3>1, <3>2
    <3>3. CASE BooksPending \notin items
      BY <1>6, <3>1, <3>3
    <3>4. QED BY <3>2, <3>3
  <2>3. QED BY <1>6, <2>1, <2>2 DEF BookKnows, BooksPending
<1>7. ASSUME NEW p \in Requests PROVE BookKnows(bookReq[p])'
  <2>1. CASE p = q
    BY <1>1, <1>6, <2>1
  <2>2. CASE p # q
    <3>1. PICK x, y : x = bookReq[p] /\ y = bookReq'[p]
      OBVIOUS
    <3>2. /\ x \in BookRequest /\ BookKnows(x)
          /\ y.stage = x.stage /\ y.key = x.key /\ y.row = x.row /\ y.reads = x.reads
          /\ x.raced => y.raced
          /\ x.reads \cap items # {} => y.raced
      BY <1>2, <1>3, <2>2, <3>1 DEF BookIInv
    <3>3. BookKnows(y)'
      BY <1>6, <3>2
    <3>4. QED BY <3>1, <3>3
  <2>3. QED BY <2>1, <2>2
<1>8. ASSUME NEW b \in BookingIds PROVE Made(b)'
  <2>1. bookings'[b] # None => madeBy'[b] # None
    BY DEF BookIInv, Made
  <2>2. ASSUME madeBy[b] # None
        PROVE  /\ Maker(b).stage' \in {"inserted", "done", "failed"}
               /\ Maker(b).key' \in IdemKeys
               /\ Maker(b).stage' = "done" =>
                    \/ replies'[Maker(b).key'] # None
                    \/ Maker(b).key' \in forgotten'
    <3>1. /\ Maker(b).stage \in {"inserted", "done", "failed"} /\ Maker(b).key \in IdemKeys
          /\ Maker(b).stage = "done" =>
               replies[Maker(b).key] # None \/ Maker(b).key \in forgotten
      BY <2>2 DEF BookIInv, Made
    <3>2. QED BY <1>5, <2>2, <3>1
  <2>3. QED BY <2>1, <2>2 DEF Made
<1>9. PendingOnce'
  <2> SUFFICES ASSUME NEW b \in BookingIds, NEW c \in BookingIds, b # c,
                      bookings'[b] = "PENDING", bookings'[c] = "PENDING",
                      b \notin reopened', c \notin reopened'
               PROVE  Maker(b).raced' \/ Maker(c).raced'
    BY DEF PendingOnce
  <2>1. bookings[b] = "PENDING" /\ bookings[c] = "PENDING"
    OBVIOUS
  <2>2. madeBy[b] # None /\ madeBy[c] # None
    BY <2>1, NoBookingAssumption
    DEF BookIInv, Made, NoBookingAssumption, BookingStatus
  <2>3. Maker(b).raced \/ Maker(c).raced
    BY <2>1 DEF BookIInv, BookedOnce, PendingOnce
  <2>4. QED BY <1>5, <2>2, <2>3
<1>10. KeyBooksOnce'
  <2> SUFFICES ASSUME NEW b \in BookingIds, NEW c \in BookingIds, b # c,
                      madeBy[b] # None, madeBy[c] # None, Maker(b).key' = Maker(c).key',
                      Maker(b).key' \notin forgotten
               PROVE  \/ Maker(b).raced' \/ Maker(c).raced'
                      \/ "failed" \in {Maker(b).stage', Maker(c).stage'}
    BY DEF KeyBooksOnce
  <2>1. Maker(b).key = Maker(c).key /\ Maker(b).key \notin forgotten
    BY <1>5
  <2>2. \/ Maker(b).raced \/ Maker(c).raced
        \/ "failed" \in {Maker(b).stage, Maker(c).stage}
    BY <2>1 DEF BookIInv, BookedOnce, KeyBooksOnce
  <2>3. QED BY <1>5, <2>2
<1>11. QED BY <1>4, <1>7, <1>8, <1>9, <1>10 DEF BookIInv, BookedOnce

(* Steps that leave the rows, the answers and the history alone.           *)
LEMMA BookOnlyStep ==
  ASSUME BookIInv, NEW q \in Requests, NEW r \in BookRequest, BookOnly(q, r, {}),
         BookKnows(r), bookReq[q].stage \notin {"done", "failed"},
         bookReq[q].stage = "inserted" =>
           r.stage = "failed" /\ r.key = bookReq[q].key /\ r.raced = bookReq[q].raced
  PROVE  BookIInv'
<1>1. /\ BookGoesOn(q, r, {}) /\ bookings' = bookings /\ madeBy' = madeBy
      /\ replies' = replies /\ reopened' = reopened /\ forgotten' = forgotten
  BY DEF BookOnly
<1>2. /\ bookings \in [BookingIds -> BookingStatus \cup {None}]
      /\ replies \in [IdemKeys -> BookingIds \cup {None}] /\ reopened \subseteq BookingIds
  BY DEF BookIInv, BookingsTypeOK
<1>3. QED BY <1>1, <1>2, BookStep

LEMMA OverBook ==
  ASSUME NEW x \in BookRequest, NEW stage \in {"done", "refused", "failed"},
         NEW y, y = Over(x, stage)
  PROVE  /\ y \in BookRequest /\ y.stage = stage /\ y.key = x.key /\ y.raced = x.raced
         /\ y.reads = {} /\ BookKnows(y)
<1>1. /\ y \in BookRequest /\ y.stage = stage /\ y.key = x.key /\ y.raced = x.raced
      /\ y.reads = {}
  BY DEF Over, BookRequest
<1>2. QED BY <1>1 DEF BookKnows

LEMMA ApplyStep ==
  ASSUME BookIInv, NEW q \in Requests, NEW k \in IdemKeys, Apply(q, k)
  PROVE  BookIInv'
<1>1. bookReq[q].stage = "unsent"
  BY DEF Apply, BookStage
<1>2. PICK x : x = [NoBookRequest EXCEPT !.key = k]
  OBVIOUS
<1>3. x \in BookRequest /\ x.key = k /\ x.stage = "unsent"
  BY <1>2 DEF NoBookRequest, BookRequest
<1>4. CASE replies[k] = None
  <2>1. PICK y : y = [x EXCEPT !.stage = "admitted", !.reads = {<<"key", k>>}]
    OBVIOUS
  <2>2. PICK reads \in SUBSET BookItems : reads = {<<"key", k>>}
    <3>1. <<"key", k>> \in {"key"} \X IdemKeys
      OBVIOUS
    <3>2. QED BY <3>1 DEF BookItems
  <2>3. y \in BookRequest /\ y.stage = "admitted" /\ y.key = k /\ y.reads = reads
    BY <1>3, <2>1, <2>2 DEF BookRequest
  <2>4. BookOnly(q, y, {})
    BY <1>2, <1>4, <2>1 DEF Apply
  <2>5. BookKnows(y)
    BY <1>4, <2>2, <2>3 DEF BookKnows, BookIInv, Made
  <2>6. QED BY <1>1, <2>3, <2>4, <2>5, BookOnlyStep
<1>5. CASE replies[k] # None
  <2>1. PICK y : y = [x EXCEPT !.stage = "done", !.row = replies[k]]
    OBVIOUS
  <2>2. replies[k] \in BookingIds
    BY <1>5 DEF BookIInv, BookingsTypeOK
  <2>3. y \in BookRequest /\ y.stage = "done"
    BY <1>3, <2>1, <2>2 DEF BookRequest
  <2>4. BookOnly(q, y, {})
    BY <1>2, <1>5, <2>1 DEF Apply
  <2>5. BookKnows(y)
    BY <2>3 DEF BookKnows
  <2>6. QED BY <1>1, <2>3, <2>4, <2>5, BookOnlyStep
<1>6. QED BY <1>4, <1>5

LEMMA CheckPendingStep ==
  ASSUME BookIInv, NEW q \in Requests, CheckPending(q)
  PROVE  BookIInv'
<1>1. PICK x \in BookRequest : x = bookReq[q] /\ x.stage = "admitted" /\ BookKnows(x)
  BY DEF CheckPending, BookStage, BookIInv, BookingsTypeOK
<1>2. CASE \E b \in BookingIds : bookings[b] = "PENDING"
  <2>1. PICK y : y = Over(x, "refused")
    OBVIOUS
  <2>2. y \in BookRequest /\ BookKnows(y)
    BY <2>1, OverBook
  <2>3. BookOnly(q, y, {})
    BY <1>1, <1>2, <2>1 DEF CheckPending
  <2>4. QED BY <1>1, <2>2, <2>3, BookOnlyStep
<1>3. CASE ~\E b \in BookingIds : bookings[b] = "PENDING"
  <2>1. PICK y : y = [x EXCEPT !.stage = "checked", !.reads = @ \cup {BooksPending}]
    OBVIOUS
  <2>2. PICK reads \in SUBSET BookItems : reads = x.reads \cup {BooksPending}
    <3>1. BooksPending \in BookItems
      BY DEF BookItems, BooksPending
    <3>2. QED BY <3>1 DEF BookRequest
  <2>3. /\ y \in BookRequest /\ y.stage = "checked" /\ y.key = x.key
        /\ y.raced = x.raced /\ y.reads = reads
    BY <2>1, <2>2 DEF BookRequest
  <2>4. BookOnly(q, y, {})
    BY <1>1, <1>3, <2>1 DEF CheckPending
  <2>5. BookKnows(y)
    BY <1>1, <1>3, <2>2, <2>3 DEF BookKnows
  <2>6. QED BY <1>1, <2>3, <2>4, <2>5, BookOnlyStep
<1>4. QED BY <1>2, <1>3

LEMMA AnswerStep ==
  ASSUME BookIInv, NEW q \in Requests, Answer(q)
  PROVE  BookIInv'
<1>1. PICK x \in BookRequest : x = bookReq[q] /\ x.stage = "inserted" /\ BookKnows(x)
  BY DEF Answer, BookStage, BookIInv, BookingsTypeOK
<1>2. PICK y : y = Over(x, "done")
  OBVIOUS
<1>3. /\ y \in BookRequest /\ y.stage = "done" /\ y.key = x.key /\ y.raced = x.raced
      /\ y.reads = {} /\ BookKnows(y)
  BY <1>2, OverBook
<1>4. /\ BookGoesOn(q, y, {<<"key", x.key>>}) /\ replies' = [replies EXCEPT ![x.key] = x.row]
      /\ UNCHANGED <<bookings, madeBy, reopened, forgotten>>
  BY <1>1, <1>2 DEF Answer
<1>5. x.key \in IdemKeys /\ x.row \in BookingIds
  BY <1>1 DEF BookKnows
<1>6. /\ bookings \in [BookingIds -> BookingStatus \cup {None}]
      /\ replies \in [IdemKeys -> BookingIds \cup {None}] /\ reopened \subseteq BookingIds
  BY DEF BookIInv, BookingsTypeOK
<1>7. x.row # None
  BY <1>5, NoBookingAssumption DEF NoBookingAssumption
<1>8. /\ replies' \in [IdemKeys -> BookingIds \cup {None}] /\ replies'[x.key] # None
      /\ \A k \in IdemKeys : replies[k] # None => replies'[k] # None
  BY <1>4, <1>5, <1>6, <1>7
<1>9. QED BY <1>1, <1>3, <1>4, <1>6, <1>8, BookStep

LEMMA FindBookingStep ==
  ASSUME BookIInv, NEW q \in Requests, NEW b \in BookingIds,
         NEW s \in BookingStatus \cup {None}, FindBooking(q, b, s)
  PROVE  BookIInv'
<1>1. PICK y : y = [NoBookRequest EXCEPT !.stage = "found", !.row = b, !.status = s,
                                         !.reads = {<<"row", b>>}]
  OBVIOUS
<1>2. PICK reads \in SUBSET BookItems : reads = {<<"row", b>>}
  <2>1. <<"row", b>> \in {"row"} \X BookingIds
    OBVIOUS
  <2>2. QED BY <2>1 DEF BookItems
<1>3. y \in BookRequest /\ y.stage = "found" /\ y.row = b
  BY <1>1, <1>2 DEF NoBookRequest, BookRequest
<1>4. BookOnly(q, y, {}) /\ bookReq[q].stage = "unsent" /\ bookings[b] # None
  BY <1>1 DEF FindBooking, BookStage
<1>5. BookKnows(y)
  BY <1>3, <1>4 DEF BookKnows, BookIInv, Made
<1>6. QED BY <1>3, <1>4, <1>5, BookOnlyStep

LEMMA FailBookingStep ==
  ASSUME BookIInv, NEW q \in Requests, FailBooking(q)
  PROVE  BookIInv'
<1>1. PICK x \in BookRequest : x = bookReq[q]
  BY DEF BookIInv, BookingsTypeOK
<1>2. PICK y : y = Over(x, "failed")
  OBVIOUS
<1>3. /\ y \in BookRequest /\ y.stage = "failed" /\ y.key = x.key /\ y.raced = x.raced
      /\ BookKnows(y)
  BY <1>2, OverBook
<1>4. BookOnly(q, y, {}) /\ x.stage \notin {"done", "failed"}
  BY <1>1, <1>2 DEF FailBooking
<1>5. QED BY <1>1, <1>3, <1>4, BookOnlyStep

(* A row given another status, or deleted.                                 *)
LEMMA WriteBookingStep ==
  ASSUME BookIInv, NEW q \in Requests, NEW status \in BookingStatus \cup {None},
         BookStage(q, "found"), NEW b \in BookingIds, b = bookReq[q].row,
         bookings' = [bookings EXCEPT ![b] = status],
         reopened' = IF status = "PENDING" /\ bookings[b] # "PENDING"
                     THEN reopened \cup {b} ELSE reopened,
         BookGoesOn(q, Over(bookReq[q], "done"), Touches(b, status)),
         UNCHANGED <<madeBy, replies, forgotten>>
  PROVE  BookIInv'
<1>1. PICK x \in BookRequest : x = bookReq[q] /\ BookKnows(x) /\ x.stage = "found"
  BY DEF BookStage, BookIInv, BookingsTypeOK
<1>2. PICK y : y = Over(x, "done")
  OBVIOUS
<1>3. y \in BookRequest /\ y.reads = {} /\ BookKnows(y)
  BY <1>2, OverBook
<1>4. PICK items : items = Touches(b, status)
  OBVIOUS
<1>5. /\ BookGoesOn(q, y, items) /\ madeBy[b] # None /\ y.reads \cap items = {}
      /\ bookReq[q].stage = "found"
      /\ madeBy' = madeBy /\ forgotten' = forgotten /\ replies' = replies
  BY <1>1, <1>2, <1>3, <1>4 DEF BookKnows
<1>6. /\ bookings \in [BookingIds -> BookingStatus \cup {None}]
      /\ replies \in [IdemKeys -> BookingIds \cup {None}] /\ reopened \subseteq BookingIds
  BY DEF BookIInv, BookingsTypeOK
<1>7. /\ bookings' \in [BookingIds -> BookingStatus \cup {None}]
      /\ reopened \subseteq reopened' /\ reopened' \subseteq BookingIds
  BY <1>6
<1>8. ASSUME NEW c \in BookingIds, bookings'[c] # bookings[c]
      PROVE  /\ madeBy[c] # None
             /\ bookings'[c] = "PENDING" => c \in reopened' /\ BooksPending \in items
  <2>1. c = b /\ bookings'[c] = status
    BY <1>6, <1>8
  <2>2. status = "PENDING" => b \in reopened' /\ BooksPending \in items
    BY <1>4, <1>8, <2>1 DEF Touches
  <2>3. QED BY <1>5, <2>1, <2>2
<1>9. QED BY <1>3, <1>5, <1>6, <1>7, <1>8, BookStep

LEMMA InsertBookingStep ==
  ASSUME BookIInv, NEW q \in Requests, NEW b \in BookingIds, InsertBooking(q, b)
  PROVE  BookIInv'
<1>1. PICK x \in BookRequest : x = bookReq[q] /\ x.stage = "checked" /\ BookKnows(x)
  BY DEF InsertBooking, BookStage, BookIInv, BookingsTypeOK
<1>2. PICK y : y = [x EXCEPT !.stage = "inserted", !.row = b]
  OBVIOUS
<1>3. /\ y \in BookRequest /\ y.stage = "inserted" /\ y.row = b /\ y.key = x.key
      /\ y.raced = x.raced /\ y.reads = x.reads
  BY <1>2 DEF BookRequest
<1>4. PICK items : items = {BooksPending, <<"key", x.key>>}
  OBVIOUS
<1>5. /\ madeBy[b] = None /\ bookings' = [bookings EXCEPT ![b] = "PENDING"]
      /\ madeBy' = [madeBy EXCEPT ![b] = q] /\ BookGoesOn(q, y, items)
      /\ replies' = replies /\ reopened' = reopened /\ forgotten' = forgotten
  BY <1>1, <1>2, <1>4 DEF InsertBooking
<1>6. /\ bookReq' = [p \in Requests |-> bookReq'[p]] /\ bookReq'[q] = y
      /\ \A p \in Requests \ {q} : Beside(bookReq[p], bookReq'[p], items)
  <2>1. bookReq' = [p \in Requests |-> bookReq'[p]]
    BY <1>5 DEF BookGoesOn, GoesOn
  <2>2. QED BY <1>5, <2>1, StepBeside DEF BookGoesOn
<1>7. /\ bookReq \in [Requests -> BookRequest]
      /\ madeBy \in [BookingIds -> Requests \cup {None}]
      /\ bookings \in [BookingIds -> BookingStatus \cup {None}]
      /\ replies \in [IdemKeys -> BookingIds \cup {None}]
      /\ reopened \subseteq BookingIds /\ forgotten \subseteq IdemKeys
      /\ q # None
  BY NoBookingAssumption DEF NoBookingAssumption, BookIInv, BookingsTypeOK
<1>8. ASSUME NEW p \in Requests \ {q}
      PROVE  LET z == bookReq[p]
                 w == bookReq'[p]
             IN  /\ w \in BookRequest /\ w.stage = z.stage /\ w.key = z.key
                 /\ w.row = z.row /\ w.status = z.status /\ w.reads = z.reads
                 /\ z.raced => w.raced
                 /\ z.reads \cap items # {} => w.raced
  <2>1. bookReq[p] \in BookRequest /\ Beside(bookReq[p], bookReq'[p], items)
    BY <1>6, <1>7
  <2>2. QED BY <2>1, BesideBook
<1>9. BookingsTypeOK'
  <2>1. \A p \in Requests : bookReq'[p] \in BookRequest
    BY <1>3, <1>6, <1>8
  <2>2. bookReq' \in [Requests -> BookRequest]
    BY <1>6, <2>1
  <2>3. bookings' \in [BookingIds -> BookingStatus \cup {None}]
    BY <1>5, <1>7 DEF BookingStatus
  <2>4. QED BY <1>5, <1>7, <2>2, <2>3 DEF BookingsTypeOK
<1>10. ASSUME NEW c \in BookingIds, c # b
       PROVE  madeBy'[c] = madeBy[c] /\ bookings'[c] = bookings[c]
  BY <1>5, <1>7, <1>10
<1>11. madeBy'[b] = q /\ bookings'[b] = "PENDING" /\ bookReq'[madeBy'[b]] = y
  BY <1>5, <1>6, <1>7
<1>12. ASSUME NEW c \in BookingIds, madeBy[c] # None
       PROVE  /\ c # b /\ madeBy[c] \in Requests \ {q}
              /\ Maker(c).stage' = Maker(c).stage
              /\ Maker(c).key' = Maker(c).key
              /\ Maker(c).raced => Maker(c).raced'
              /\ <<"key", x.key>> \in Maker(c).reads => Maker(c).raced'
  <2>1. c # b /\ madeBy[c] \in Requests /\ Maker(c).stage \in {"inserted", "done", "failed"}
    BY <1>5, <1>7, <1>12 DEF BookIInv, Made
  <2>2. PICK m \in Requests \ {q} : m = madeBy[c] /\ m = madeBy'[c]
    BY <1>1, <1>10, <2>1 DEF Maker
  <2>3. QED BY <1>4, <1>8, <2>1, <2>2 DEF Maker
<1>13. ASSUME NEW p \in Requests PROVE BookKnows(bookReq[p])'
  <2>1. CASE p = q
    <3>1. x.key \in IdemKeys /\ <<"key", x.key>> \in x.reads
      BY <1>1 DEF BookKnows
    <3>2. BookKnows(y)'
      BY <1>3, <3>1 DEF BookKnows
    <3>3. QED BY <1>6, <2>1, <3>2
  <2>2. CASE p # q
    <3>1. PICK z, w : z = bookReq[p] /\ w = bookReq'[p]
      OBVIOUS
    <3>2. /\ z \in BookRequest /\ BookKnows(z)
          /\ w.stage = z.stage /\ w.key = z.key /\ w.row = z.row /\ w.reads = z.reads
          /\ z.raced => w.raced
          /\ z.reads \cap items # {} => w.raced
      BY <1>7, <1>8, <2>2, <3>1 DEF BookIInv
    <3>3. ASSUME z.stage \in {"admitted", "checked"}
          PROVE  /\ w.key \in IdemKeys /\ <<"key", w.key>> \in w.reads
                 /\ \/ w.raced
                    \/ \A c \in BookingIds :
                         madeBy'[c] # None /\ Maker(c).key' = w.key =>
                           \/ w.key \in forgotten'
                           \/ Maker(c).stage' \in {"inserted", "failed"}
      <4> SUFFICES ASSUME ~w.raced, NEW c \in BookingIds, madeBy'[c] # None,
                          Maker(c).key' = w.key, w.key \notin forgotten'
                   PROVE  Maker(c).stage' \in {"inserted", "failed"}
        BY <3>2, <3>3 DEF BookKnows
      <4>1. CASE c = b
        BY <1>3, <1>11, <4>1 DEF Maker
      <4>2. CASE c # b
        BY <1>5, <1>10, <1>12, <3>2, <3>3, <4>2 DEF BookKnows
      <4>3. QED BY <4>1, <4>2
    <3>4. ASSUME z.stage = "checked" PROVE BooksPending \in w.reads /\ w.raced
      BY <1>4, <3>2, <3>4 DEF BookKnows
    <3>5. ASSUME z.stage = "inserted"
          PROVE  w.key \in IdemKeys /\ w.row \in BookingIds /\ <<"key", w.key>> \in w.reads
      BY <3>2, <3>5 DEF BookKnows
    <3>6. ASSUME z.stage = "found" PROVE w.row \in BookingIds /\ madeBy'[w.row] # None
      BY <1>7, <1>10, <1>11, <3>2, <3>6 DEF BookKnows
    <3>7. BookKnows(w)'
      BY <3>2, <3>3, <3>4, <3>5, <3>6 DEF BookKnows, BooksPending
    <3>8. QED BY <3>1, <3>7
  <2>3. QED BY <2>1, <2>2
<1>14. ASSUME NEW c \in BookingIds PROVE Made(c)'
  <2>1. CASE c = b
    <3>1. Maker(c)' = y /\ madeBy'[c] # None
      BY <1>7, <1>11, <2>1 DEF Maker
    <3>2. y.key \in IdemKeys /\ y.stage = "inserted"
      BY <1>1, <1>3 DEF BookKnows
    <3>3. QED BY <3>1, <3>2 DEF Made
  <2>2. CASE c # b
    BY <1>5, <1>10, <1>12, <2>2 DEF BookIInv, Made
  <2>3. QED BY <2>1, <2>2
<1>15. ASSUME NEW c \in BookingIds, c # b, bookings'[c] = "PENDING" PROVE y.raced
  BY <1>1, <1>3, <1>10, <1>15 DEF BookKnows
<1>16. PendingOnce'
  <2> SUFFICES ASSUME NEW c \in BookingIds, NEW d \in BookingIds, c # d,
                      bookings'[c] = "PENDING", bookings'[d] = "PENDING",
                      c \notin reopened, d \notin reopened
               PROVE  Maker(c).raced' \/ Maker(d).raced'
    BY <1>5 DEF PendingOnce
  <2>1. CASE c = b \/ d = b
    BY <1>11, <1>15, <2>1 DEF Maker
  <2>2. CASE c # b /\ d # b
    <3>1. bookings[c] = "PENDING" /\ bookings[d] = "PENDING"
      BY <1>10, <2>2
    <3>2. madeBy[c] # None /\ madeBy[d] # None
      BY <3>1, NoBookingAssumption
      DEF BookIInv, Made, NoBookingAssumption, BookingStatus
    <3>3. Maker(c).raced \/ Maker(d).raced
      BY <3>1 DEF BookIInv, BookedOnce, PendingOnce
    <3>4. QED BY <1>12, <3>2, <3>3
  <2>3. QED BY <2>1, <2>2
<1>17. ASSUME NEW c \in BookingIds, c # b, madeBy'[c] # None, Maker(c).key' = x.key,
              x.key \notin forgotten
       PROVE  y.raced \/ Maker(c).raced' \/ Maker(c).stage' = "failed"
  <2>1. madeBy[c] # None /\ Maker(c).key = x.key /\ Maker(c).stage' = Maker(c).stage
    BY <1>10, <1>12, <1>17
  <2>2. x.raced \/ Maker(c).stage \in {"inserted", "failed"}
    BY <1>1, <1>17, <2>1 DEF BookKnows
  <2>3. ASSUME Maker(c).stage = "inserted" PROVE <<"key", x.key>> \in Maker(c).reads
    BY <1>12, <2>1, <2>3 DEF BookIInv, BookKnows, Maker
  <2>4. QED BY <1>3, <1>12, <2>1, <2>2, <2>3
<1>18. KeyBooksOnce'
  <2> SUFFICES ASSUME NEW c \in BookingIds, NEW d \in BookingIds, c # d,
                      madeBy'[c] # None, madeBy'[d] # None, Maker(c).key' = Maker(d).key',
                      Maker(c).key' \notin forgotten
               PROVE  \/ Maker(c).raced' \/ Maker(d).raced'
                      \/ "failed" \in {Maker(c).stage', Maker(d).stage'}
    BY <1>5 DEF KeyBooksOnce
  <2>1. Maker(b)' = y /\ y.key = x.key
    BY <1>3, <1>11 DEF Maker
  <2>2. CASE c = b
    BY <1>17, <2>1, <2>2
  <2>3. CASE d = b
    BY <1>17, <2>1, <2>3
  <2>4. CASE c # b /\ d # b
    <3>1. madeBy[c] # None /\ madeBy[d] # None
      BY <1>10, <2>4
    <3>2. Maker(c).key = Maker(d).key /\ Maker(c).key \notin forgotten
      BY <1>12, <3>1
    <3>3. \/ Maker(c).raced \/ Maker(d).raced
          \/ "failed" \in {Maker(c).stage, Maker(d).stage}
      BY <3>1, <3>2 DEF BookIInv, BookedOnce, KeyBooksOnce
    <3>4. QED BY <1>12, <3>1, <3>3
  <2>5. QED BY <2>2, <2>3, <2>4
<1>19. QED BY <1>9, <1>13, <1>14, <1>16, <1>18 DEF BookIInv, BookedOnce

LEMMA ForgetStep ==
  ASSUME BookIInv, NEW k \in IdemKeys, Forget(k)
  PROVE  BookIInv'
<1>1. /\ bookings' = bookings /\ madeBy' = madeBy /\ bookReq' = bookReq
      /\ reopened' = reopened /\ forgotten' = forgotten \cup {k}
      /\ replies' = [replies EXCEPT ![k] = None]
  BY DEF Forget
<1>2. BookingsTypeOK'
  BY <1>1 DEF BookIInv, BookingsTypeOK
<1>3. ASSUME NEW q \in Requests PROVE BookKnows(bookReq[q])'
  BY <1>1 DEF BookIInv, BookKnows, Maker
<1>4. ASSUME NEW b \in BookingIds PROVE Made(b)'
  BY <1>1 DEF BookIInv, BookingsTypeOK, Made, Maker
<1>5. BookedOnce'
  BY <1>1 DEF BookIInv, BookedOnce, PendingOnce, KeyBooksOnce, Maker
<1>6. QED BY <1>2, <1>3, <1>4, <1>5 DEF BookIInv

LEMMA BookNextIInv == BookIInv /\ [BookingsNext]_bookVars => BookIInv'
<1> SUFFICES ASSUME BookIInv, [BookingsNext]_bookVars PROVE BookIInv'
  OBVIOUS
<1>1. CASE UNCHANGED bookVars
  BY <1>1 DEF bookVars, BookIInv, BookingsTypeOK, BookKnows, Made, Maker, BookedOnce,
              PendingOnce, KeyBooksOnce
<1>2. CASE \E k \in IdemKeys : Forget(k)
  BY <1>2, ForgetStep
<1>3. ASSUME NEW q \in Requests, \E k \in IdemKeys : Apply(q, k) PROVE BookIInv'
  BY <1>3, ApplyStep
<1>4. ASSUME NEW q \in Requests, CheckPending(q) PROVE BookIInv'
  BY <1>4, CheckPendingStep
<1>5. ASSUME NEW q \in Requests, Answer(q) PROVE BookIInv'
  BY <1>5, AnswerStep
<1>6. ASSUME NEW q \in Requests, SaveBooking(q) PROVE BookIInv'
  <2>1. PICK x \in BookRequest : x = bookReq[q] /\ x.stage = "found" /\ BookKnows(x)
    BY <1>6 DEF SaveBooking, BookStage, BookIInv, BookingsTypeOK
  <2>2. PICK b \in BookingIds, status \in BookingStatus \cup {None} :
          b = bookReq[q].row /\ status = bookReq[q].status
    BY <2>1 DEF BookKnows, BookRequest
  <2>3. QED BY <1>6, <2>2, WriteBookingStep DEF SaveBooking
<1>7. ASSUME NEW q \in Requests, DeleteBooking(q) PROVE BookIInv'
  <2>1. PICK x \in BookRequest : x = bookReq[q] /\ x.stage = "found" /\ BookKnows(x)
    BY <1>7 DEF DeleteBooking, BookStage, BookIInv, BookingsTypeOK
  <2>2. PICK b \in BookingIds : b = bookReq[q].row
    BY <2>1 DEF BookKnows
  <2>3. None # "PENDING"
    BY NoBookingAssumption DEF NoBookingAssumption, BookingStatus
  <2>4. QED BY <1>7, <2>2, <2>3, WriteBookingStep DEF DeleteBooking
<1>8. ASSUME NEW q \in Requests, FailBooking(q) PROVE BookIInv'
  BY <1>8, FailBookingStep
<1>9. ASSUME NEW q \in Requests, NEW b \in BookingIds, InsertBooking(q, b) PROVE BookIInv'
  BY <1>9, InsertBookingStep
<1>10. ASSUME NEW q \in Requests, NEW b \in BookingIds,
              \E s \in BookingStatus \cup {None} : FindBooking(q, b, s)
       PROVE  BookIInv'
  BY <1>10, FindBookingStep
<1>11. QED
  BY <1>1, <1>2, <1>3, <1>4, <1>5, <1>6, <1>7, <1>8, <1>9, <1>10 DEF BookingsNext

(* An application is made once: no two pending rows for a user and a       *)
(* hostel, and one row for an Idempotency-Key, but where one request was   *)
(* handled while the other was (the rows are looked for and inserted in    *)
(* two statements), an owner set a row to PENDING again, the answer was    *)
(* dropped from memory or never given.                                     *)
THEOREM AppliedOnce == BookingsSpec => []BookedOnce
<1>1. BookIInv => BookedOnce
  BY DEF BookIInv
<1>2. QED
  BY <1>1, BookInitIInv, BookNextIInv, PTL DEF BookingsSpec

-----------------------------------------------------------------------------
(* Subscriptions.  A request that has made the running plans give way      *)
(* knows that none of its scope runs, and one that reviews a row knows it  *)
(* is pending, until another writes.                                       *)
USE NoSubAssumption DEF NoSubAssumption

(* Field by field, a request another has written beside.                   *)
LEMMA RacedSubRequest ==
  ASSUME NEW x \in SubRequest, NEW y, y = [x EXCEPT !.raced = TRUE]
  PROVE  /\ y \in SubRequest /\ y.stage = x.stage /\ y.op = x.op
         /\ y.scope = x.scope /\ y.row = x.row /\ y.reads = x.reads /\ y.raced = TRUE
BY DEF SubRequest

(* How the others stand after a step of q.                                 *)
BesideSub(x, y, items) ==
  /\ y \in SubRequest /\ y.stage = x.stage /\ y.op = x.op
  /\ y.scope = x.scope /\ y.row = x.row /\ y.reads = x.reads
  /\ y.raced = x.raced \/ y.raced = TRUE
  /\ x.reads \cap items # {} => y.raced = TRUE

LEMMA StepBesideSub ==
  ASSUME subReq \in [Requests -> SubRequest], NEW q \in Requests, NEW r, NEW items,
         subReq' = GoesOn(subReq, q, r, items)
  PROVE  /\ subReq'[q] = r
         /\ \A p \in Requests \ {q} : BesideSub(subReq[p], subReq'[p], items)
         /\ r \in SubRequest => subReq' \in [Requests -> SubRequest]
<1>1. subReq'[q] = r
  BY DEF GoesOn
<1>2. ASSUME NEW p \in Requests \ {q}
      PROVE  BesideSub(subReq[p], subReq'[p], items)
  <2>1. PICK x \in SubRequest : x = subReq[p]
    OBVIOUS
  <2>2. PICK y : y = subReq'[p]
    OBVIOUS
  <2>3. CASE x.reads \cap items # {}
    <3>1. y = [x EXCEPT !.raced = TRUE]
      BY <2>1, <2>2, <2>3 DEF GoesOn
    <3>2. /\ y \in SubRequest /\ y.stage = x.stage /\ y.op = x.op
          /\ y.scope = x.scope /\ y.row = x.row /\ y.reads = x.reads
          /\ y.raced = TRUE
      BY <2>1, <3>1, RacedSubRequest
    <3>3. QED BY <2>1, <2>2, <3>2, Zenon DEF BesideSub
  <2>4. CASE x.reads \cap items = {}
    <3>1. y = x
      BY <2>1, <2>2, <2>4 DEF GoesOn
    <3>2. QED BY <2>1, <2>2, <2>4, <3>1 DEF BesideSub
  <2>5. QED BY <2>3, <2>4
<1>3. ASSUME r \in SubRequest PROVE subReq' \in [Requests -> SubRequest]
  <2>1. subReq' = [p \in Requests |-> subReq'[p]]
    BY DEF GoesOn
  <2>2. \A p \in Requests : subReq'[p] \in SubRequest
    BY <1>1, <1>2, <1>3 DEF BesideSub
  <2>3. QED BY <2>1, <2>2
<1>4. QED BY <1>1, <1>2, <1>3

-----------------------------------------------------------------------------
(* The plans of a scope that run: those that give way to it.               *)
Quiet(h) == GivingWay(h) = {}

(* What a request rests on, unless it knows that it was overtaken.         *)
SubKnows(r) ==
  /\ r.stage = "unsent" => r.reads = {}
  /\ r.stage = "deactivated" =>
       /\ r.op \in {"free", "approve"} /\ SubsActive \in r.reads
       /\ r.raced \/ Quiet(r.scope)
  /\ r.stage = "found" \/ (r.stage = "deactivated" /\ r.op = "approve") =>
       /\ r.op \in {"approve", "reject"}
       /\ r.row \in SubIds /\ <<"row", r.row>> \in r.reads
       /\ r.raced \/ HasStatus(r.row, "PENDING")

(* Why the plans that q expired gave way.                                  *)
SubSettled(i) == i \in subRaced \/ HasStatus(i, "ACTIVE") \/ HasStatus(i, "EXPIRED")
Excused(r) ==
  \/ r.op = "cancel" /\ r.stage = "done"
  \/ r.stage \in {"deactivated", "failed"}
  \/ r.stage = "done" /\ r.row \in SubIds /\ SubSettled(r.row)

SubIInv ==
  /\ SubscriptionsTypeOK
  /\ \A q \in Requests : SubKnows(subReq[q])
  /\ \A i \in SubIds : expiredBy[i] # None => Excused(subReq[expiredBy[i]])
  /\ OneRunningPlan

LEMMA SubInitIInv == SubscriptionsInit => SubIInv
<1> SUFFICES ASSUME SubscriptionsInit PROVE SubIInv
  OBVIOUS
<1>1. PICK first \in FirstSubs : subs = first
  BY DEF SubscriptionsInit
<1>2. NoSubRequest \in SubRequest
  BY DEF NoSubRequest, SubRequest, SubStages
<1>3. SubscriptionsTypeOK
  BY <1>1, <1>2, FirstSubsAssumption
  DEF SubscriptionsInit, SubscriptionsTypeOK, FirstSubsAssumption
<1>4. \A q \in Requests : SubKnows(subReq[q])
  <2> SUFFICES ASSUME NEW q \in Requests PROVE SubKnows(subReq[q])
    OBVIOUS
  <2>1. subReq[q] = NoSubRequest
    BY DEF SubscriptionsInit
  <2>2. /\ NoSubRequest.stage = "unsent" /\ NoSubRequest.reads = {}
    BY DEF NoSubRequest
  <2>3. QED BY <2>1, <2>2 DEF SubKnows
<1>5. \A i \in SubIds : expiredBy[i] = None
  BY DEF SubscriptionsInit
<1>6. OneRunningPlan
  BY <1>1, FirstSubsAssumption DEF OneRunningPlan, FirstSubsAssumption, HasStatus, Overlap
<1>7. QED BY <1>3, <1>4, <1>5, <1>6 DEF SubIInv

-----------------------------------------------------------------------------
(* A step of q: what it writes is told to those who rest on it.            *)
SubTold(items) ==
  \A i \in SubIds : subs'[i] # subs[i] =>
    /\ <<"row", i>> \in items
    /\ HasStatus(i, "ACTIVE")' => SubsActive \in items
    /\ SubSettled(i) => SubSettled(i)'

LEMMA OtherSubKnows ==
  ASSUME SubIInv, NEW items, SubTold(items), NEW x \in SubRequest, SubKnows(x),
         NEW y, BesideSub(x, y, items)
  PROVE  SubKnows(y)'
<1>1. /\ y.stage = x.stage /\ y.op = x.op /\ y.scope = x.scope /\ y.row = x.row
      /\ y.reads = x.reads /\ (x.raced => y.raced)
      /\ \A item \in x.reads : item \in items => y.raced
  BY Zenon DEF BesideSub
<1>2. x.stage = "deactivated" => y.raced \/ Quiet(y.scope)'
  <2> SUFFICES ASSUME x.stage = "deactivated", ~y.raced PROVE Quiet(y.scope)'
    OBVIOUS
  <2>1. SubsActive \notin items /\ Quiet(x.scope)
    BY <1>1 DEF SubKnows
  <2>2. ASSUME NEW i \in SubIds, HasStatus(i, "ACTIVE")' PROVE subs'[i] = subs[i]
    BY <2>1, <2>2 DEF SubTold
  <2>3. QED BY <1>1, <2>1, <2>2 DEF Quiet, GivingWay, HasStatus
<1>3. x.stage = "found" \/ (x.stage = "deactivated" /\ x.op = "approve") =>
        y.raced \/ HasStatus(y.row, "PENDING")'
  <2> SUFFICES ASSUME x.stage = "found" \/ (x.stage = "deactivated" /\ x.op = "approve"),
                      ~y.raced
               PROVE  HasStatus(y.row, "PENDING")'
    OBVIOUS
  <2>1. /\ x.row \in SubIds /\ <<"row", x.row>> \notin items
        /\ HasStatus(x.row, "PENDING")
    BY <1>1 DEF SubKnows
  <2>2. QED BY <1>1, <2>1 DEF SubTold, HasStatus
<1>4. QED BY <1>1, <1>2, <1>3, Zenon DEF SubKnows

LEMMA SubStepIInv ==
  ASSUME SubIInv, NEW q \in Requests, NEW r \in SubRequest, NEW items,
         subReq' = GoesOn(subReq, q, r, items), SubTold(items), SubKnows(r)',
         subs' \in [SubIds -> SubRow \cup {None}],
         subRaced \subseteq subRaced', subRaced' \subseteq SubIds,
         expiredBy' \in [SubIds -> Requests \cup {None}],
         \A i \in SubIds : expiredBy'[i] \in {expiredBy[i], q},
         (\E i \in SubIds : expiredBy'[i] = q) => Excused(r)',
         OneRunningPlan'
  PROVE  SubIInv'
<1>1. /\ subReq' \in [Requests -> SubRequest] /\ subReq'[q] = r
      /\ \A p \in Requests \ {q} : BesideSub(subReq[p], subReq'[p], items)
  BY StepBesideSub DEF SubIInv, SubscriptionsTypeOK
<1>2. ASSUME NEW p \in Requests PROVE SubKnows(subReq[p])'
  <2>1. CASE p = q
    <3>1. PICK y : y = subReq'[p] /\ SubKnows(y)'
      BY <1>1, <2>1
    <3>2. QED BY <3>1 DEF SubKnows, Quiet, HasStatus
  <2>2. CASE p # q
    <3>1. PICK x \in SubRequest : x = subReq[p] /\ SubKnows(x)
      BY DEF SubIInv, SubscriptionsTypeOK
    <3>2. PICK y : y = subReq'[p] /\ BesideSub(x, y, items)
      BY <1>1, <2>2, <3>1
    <3>3. SubKnows(y)'
      BY <3>1, <3>2, OtherSubKnows
    <3>4. QED BY <3>2, <3>3 DEF SubKnows, Quiet, HasStatus
  <2>3. QED BY <2>1, <2>2
<1>3. ASSUME NEW i \in SubIds, expiredBy'[i] # None
      PROVE  Excused(subReq[expiredBy[i]])'
  <2>1. CASE expiredBy'[i] = q
    <3>1. Excused(r)'
      BY <2>1
    <3>2. QED BY <1>1, <2>1, <3>1 DEF Excused
  <2>2. CASE expiredBy'[i] # q
    <3>1. PICK p \in Requests \ {q} : p = expiredBy'[i] /\ p = expiredBy[i]
      BY <1>3, <2>2
    <3>2. PICK x : x = subReq[p] /\ Excused(x)
      BY <3>1 DEF SubIInv
    <3>3. PICK y : y = subReq'[p] /\ y.stage = x.stage /\ y.op = x.op /\ y.row = x.row
      BY <1>1, <3>1, <3>2 DEF BesideSub
    <3>4. \A j \in SubIds : SubSettled(j) => SubSettled(j)'
      BY DEF SubTold, SubSettled, HasStatus
    <3>5. Excused(y)'
      BY <3>2, <3>3, <3>4 DEF Excused
    <3>6. QED BY <3>1, <3>3, <3>5 DEF Excused
  <2>3. QED BY <2>1, <2>2
<1>4. QED BY <1>1, <1>2, <1>3 DEF SubIInv, SubscriptionsTypeOK

(* No plan starts to run, or moves to another hostel.                      *)
LEMMA NoneStarts ==
  ASSUME SubIInv, subRaced \subseteq subRaced',
         \A i \in SubIds : HasStatus(i, "ACTIVE")' =>
           HasStatus(i, "ACTIVE") /\ subs'[i].hostel = subs[i].hostel
  PROVE  OneRunningPlan'
BY DEF SubIInv, OneRunningPlan, Overlap

LEMMA DeactivateFacts ==
  ASSUME SubIInv, NEW q \in Requests, NEW h \in SubHostels \cup {None}, Deactivate(q, h)
  PROVE  /\ subs' \in [SubIds -> SubRow \cup {None}]
         /\ expiredBy' \in [SubIds -> Requests \cup {None}]
         /\ \A i \in SubIds : expiredBy'[i] \in {expiredBy[i], q}
         /\ \A i \in SubIds : subs'[i] # subs[i] =>
              /\ i \in GivingWay(h)
              /\ HasStatus(i, "EXPIRED")' /\ ~HasStatus(i, "ACTIVE")'
         /\ \A i \in SubIds : HasStatus(i, "ACTIVE")' =>
              HasStatus(i, "ACTIVE") /\ subs'[i] = subs[i]
         /\ Quiet(h)'
<1>1. subs \in [SubIds -> SubRow \cup {None}] /\ expiredBy \in [SubIds -> Requests \cup {None}]
  BY DEF SubIInv, SubscriptionsTypeOK
<1>2. ASSUME NEW i \in SubIds, i \in GivingWay(h)
      PROVE  /\ subs'[i] \in SubRow /\ subs'[i].status = "EXPIRED"
             /\ subs'[i].hostel = subs[i].hostel
  <2>1. subs[i] \in SubRow /\ subs'[i] = [subs[i] EXCEPT !.status = "EXPIRED"]
    BY <1>1, <1>2 DEF Deactivate, GivingWay, HasStatus
  <2>2. QED BY <2>1 DEF SubRow
<1>3. \A i \in SubIds : i \notin GivingWay(h) => subs'[i] = subs[i]
  BY DEF Deactivate
<1>4. subs' \in [SubIds -> SubRow \cup {None}]
  BY <1>1, <1>2, <1>3 DEF Deactivate
<1>5. ASSUME NEW i \in SubIds, i \in GivingWay(h)
      PROVE  HasStatus(i, "EXPIRED")' /\ ~HasStatus(i, "ACTIVE")'
  BY <1>2, <1>5 DEF HasStatus
<1>6. Quiet(h)'
  <2> SUFFICES ASSUME NEW i \in SubIds, i \in GivingWay(h)' PROVE FALSE
    BY DEF Quiet, GivingWay
  <2>1. HasStatus(i, "ACTIVE")' /\ i \notin GivingWay(h)
    BY <1>5 DEF GivingWay
  <2>2. QED BY <1>3, <2>1 DEF GivingWay, HasStatus
<1>7. /\ expiredBy' \in [SubIds -> Requests \cup {None}]
      /\ \A i \in SubIds : expiredBy'[i] \in {expiredBy[i], q}
  BY <1>1 DEF Deactivate
<1>8. \A i \in SubIds : HasStatus(i, "ACTIVE")' => HasStatus(i, "ACTIVE") /\ subs'[i] = subs[i]
  BY <1>3, <1>5 DEF HasStatus
<1>9. QED BY <1>3, <1>4, <1>5, <1>6, <1>7, <1>8

-----------------------------------------------------------------------------
(* A save of row i, by a request that knows what it needs, or is marked.   *)
LEMMA SaveSubStep ==
  ASSUME SubIInv, NEW q \in Requests, NEW i \in SubIds, NEW row \in SubRow,
         SaveSub(q, i, row), NEW x, x = subReq[q],
         \/ x.raced \/ row.status = "ACTIVE"
         \/ ~HasStatus(i, "ACTIVE") /\ ~HasStatus(i, "EXPIRED"),
         row.status = "ACTIVE" => row.hostel = x.scope /\ (x.raced \/ Quiet(x.scope)),
         row.status = "ACTIVE" \/ ~Excused(x)
  PROVE  SubIInv'
<1>1. x \in SubRequest
  BY DEF SubIInv, SubscriptionsTypeOK
<1>2. PICK y : y = Over(x, "done")
  OBVIOUS
<1>3. y \in SubRequest /\ y.stage = "done" /\ y.op = x.op /\ y.scope = x.scope
  BY <1>1, <1>2 DEF Over, SubRequest, SubStages
<1>4. PICK r : r = [y EXCEPT !.row = i]
  OBVIOUS
<1>5. r \in SubRequest /\ r.stage = "done" /\ r.row = i
  BY <1>3, <1>4 DEF SubRequest
<1>6. PICK items : items = {<<"row", i>>, <<"status", row.status>>}
  OBVIOUS
<1>7. subReq' = GoesOn(subReq, q, r, items)
  BY <1>2, <1>4, <1>6 DEF SaveSub
<1>8. /\ subs' \in [SubIds -> SubRow \cup {None}] /\ subs'[i] = row /\ row # None
      /\ \A j \in SubIds \ {i} : subs'[j] = subs[j]
  BY DEF SaveSub, SubIInv, SubscriptionsTypeOK
<1>9. /\ subRaced \subseteq subRaced' /\ subRaced' \subseteq SubIds
      /\ x.raced => i \in subRaced'
  BY DEF SaveSub, SubIInv, SubscriptionsTypeOK
<1>10. SubTold(items)
  <2>1. HasStatus(i, "ACTIVE")' => SubsActive \in items
    BY <1>6, <1>8 DEF HasStatus, SubsActive
  <2>2. SubSettled(i) => SubSettled(i)'
    BY <1>8, <1>9 DEF SubSettled, HasStatus
  <2>3. QED BY <1>6, <1>8, <2>1, <2>2 DEF SubTold
<1>11. SubKnows(r)'
  BY <1>5 DEF SubKnows
<1>12. ASSUME NEW j \in SubIds, expiredBy'[j] = q PROVE Excused(r)'
  <2>1. Excused(x)
    BY <1>12 DEF SaveSub, SubIInv
  <2>2. SubSettled(i)'
    BY <1>8, <2>1 DEF SubSettled, HasStatus
  <2>3. QED BY <1>5, <2>2 DEF Excused
<1>13. OneRunningPlan'
  <2>1. CASE row.status # "ACTIVE"
    BY <1>8, <1>9, <2>1, NoneStarts DEF HasStatus
  <2>2. CASE row.status = "ACTIVE"
    <3>1. ASSUME NEW j \in SubIds \ {i}, HasStatus(j, "ACTIVE"),
                 \/ subs[j].hostel = row.hostel \/ None \in {subs[j].hostel, row.hostel}
          PROVE  i \in subRaced'
      BY <1>9, <2>2, <3>1 DEF Quiet, GivingWay
    <3>2. QED BY <1>8, <1>9, <3>1 DEF SubIInv, OneRunningPlan, Overlap, HasStatus
  <2>3. QED BY <2>1, <2>2
<1>14. expiredBy' = expiredBy /\ expiredBy \in [SubIds -> Requests \cup {None}]
  BY DEF SaveSub, SubIInv, SubscriptionsTypeOK
<1>15. QED BY <1>5, <1>7, <1>8, <1>9, <1>10, <1>11, <1>12, <1>13, <1>14, SubStepIInv

LEMMA SubSaveSteps ==
  ASSUME SubIInv, NEW q \in Requests, NEW i \in SubIds,
         SaveFree(q, i) \/ SaveRequest(q, i) \/ Activate(q) \/ Reject(q)
  PROVE  SubIInv'
<1>1. PICK x \in SubRequest : x = subReq[q] /\ SubKnows(x)
  BY DEF SubIInv, SubscriptionsTypeOK
<1>2. x.scope \in SubHostels \cup {None}
  BY DEF SubRequest
<1>3. \A plan \in {"FREE", "PAID"}, status \in {"PENDING", "ACTIVE", "REJECTED"} :
        [hostel |-> x.scope, plan |-> plan, status |-> status] \in SubRow
  BY <1>2 DEF SubRow
<1>4. CASE SaveFree(q, i)
  <2>1. PICK row \in SubRow :
          row = [hostel |-> x.scope, plan |-> "FREE", status |-> "ACTIVE"]
    BY <1>3
  <2>2. SaveSub(q, i, row) /\ (x.raced \/ Quiet(x.scope))
    BY <1>1, <1>4, <2>1 DEF SaveFree, SubKnows
  <2>3. row.status = "ACTIVE" /\ row.hostel = x.scope
    BY <2>1
  <2> HIDE <2>1
  <2>4. QED BY <1>1, <2>2, <2>3, SaveSubStep
<1>5. CASE SaveRequest(q, i)
  <2>1. PICK row \in SubRow :
          row = [hostel |-> x.scope, plan |-> "PAID", status |-> "PENDING"]
    BY <1>3
  <2>2. SaveSub(q, i, row) /\ ~HasStatus(i, "ACTIVE") /\ ~HasStatus(i, "EXPIRED")
    BY <1>1, <1>5, <2>1 DEF SaveRequest, Free, HasStatus
  <2>3. row.status # "ACTIVE"
    BY <2>1
  <2>4. ~Excused(x)
    BY <1>1, <1>5 DEF SaveRequest, Excused
  <2> HIDE <2>1
  <2>5. QED BY <1>1, <2>2, <2>3, <2>4, SaveSubStep
<1>6. CASE Activate(q)
  <2>1. PICK row \in SubRow :
          row = [hostel |-> x.scope, plan |-> "PAID", status |-> "ACTIVE"]
    BY <1>3
  <2>2. SaveSub(q, x.row, row) /\ x.row \in SubIds /\ (x.raced \/ Quiet(x.scope))
    BY <1>1, <1>6, <2>1 DEF Activate, SubKnows
  <2>3. row.status = "ACTIVE" /\ row.hostel = x.scope
    BY <2>1
  <2> HIDE <2>1
  <2>4. QED BY <1>1, <2>2, <2>3, SaveSubStep
<1>7. CASE Reject(q)
  <2>1. PICK row \in SubRow :
          row = [hostel |-> x.scope, plan |-> "PAID", status |-> "REJECTED"]
    BY <1>3
  <2>2. /\ SaveSub(q, x.row, row) /\ x.row \in SubIds
        /\ x.raced \/ HasStatus(x.row, "PENDING")
    <3>1. x.stage = "found" /\ x.op = "reject" /\ SaveSub(q, x.row, row)
      BY <1>1, <1>7, <2>1 DEF Reject
    <3>2. x.row \in SubIds /\ (x.raced \/ HasStatus(x.row, "PENDING"))
      BY <1>1, <3>1, Zenon DEF SubKnows
    <3>3. QED BY <3>1, <3>2
  <2>3. row.status # "ACTIVE"
    BY <2>1
  <2>4. ~Excused(x)
    BY <1>1, <1>7 DEF Reject, Excused
  <2>5. x.raced \/ (~HasStatus(x.row, "ACTIVE") /\ ~HasStatus(x.row, "EXPIRED"))
    BY <2>2 DEF HasStatus
  <2> HIDE <2>1
  <2>6. QED BY <1>1, <2>2, <2>3, <2>4, <2>5, SaveSubStep
<1>8. QED BY <1>4, <1>5, <1>6, <1>7

-----------------------------------------------------------------------------
(* Steps that write no row.                                                *)
LEMMA SubReadStep ==
  ASSUME SubIInv, NEW q \in Requests, NEW r \in SubRequest, SubGoesOn(q, r, {}),
         UNCHANGED <<subs, expiredBy>>, SubKnows(r), Excused(subReq[q]) => Excused(r)
  PROVE  SubIInv'
<1>1. SubTold({})
  BY DEF SubTold
<1>2. SubKnows(r)'
  BY DEF SubKnows, Quiet, GivingWay, HasStatus
<1>3. Excused(r) => Excused(r)'
  BY DEF SubGoesOn, Excused, SubSettled, HasStatus
<1>4. (\E i \in SubIds : expiredBy'[i] = q) => Excused(r)'
  BY <1>3 DEF SubIInv
<1>5. OneRunningPlan'
  BY NoneStarts DEF SubGoesOn, HasStatus
<1>6. QED
  BY <1>1, <1>2, <1>4, <1>5, SubStepIInv DEF SubGoesOn, SubIInv, SubscriptionsTypeOK

(* Steps that make the running plans of a scope give way.                  *)
LEMMA DeactivateStep ==
  ASSUME SubIInv, NEW q \in Requests, NEW h \in SubHostels \cup {None}, Deactivate(q, h),
         NEW r \in SubRequest, SubGoesOn(q, r, {"row"} \X GivingWay(h)),
         SubKnows(r)', Excused(r)'
  PROVE  SubIInv'
<1>1. SubTold({"row"} \X GivingWay(h))
  <2> SUFFICES ASSUME NEW i \in SubIds, subs'[i] # subs[i]
               PROVE  /\ <<"row", i>> \in {"row"} \X GivingWay(h)
                      /\ HasStatus(i, "ACTIVE")' => FALSE
                      /\ SubSettled(i)'
    BY DEF SubTold
  <2>1. QED BY DeactivateFacts DEF SubSettled
<1>2. OneRunningPlan'
  BY DeactivateFacts, NoneStarts DEF SubGoesOn
<1>3. QED BY <1>1, <1>2, DeactivateFacts, SubStepIInv DEF SubGoesOn, SubIInv, SubscriptionsTypeOK

LEMMA NotExcused == ASSUME NEW x, x.stage \in {"unsent", "checked", "found"}
                    PROVE  ~Excused(x)
BY DEF Excused

LEMMA SubscribeFreeStep ==
  ASSUME SubIInv, NEW q \in Requests, NEW h \in SubHostels \cup {None}, SubscribeFree(q, h)
  PROVE  SubIInv'
<1>1. PICK r : r = [NoSubRequest EXCEPT !.stage = "deactivated", !.op = "free",
                                     !.scope = h, !.reads = {SubsActive}]
  OBVIOUS
<1>2. /\ r \in SubRequest /\ r.stage = "deactivated" /\ r.op = "free" /\ r.scope = h
      /\ r.row = None /\ r.reads = {SubsActive}
  BY <1>1 DEF NoSubRequest, SubRequest, SubStages, SubOps, SubItems
<1>3. SubGoesOn(q, r, {"row"} \X GivingWay(h))
  BY <1>1 DEF SubscribeFree
<1>4. SubKnows(r)'
  BY <1>2, DeactivateFacts DEF SubscribeFree, SubKnows
<1>5. Excused(r)'
  BY <1>2 DEF Excused
<1>6. QED BY <1>2, <1>3, <1>4, <1>5, DeactivateStep DEF SubscribeFree

LEMMA CancelPlanStep ==
  ASSUME SubIInv, NEW q \in Requests, NEW h \in SubHostels \cup {None}, CancelPlan(q, h)
  PROVE  SubIInv'
<1>1. PICK r : r = [NoSubRequest EXCEPT !.stage = "done", !.op = "cancel", !.scope = h]
  OBVIOUS
<1>2. /\ r \in SubRequest /\ r.stage = "done" /\ r.op = "cancel" /\ r.scope = h
      /\ r.row = None /\ r.reads = {}
  BY <1>1 DEF NoSubRequest, SubRequest, SubStages, SubOps
<1>3. SubGoesOn(q, r, {"row"} \X GivingWay(h))
  BY <1>1 DEF CancelPlan
<1>4. SubKnows(r)' /\ Excused(r)'
  BY <1>2 DEF SubKnows, Excused
<1>5. QED BY <1>2, <1>3, <1>4, DeactivateStep DEF CancelPlan

LEMMA SubscribePaidStep ==
  ASSUME SubIInv, NEW q \in Requests, NEW h \in SubHostels \cup {None}, SubscribePaid(q, h)
  PROVE  SubIInv'
<1>1. PICK y : y = [NoSubRequest EXCEPT !.op = "paid", !.scope = h, !.reads = {SubsPending}]
  OBVIOUS
<1>2. PICK r : r = IF PendingFor(h) = {} THEN [y EXCEPT !.stage = "checked"]
                   ELSE Over(y, "refused")
  OBVIOUS
<1>3. r \in SubRequest /\ r.stage \in {"checked", "refused"}
  <2>1. y \in SubRequest
    BY <1>1 DEF NoSubRequest, SubRequest, SubStages, SubOps, SubItems
  <2>2. QED BY <1>2, <2>1 DEF Over, SubRequest, SubStages
<1>4. SubKnows(r)
  BY <1>3 DEF SubKnows
<1>5. ~Excused(subReq[q])
  BY NotExcused DEF SubscribePaid, Unsent
<1>6. SubGoesOn(q, r, {})
  BY <1>1, <1>2 DEF SubscribePaid
<1>7. QED BY <1>3, <1>4, <1>5, <1>6, SubReadStep DEF SubscribePaid

LEMMA FindRequestStep ==
  ASSUME SubIInv, NEW q \in Requests, NEW i \in SubIds, NEW op \in {"approve", "reject"},
         FindRequest(q, i, op)
  PROVE  SubIInv'
<1>1. ~Excused(subReq[q])
  BY NotExcused DEF FindRequest, Unsent
<1>2. subs[i] \in SubRow
  BY DEF FindRequest, SubIInv, SubscriptionsTypeOK
<1>3. CASE subs[i].status = "PENDING"
  <2>1. PICK h \in SubHostels \cup {None} : h = subs[i].hostel
    BY <1>2 DEF SubRow
  <2>0. PICK y : y = [NoSubRequest EXCEPT !.op = op, !.row = i, !.reads = {<<"row", i>>}]
    OBVIOUS
  <2>2. PICK r : r = [y EXCEPT !.stage = "found", !.scope = h]
    OBVIOUS
  <2>3. /\ r \in SubRequest /\ r.stage = "found" /\ r.op = op /\ r.row = i
        /\ r.reads = {<<"row", i>>}
    <3>1. y \in SubRequest /\ y.op = op /\ y.row = i /\ y.reads = {<<"row", i>>}
      <4>1. {<<"row", i>>} \in SUBSET SubItems /\ {} \in SUBSET SubItems
        BY DEF SubItems
      <4>2. PICK x : x = [NoSubRequest EXCEPT !.op = op, !.row = i]
        OBVIOUS
      <4>3. x \in SubRequest /\ x.op = op /\ x.row = i
        BY <4>1, <4>2 DEF NoSubRequest, SubRequest, SubStages, SubOps
      <4>4. y = [x EXCEPT !.reads = {<<"row", i>>}]
        BY <2>0, <4>2
      <4>5. QED BY <4>1, <4>3, <4>4 DEF SubRequest
    <3>2. QED BY <2>2, <3>1 DEF SubRequest, SubStages
  <2>4. SubGoesOn(q, r, {})
    BY <1>3, <2>0, <2>1, <2>2 DEF FindRequest
  <2>5. SubKnows(r)
    BY <1>2, <1>3, <2>3 DEF SubKnows, HasStatus
  <2>6. QED BY <1>1, <2>3, <2>4, <2>5, SubReadStep DEF FindRequest
<1>4. CASE subs[i].status # "PENDING"
  <2>0. PICK y : y = [NoSubRequest EXCEPT !.op = op, !.row = i, !.reads = {<<"row", i>>}]
    OBVIOUS
  <2>1. PICK r : r = Over(y, "refused")
    OBVIOUS
  <2>2. r \in SubRequest /\ r.stage = "refused"
    BY <2>0, <2>1 DEF Over, NoSubRequest, SubRequest, SubStages, SubOps, SubItems
  <2>3. SubGoesOn(q, r, {})
    BY <1>4, <2>0, <2>1 DEF FindRequest
  <2>4. SubKnows(r)
    BY <2>2 DEF SubKnows
  <2>5. QED BY <1>1, <2>2, <2>3, <2>4, SubReadStep DEF FindRequest
<1>5. QED BY <1>3, <1>4

LEMMA ApproveStep ==
  ASSUME SubIInv, NEW q \in Requests, Approve(q)
  PROVE  SubIInv'
<1>1. PICK x \in SubRequest : x = subReq[q] /\ SubKnows(x)
  BY DEF SubIInv, SubscriptionsTypeOK
<1>2. /\ x.stage = "found" /\ x.op = "approve" /\ x.scope \in SubHostels \cup {None}
      /\ Deactivate(q, x.scope)
  BY <1>1 DEF Approve, SubRequest
<1>3. PICK items : items = x.reads \cup {SubsActive}
  OBVIOUS
<1>4. items \in SUBSET SubItems
  BY <1>3 DEF SubRequest, SubItems
<1>5. PICK r : r = [x EXCEPT !.stage = "deactivated", !.reads = items]
  OBVIOUS
<1>6. /\ r \in SubRequest /\ r.stage = "deactivated" /\ r.op = x.op /\ r.scope = x.scope
      /\ r.row = x.row /\ r.reads = items /\ r.raced = x.raced
  BY <1>4, <1>5 DEF SubRequest, SubStages
<1>7. SubGoesOn(q, r, {"row"} \X GivingWay(x.scope))
  BY <1>1, <1>3, <1>5 DEF Approve
<1>8. SubKnows(r)'
  <2>1. /\ x.row \in SubIds /\ <<"row", x.row>> \in items
        /\ x.raced \/ HasStatus(x.row, "PENDING")
    BY <1>1, <1>2, <1>3 DEF SubKnows
  <2>2. HasStatus(x.row, "PENDING") => HasStatus(x.row, "PENDING")'
    <3>1. HasStatus(x.row, "PENDING") => x.row \notin GivingWay(x.scope)
      BY DEF GivingWay, HasStatus
    <3>2. QED BY <1>2, <2>1, <3>1, DeactivateFacts DEF HasStatus
  <2>3. Quiet(r.scope)'
    BY <1>2, <1>6, DeactivateFacts DEF Quiet, GivingWay
  <2>4. QED BY <1>2, <1>3, <1>6, <2>1, <2>2, <2>3 DEF SubKnows, HasStatus
<1>9. Excused(r)'
  BY <1>6 DEF Excused
<1>10. QED BY <1>2, <1>6, <1>7, <1>8, <1>9, DeactivateStep

LEMMA FailSubStep ==
  ASSUME SubIInv, NEW q \in Requests, FailSub(q)
  PROVE  SubIInv'
<1>1. PICK x \in SubRequest : x = subReq[q]
  BY DEF SubIInv, SubscriptionsTypeOK
<1>2. PICK r : r = Over(x, "failed")
  OBVIOUS
<1>3. r \in SubRequest /\ r.stage = "failed"
  BY <1>1, <1>2 DEF Over, SubRequest, SubStages
<1>4. SubKnows(r) /\ Excused(r)
  BY <1>3 DEF SubKnows, Excused
<1>5. QED BY <1>1, <1>2, <1>3, <1>4, SubReadStep DEF FailSub

-----------------------------------------------------------------------------
LEMMA SubNextIInv == SubIInv /\ [SubscriptionsNext]_subVars => SubIInv'
<1> SUFFICES ASSUME SubIInv, [SubscriptionsNext]_subVars PROVE SubIInv'
  OBVIOUS
<1>1. ASSUME NEW q \in Requests, NEW h \in SubHostels \cup {None},
             SubscribeFree(q, h) \/ SubscribePaid(q, h) \/ CancelPlan(q, h)
      PROVE  SubIInv'
  BY <1>1, SubscribeFreeStep, SubscribePaidStep, CancelPlanStep
<1>2. ASSUME NEW q \in Requests, NEW i \in SubIds,
             \/ SaveFree(q, i) \/ SaveRequest(q, i)
             \/ \E op \in {"approve", "reject"} : FindRequest(q, i, op)
      PROVE  SubIInv'
  BY <1>2, SubSaveSteps, FindRequestStep
<1>3. ASSUME NEW q \in Requests, Approve(q) \/ FailSub(q)
      PROVE  SubIInv'
  BY <1>3, ApproveStep, FailSubStep
<1>4. ASSUME NEW q \in Requests, Activate(q) \/ Reject(q)
      PROVE  SubIInv'
  <2>1. SubKnows(subReq[q])
    BY DEF SubIInv
  <2>2. subReq[q].row \in SubIds
    BY <1>4, <2>1 DEF Activate, Reject, SubKnows
  <2>3. QED BY <1>4, <2>2, SubSaveSteps
<1>5. CASE UNCHANGED subVars
  BY <1>5 DEF subVars, SubIInv, SubscriptionsTypeOK, SubKnows, Quiet, GivingWay, HasStatus,
              Excused, SubSettled, OneRunningPlan, Overlap
<1>6. QED BY <1>1, <1>2, <1>3, <1>4, <1>5 DEF SubscriptionsNext

LEMMA SubSpecIInv == SubscriptionsSpec => []SubIInv
BY SubInitIInv, SubNextIInv, PTL DEF SubscriptionsSpec

(* Two plans run for one hostel only if one was saved by a request that    *)
(* another overtook.                                                       *)
THEOREM OnePlanRuns == SubscriptionsSpec => []OneRunningPlan
<1>1. SubIInv => OneRunningPlan
  BY DEF SubIInv
<1>2. QED BY <1>1, SubSpecIInv, PTL

(* A plan expires only for another, by cancellation, or in a request that  *)
(* failed half-way or raced.                                               *)
THEOREM PlansGiveWay == SubscriptionsSpec => []PlanGivesWayToAnother
<1>1. SubIInv => PlanGivesWayToAnother
  BY DEF SubIInv, PlanGivesWayToAnother, Excused, SubSettled
<1>2. QED BY <1>1, SubSpecIInv, PTL
=============================================================================
