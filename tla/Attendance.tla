----------------------------- MODULE Attendance ------------------------------
(***************************************************************************)
(* Attendance of one hostel: a resident checks in once a Nepal day, near   *)
(* the hostel's pin or moving the pin to where it stands, and checks out   *)
(* once.  A record is of one day; midnight may pass while a request is     *)
(* handled.  Times, notes, the listing and its statistics are left out.    *)
(***************************************************************************)
EXTENDS Handlers, Integers

CONSTANTS Residents, \* active residents of the hostel
          Places,    \* where a device may be
          Fence,     \* pairs of places within 300 meters of each other
          MaxDay     \* bound: midnights

AttendanceRow == [in: Places, out: Places \cup {None}]

ASSUME MaxDayAssumption == MaxDay \in Nat
ASSUME FenceAssumption == \A p \in Places : <<p, p>> \in Fence
ASSUME NoPlaceAssumption == None \notin Places \cup Residents \cup AttendanceRow

VARIABLES records,   \* the attendances table: one row a resident and day
          pin,       \* the hostel's latitude and longitude
          today,     \* the date in Kathmandu
          markReq    \* what each request asks for and where it is

markVars == <<records, pin, today, markReq>>

Days == 0 .. MaxDay
MarkItems == Residents \X Days
MarkRequest == [stage: {"unsent", "checked", "near", "done", "refused", "failed"},
                op: {"in", "sync", "out", None}, resident: Residents \cup {None},
                place: Places \cup {None}, day: Days \cup {None},
                began: Days \cup {None}, found: AttendanceRow \cup {None},
                reads: SUBSET MarkItems, raced: BOOLEAN]

AttendanceTypeOK ==
  /\ records \in [Residents -> [Days -> AttendanceRow \cup {None}]]
  /\ pin \in Places \cup {None}
  /\ today \in Days
  /\ markReq \in [Requests -> MarkRequest]

NoMark == [stage |-> "unsent", op |-> None, resident |-> None, place |-> None,
           day |-> None, began |-> None, found |-> None, reads |-> {}, raced |-> FALSE]

AttendanceInit ==
  /\ records = [c \in Residents |-> [d \in Days |-> None]]
  /\ pin \in Places \cup {None}
  /\ today = 0
  /\ markReq = [q \in Requests |-> NoMark]

-----------------------------------------------------------------------------
MarkGoesOn(q, r, items) == markReq' = GoesOn(markReq, q, r, items)
MarkOnly(q, r) == MarkGoesOn(q, r, {}) /\ UNCHANGED <<records, pin, today>>

Mark(op, c, p, day, found) ==
  [NoMark EXCEPT !.stage = "checked", !.op = op, !.resident = c, !.place = p,
                 !.day = day, !.began = today, !.found = found, !.reads = {<<c, day>>}]

(* checkIn: no record of the day yet.                                      *)
CheckIn(q, op, c, p) ==
  /\ markReq[q].stage = "unsent"
  /\ MarkOnly(q, IF records[c][today] = None THEN Mark(op, c, p, today, None)
                 ELSE Over(Mark(op, c, p, today, None), "refused"))

(* checkOut: the record of the day, still open.                            *)
IsOpen(c, d) == records[c][d] # None /\ records[c][d].out = None
CheckOutLatestOpen(q, c, p) ==
  /\ markReq[q].stage = "unsent"
  /\ \E d \in Days :
       /\ IsOpen(c, d) /\ \A e \in d + 1 .. MaxDay : ~IsOpen(c, e)
       /\ MarkOnly(q, Mark("out", c, p, d, records[c][d]))
CheckOut(q, c, p) ==
  /\ markReq[q].stage = "unsent"
  /\ MarkOnly(q, IF IsOpen(c, today) THEN Mark("out", c, p, today, records[c][today])
                 ELSE Over(Mark("out", c, p, today, None), "refused"))

(* The fence: near the pin, if the hostel has one.                         *)
MeasureDistance(q) ==
  LET r == markReq[q]
  IN  /\ r.stage = "checked" /\ r.op # "sync"
      /\ MarkOnly(q, IF pin # None /\ <<pin, r.place>> \in Fence
                     THEN [r EXCEPT !.stage = "near"] ELSE Over(r, "refused"))

(* syncHostelLocation: the pin is where the resident stands, before the    *)
(* record is saved and whether it is or not.                               *)
MovePin(q) ==
  /\ markReq[q].stage = "checked" /\ markReq[q].op = "sync"
  /\ pin' = markReq[q].place
  /\ MarkGoesOn(q, [markReq[q] EXCEPT !.stage = "near"], {})
  /\ UNCHANGED <<records, today>>

SaveMark(q, row) ==
  LET r == markReq[q]
  IN  /\ records' = [records EXCEPT ![r.resident][r.day] = row]
      /\ MarkGoesOn(q, Over(r, "done"), {<<r.resident, r.day>>})
      /\ UNCHANGED <<pin, today>>

SaveCheckIn(q) ==
  LET r == markReq[q]
  IN  /\ r.stage = "near" /\ r.op # "out"
      /\ records[r.resident][r.day] = None
      /\ SaveMark(q, [in |-> r.place, out |-> None])

(* uq_attendances_resident_date                                            *)
SecondCheckIn(q) ==
  LET r == markReq[q]
  IN  /\ r.stage = "near" /\ r.op # "out"
      /\ records[r.resident][r.day] # None
      /\ MarkOnly(q, Over(r, "failed"))

SaveCheckOut(q) ==
  /\ markReq[q].stage = "near" /\ markReq[q].op = "out"
  /\ SaveMark(q, [markReq[q].found EXCEPT !.out = markReq[q].place])

FailMark(q) ==
  /\ markReq[q].stage \in {"checked", "near"}
  /\ MarkOnly(q, Over(markReq[q], "failed"))

Midnight ==
  /\ today < MaxDay
  /\ today' = today + 1
  /\ UNCHANGED <<records, pin, markReq>>

AttendanceNext ==
  \/ \E q \in Requests :
       \/ \E c \in Residents, p \in Places :
            CheckIn(q, "in", c, p) \/ CheckIn(q, "sync", c, p) \/ CheckOut(q, c, p)
       \/ MeasureDistance(q) \/ MovePin(q) \/ SaveCheckIn(q) \/ SecondCheckIn(q)
       \/ SaveCheckOut(q) \/ FailMark(q)
  \/ Midnight

AttendanceSpec == AttendanceInit /\ [][AttendanceNext]_markVars

-----------------------------------------------------------------------------
(* A day's record is written by the resident's own requests of that day    *)
(* only, late though they may end: nothing, then open, then closed, and    *)
(* closed again only by a check-out that had found it open.                *)
DaysSettle ==
  [][\A c \in Residents, d \in Days :
       records'[c][d] # records[c][d] =>
         \E q \in Requests :
           /\ markReq'[q].stage = "done" /\ markReq[q].stage = "near"
           /\ markReq[q].resident = c /\ markReq[q].began = d
           /\ IF records[c][d] = None THEN records'[c][d].out = None
              ELSE /\ records'[c][d].in = records[c][d].in
                   /\ records'[c][d].out # None
                   /\ records[c][d].out = None \/ markReq[q].raced]_markVars
=============================================================================
