------------------------------ MODULE Bookings -------------------------------
(***************************************************************************)
(* The applications of one user to one hostel: POST /bookings behind its   *)
(* idempotency key, the status an owner sets, cancellation by the user and *)
(* deletion by the owner.  A save writes the whole entity, and inserts it  *)
(* again when the row is gone.  Caches, notifications and the applicant's  *)
(* details are left out; CONFIRMED, the older name of APPROVED, is too.    *)
(***************************************************************************)
EXTENDS Handlers, Integers

CONSTANTS IdemKeys,   \* Idempotency-Key headers of the user
          MaxBookings \* bound: booking rows

BookingIds == 1 .. MaxBookings
BookingStatus == {"PENDING", "APPROVED", "REJECTED", "CANCELLED"}

ASSUME MaxBookingsAssumption == MaxBookings \in Nat
ASSUME NoBookingAssumption ==
  /\ None \notin BookingStatus /\ None \notin BookingIds
  /\ None \notin IdemKeys /\ None \notin Requests

VARIABLES bookings, \* the bookings table: a status, or no row
          madeBy,   \* history: the request that made the row
          replies,  \* store: the booking answered for a key, in memory
          bookReq,  \* what each request asks for and where it is
          reopened, \* history: rows an owner set to PENDING again
          forgotten \* history: keys whose answer was dropped from memory

bookVars == <<bookings, madeBy, replies, bookReq, reopened, forgotten>>

BookItems == ({"status"} \X {"PENDING"}) \cup ({"key"} \X IdemKeys)
             \cup ({"row"} \X BookingIds)
BookRequest == [stage: {"unsent", "admitted", "checked", "inserted", "found",
                        "done", "refused", "failed"},
                key: IdemKeys \cup {None}, row: BookingIds \cup {None},
                status: BookingStatus \cup {None},
                reads: SUBSET BookItems, raced: BOOLEAN]

BookingsTypeOK ==
  /\ bookings \in [BookingIds -> BookingStatus \cup {None}]
  /\ madeBy \in [BookingIds -> Requests \cup {None}]
  /\ replies \in [IdemKeys -> BookingIds \cup {None}]
  /\ bookReq \in [Requests -> BookRequest]
  /\ reopened \subseteq BookingIds /\ forgotten \subseteq IdemKeys

NoBookRequest == [stage |-> "unsent", key |-> None, row |-> None, status |-> None,
                  reads |-> {}, raced |-> FALSE]

BookingsInit ==
  /\ bookings = [b \in BookingIds |-> None]
  /\ madeBy = [b \in BookingIds |-> None]
  /\ replies = [k \in IdemKeys |-> None]
  /\ bookReq = [q \in Requests |-> NoBookRequest]
  /\ reopened = {} /\ forgotten = {}

-----------------------------------------------------------------------------
BookStage(q, stage) == bookReq[q].stage = stage
BookGoesOn(q, r, items) == bookReq' = GoesOn(bookReq, q, r, items)
BookOnly(q, r, items) ==
  /\ BookGoesOn(q, r, items)
  /\ UNCHANGED <<bookings, madeBy, replies, reopened, forgotten>>

(* A row of another status: who counts the pending ones is wrong by now.   *)
BooksPending == <<"status", "PENDING">>
Touches(b, status) == {<<"row", b>>} \cup
                      IF "PENDING" \in {bookings[b], status} THEN {BooksPending} ELSE {}

(* idempotencyKey: the stored answer is replayed, or the handler runs.     *)
Apply(q, k) ==
  LET r == [NoBookRequest EXCEPT !.key = k]
  IN  /\ BookStage(q, "unsent")
      /\ BookOnly(q, IF replies[k] = None
                     THEN [r EXCEPT !.stage = "admitted", !.reads = {<<"key", k>>}]
                     ELSE [r EXCEPT !.stage = "done", !.row = replies[k]], {})

CheckPending(q) ==
  /\ BookStage(q, "admitted")
  /\ BookOnly(q, IF \E b \in BookingIds : bookings[b] = "PENDING"
                 THEN Over(bookReq[q], "refused")
                 ELSE [bookReq[q] EXCEPT !.stage = "checked",
                                         !.reads = @ \cup {BooksPending}],
              {})

InsertBooking(q, b) ==
  /\ BookStage(q, "checked")
  /\ madeBy[b] = None /\ \A c \in 1 .. b - 1 : madeBy[c] # None
  /\ bookings' = [bookings EXCEPT ![b] = "PENDING"]
  /\ madeBy' = [madeBy EXCEPT ![b] = q]
  /\ BookGoesOn(q, [bookReq[q] EXCEPT !.stage = "inserted", !.row = b],
                {BooksPending, <<"key", bookReq[q].key>>})
  /\ UNCHANGED <<replies, reopened, forgotten>>

(* res.json: an answer of 2xx is kept for the key.                         *)
AnswerUnrecorded(q) ==
  /\ BookStage(q, "inserted")
  /\ BookOnly(q, Over(bookReq[q], "done"), {<<"key", bookReq[q].key>>})
Answer(q) ==
  /\ BookStage(q, "inserted")
  /\ replies' = [replies EXCEPT ![bookReq[q].key] = bookReq[q].row]
  /\ BookGoesOn(q, Over(bookReq[q], "done"), {<<"key", bookReq[q].key>>})
  /\ UNCHANGED <<bookings, madeBy, reopened, forgotten>>

(* The answer's ten minutes are over, or the process has restarted.        *)
Forget(k) ==
  /\ replies[k] # None
  /\ replies' = [replies EXCEPT ![k] = None]
  /\ forgotten' = forgotten \cup {k}
  /\ UNCHANGED <<bookings, madeBy, bookReq, reopened>>

(* updateBookingStatus to any status, cancelBooking of the user.           *)
FindBooking(q, b, status) ==
  /\ BookStage(q, "unsent") /\ bookings[b] # None
  /\ BookOnly(q, [NoBookRequest EXCEPT !.stage = "found", !.row = b, !.status = status,
                                       !.reads = {<<"row", b>>}], {})

SaveBooking(q) ==
  LET b == bookReq[q].row
      status == bookReq[q].status
  IN  /\ BookStage(q, "found") /\ status # None
      /\ bookings' = [bookings EXCEPT ![b] = status]
      /\ reopened' = IF status = "PENDING" /\ bookings[b] # "PENDING"
                     THEN reopened \cup {b} ELSE reopened
      /\ BookGoesOn(q, Over(bookReq[q], "done"), Touches(b, status))
      /\ UNCHANGED <<madeBy, replies, forgotten>>

(* cancelBooking of the hostel's owner.                                    *)
DeleteBooking(q) ==
  /\ BookStage(q, "found") /\ bookReq[q].status = None
  /\ bookings' = [bookings EXCEPT ![bookReq[q].row] = None]
  /\ BookGoesOn(q, Over(bookReq[q], "done"), Touches(bookReq[q].row, None))
  /\ UNCHANGED <<madeBy, replies, reopened, forgotten>>

(* A statement or a notification fails, or the process stops.              *)
FailBooking(q) ==
  /\ bookReq[q].stage \in {"admitted", "checked", "inserted", "found"}
  /\ BookOnly(q, Over(bookReq[q], "failed"), {})

BookingsNext ==
  \/ \E q \in Requests :
       \/ \E k \in IdemKeys : Apply(q, k)
       \/ CheckPending(q) \/ Answer(q) \/ SaveBooking(q) \/ DeleteBooking(q)
       \/ FailBooking(q)
       \/ \E b \in BookingIds : \/ InsertBooking(q, b)
                                \/ \E s \in BookingStatus \cup {None} : FindBooking(q, b, s)
  \/ \E k \in IdemKeys : Forget(k)

BookingsSpec == BookingsInit /\ [][BookingsNext]_bookVars

-----------------------------------------------------------------------------
Maker(b) == bookReq[madeBy[b]]

(* "You already have a pending booking application for this hostel": two   *)
(* wait at once only if one was made while the other was being made, or an *)
(* owner set one back to PENDING.                                          *)
PendingOnce ==
  \A b, c \in BookingIds :
    b # c /\ bookings[b] = "PENDING" /\ bookings[c] = "PENDING" =>
      {b, c} \cap reopened # {} \/ Maker(b).raced \/ Maker(c).raced

(* One key books once, unless the two requests overlapped, the answer was  *)
(* dropped from memory or the first never answered.                        *)
KeyBooksOnce ==
  \A b, c \in BookingIds :
    b # c /\ madeBy[b] # None /\ madeBy[c] # None /\ Maker(b).key = Maker(c).key =>
      \/ Maker(b).raced \/ Maker(c).raced
      \/ Maker(b).key \in forgotten
      \/ "failed" \in {Maker(b).stage, Maker(c).stage}

(* A user's application is made once, however often it is sent.            *)
BookedOnce == PendingOnce /\ KeyBooksOnce
=============================================================================
