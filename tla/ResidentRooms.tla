---------------------------- MODULE ResidentRooms ----------------------------
(***************************************************************************)
(* The rooms of one owner and the residents in them: creation, update and  *)
(* deletion of a resident, a row of a CSV import, creation and update of a *)
(* room.  Each handler is a sequence of statements with no transaction and *)
(* no lock, but for the import row, which is one READ COMMITTED            *)
(* transaction.  A save writes the whole entity that was read earlier.     *)
(*                                                                         *)
(* A resident names its room by hostel and room number, and the numbers of *)
(* an owner's rooms differ, so a number is a room here.  A request whose   *)
(* first checks fail changes nothing and is left out.  Accounts, rents,    *)
(* contact details and edits of a room's number are left out as well.      *)
(***************************************************************************)
EXTENDS Integers, FiniteSets

CONSTANTS Users,         \* accounts: a resident is one, and at most once
          Hostels,       \* the owner's hostels
          Rooms,         \* room numbers
          Beds,          \* bed numbers
          Requests,      \* HTTP requests and rows of imports
          MaxCapacity,   \* the largest capacity a room is given
          ResidentLimit, \* active residents the owner's plan allows a hostel
          RoomEdits,     \* what owners make of a room: rows
          Opening,       \* the rooms and residents there are at the start
          None           \* no row, no hostel

RoomStatus == {"AVAILABLE", "OCCUPIED", "RESERVED", "MAINTENANCE"}
RoomRow == [hostel: Hostels \cup {None}, capacity: 1 .. MaxCapacity,
            occupied: Nat, status: RoomStatus]
ResidentRow == [hostel: Hostels, room: Rooms, bed: Beds, isActive: BOOLEAN]

(* Books that agree: a resident's room is one of its hostel, no bed is     *)
(* held twice, and each room counts its residents.                         *)
Consistent(rms, rsd) ==
  /\ rms \in [Rooms -> RoomRow \cup {None}]
  /\ rsd \in [Users -> ResidentRow \cup {None}]
  /\ \A u \in Users : rsd[u] # None =>
       /\ rms[rsd[u].room] # None
       /\ rms[rsd[u].room].hostel = rsd[u].hostel
       /\ \A v \in Users \ {u} : rsd[v] # None =>
            rsd[v].room # rsd[u].room \/ rsd[v].bed # rsd[u].bed
  /\ \A n \in Rooms : rms[n] # None =>
       LET held == Cardinality({u \in Users : rsd[u] # None /\ rsd[u].room = n})
       IN  /\ rms[n].occupied = held
           /\ held <= rms[n].capacity

ASSUME UsersAssumption == IsFiniteSet(Users)
ASSUME EditsAssumption == RoomEdits \subseteq RoomRow
ASSUME OpeningAssumption == \A o \in Opening : Consistent(o.rooms, o.residents)
ASSUME NoneAssumption == None \notin RoomRow \cup ResidentRow \cup Hostels
ASSUME LimitsAssumption == MaxCapacity \in Nat \ {0} /\ ResidentLimit \in Nat

VARIABLES rooms,      \* the rooms table
          residents,  \* the residents table, by account
          req,        \* what each request asks for, has read and where it is
          raced,      \* history: rooms written by a request whose reading was old
          unsettled,  \* history: rooms counted by hand, or left half-counted
          unchecked   \* history: accounts in a bed not checked in their hostel

roomVars == <<rooms, residents, req, raced, unsettled, unchecked>>

(* What a request reads, and another may change before it writes.          *)
Items == {"room", "beds"} \X Rooms \cup {"resident"} \X Users \cup {"count"} \X Hostels

Ops == {"create", "import", "move", "rebed", "edit", "delete", "room"}
InFlight == {"found", "cleared", "placed", "parting", "freed", "ready"}
Stages == {"unsent", "done", "refused", "failed"} \cup InFlight

(* placement: the resident row asked for; resident: the row as it was read *)
(* before; found: the entity of the room it goes to; old: that of the room *)
(* it leaves.                                                              *)
Request == [stage: Stages, op: Ops, user: Users \cup {None},
            placement: ResidentRow \cup {None}, room: Rooms,
            found: RoomRow \cup {None}, old: RoomRow \cup {None},
            resident: ResidentRow \cup {None},
            reads: SUBSET Items, stale: SUBSET Items]

RoomsTypeOK ==
  /\ rooms \in [Rooms -> RoomRow \cup {None}]
  /\ residents \in [Users -> ResidentRow \cup {None}]
  /\ req \in [Requests -> [stage: {"unsent"}] \cup Request]
  /\ raced \subseteq Rooms /\ unsettled \subseteq Rooms
  /\ unchecked \subseteq Users

-----------------------------------------------------------------------------
RoomsInit ==
  /\ \E o \in Opening : rooms = o.rooms /\ residents = o.residents
  /\ req = [q \in Requests |-> [stage |-> "unsent"]]
  /\ raced = {} /\ unsettled = {} /\ unchecked = {}

Larger(a, b) == IF a > b THEN a ELSE b

LivesIn(u, n) == residents[u] # None /\ residents[u].room = n
ActiveIn(h, n) == {u \in Users : /\ LivesIn(u, n)
                                 /\ residents[u].hostel = h
                                 /\ residents[u].isActive}
ActiveOf(h) == {u \in Users : /\ residents[u] # None
                              /\ residents[u].hostel = h
                              /\ residents[u].isActive}

(* checkResidentLimit                                                      *)
WithinLimit(h) == Cardinality(ActiveOf(h)) + 1 <= ResidentLimit

TakesResidents(row) == row # None /\ row.status \notin {"MAINTENANCE", "RESERVED"}

(* The counter one down, and the room open again.                          *)
OneLessUnclamped(row) ==
  [row EXCEPT !.occupied = @ - 1,
              !.status = IF @ = "OCCUPIED" THEN "AVAILABLE" ELSE @]
OneLess(row) ==
  LET occupied == IF row.occupied = 0 THEN 0 ELSE row.occupied - 1
  IN  [row EXCEPT
         !.occupied = occupied,
         !.status = IF @ = "OCCUPIED" /\ occupied < row.capacity
                    THEN "AVAILABLE" ELSE @]

(* The counter one up from where it, or the beds taken, stand.             *)
OneMoreThan(row, counted) ==
  [row EXCEPT
     !.occupied = counted + 1,
     !.status = IF @ = "AVAILABLE" /\ counted + 1 >= row.capacity
                THEN "OCCUPIED" ELSE @]

(* Request q stands as r; what others have read of items is old from now.  *)
Step(q, r, items) ==
  req' = [p \in Requests |->
            IF p = q THEN r
            ELSE IF req[p].stage \notin InFlight THEN req[p]
            ELSE [req[p] EXCEPT !.stale = @ \cup (req[p].reads \cap items)]]

Reading(q, r) == Step(q, r, {})

(* The items that change with the resident row of u becoming row.          *)
Changed(u, row) ==
  LET rows == {residents[u], row} \ {None}
  IN  {<<"resident", u>>} \cup {<<"beds", r.room>> : r \in rows}
                          \cup {<<"count", r.hostel>> : r \in rows}

(* A write to room n, or of a resident in it, from readings that are old.  *)
OldFor(q, n) == \/ {<<"room", n>>, <<"beds", n>>} \cap req[q].stale # {}
                \/ <<"resident", req[q].user>> \in req[q].stale
Race(q, written) == raced' = raced \cup {n \in written : OldFor(q, n)}

Moved(q, stage) == [req[q] EXCEPT !.stage = stage]
-----------------------------------------------------------------------------
(* A request that passes its first checks, with what they read.            *)
Start(q, op, u, placement, n, found, resident, reads) ==
  /\ req[q].stage = "unsent"
  /\ Reading(q, [stage |-> "found", op |-> op, user |-> u, placement |-> placement,
                 room |-> n, found |-> found, old |-> None, resident |-> resident,
                 reads |-> reads, stale |-> {}])
  /\ UNCHANGED <<rooms, residents, raced, unsettled, unchecked>>

Placement(h, n, b, active) == [hostel |-> h, room |-> n, bed |-> b, isActive |-> active]

(* createResident: the plan's limit, then the room, of this hostel or of   *)
(* none yet.                                                               *)
StartCreateUnlimited(q, u, h, n, b) ==
  /\ TakesResidents(rooms[n])
  /\ rooms[n].hostel \in {h, None}
  /\ Start(q, "create", u, Placement(h, n, b, TRUE), n,
           [rooms[n] EXCEPT !.hostel = h], None, {<<"room", n>>, <<"count", h>>})
StartCreateAnywhere(q, u, h, n, b) ==
  /\ WithinLimit(h)
  /\ TakesResidents(rooms[n])
  /\ Start(q, "create", u, Placement(h, n, b, TRUE), n,
           [rooms[n] EXCEPT !.hostel = h], None, {<<"room", n>>, <<"count", h>>})
StartCreate(q, u, h, n, b) ==
  /\ WithinLimit(h)
  /\ TakesResidents(rooms[n])
  /\ rooms[n].hostel \in {h, None}
  /\ Start(q, "create", u, Placement(h, n, b, TRUE), n,
           [rooms[n] EXCEPT !.hostel = h], None, {<<"room", n>>, <<"count", h>>})

(* importSingleRowDirect: the owner's room of that number, whatever its    *)
(* hostel; no limit.                                                       *)
StartImportRow(q, u, h, n, b) ==
  /\ TakesResidents(rooms[n])
  /\ Start(q, "import", u, Placement(h, n, b, TRUE), n,
           [rooms[n] EXCEPT !.hostel = h], None, {<<"room", n>>})

(* updateResident, to another room, of this hostel or another: the plan's  *)
(* limit is not looked at...                                               *)
StartMove(q, u, n, b, active) ==
  /\ residents[u] # None
  /\ TakesResidents(rooms[n])
  /\ rooms[n].hostel # None
  /\ residents[u].room # n \/ residents[u].hostel # rooms[n].hostel
  /\ Start(q, "move", u, Placement(rooms[n].hostel, n, b, active), n, rooms[n],
           residents[u], {<<"room", n>>, <<"resident", u>>})

(* ...to another bed of its room, or to neither.                           *)
StartEdit(q, u, b, active) ==
  /\ residents[u] # None
  /\ Start(q, IF b = residents[u].bed THEN "edit" ELSE "rebed", u,
           [residents[u] EXCEPT !.bed = b, !.isActive = active],
           residents[u].room, None, residents[u], {<<"resident", u>>})

StartDelete(q, u) ==
  /\ residents[u] # None
  /\ Start(q, "delete", u, None, residents[u].room, None, residents[u],
           {<<"resident", u>>})

(* updateRoom: capacity, counter and status as the owner likes, whoever    *)
(* lives there; the hostel of a room that has none.  A room that has one   *)
(* is read with it, and the save keeps what was read.                      *)
StartRoomUpdate(q, n, row) ==
  /\ rooms[n] # None
  /\ row.occupied # rooms[n].occupied => row.occupied <= row.capacity
  /\ rooms[n].hostel # None => row.hostel = rooms[n].hostel
  /\ Start(q, "room", None, None, n, row, None, {<<"room", n>>})

-----------------------------------------------------------------------------
(* The beds taken in the room, then the counter as it will be saved.       *)
TakenIn(q) == ActiveIn(req[q].placement.hostel, req[q].room)
Counted(q) == Larger(Cardinality(TakenIn(q)), req[q].found.occupied)
BedTaken(q) == \E u \in TakenIn(q) : residents[u].bed = req[q].placement.bed
FullLater(q) == Counted(q) > req[q].found.capacity
Full(q) == Counted(q) >= req[q].found.capacity
AlreadyResident(q) == /\ req[q].op = "import"
                      /\ residents[req[q].user] # None
                      /\ residents[req[q].user].isActive

WithBeds(q) == req[q].reads \cup {<<"beds", req[q].room>>}

ClearUnlessFull(q) ==
  /\ req[q].stage = "found" /\ req[q].op \in {"create", "import", "move"}
  /\ ~Full(q) /\ ~AlreadyResident(q)
  /\ Reading(q, [Moved(q, "cleared") EXCEPT
                   !.found = OneMoreThan(req[q].found, Counted(q)),
                   !.reads = WithBeds(q)])
  /\ UNCHANGED <<rooms, residents, raced, unsettled, unchecked>>
Clear(q) ==
  /\ req[q].stage = "found" /\ req[q].op \in {"create", "import", "move"}
  /\ ~Full(q) /\ ~BedTaken(q) /\ ~AlreadyResident(q)
  /\ Reading(q, [Moved(q, "cleared") EXCEPT
                   !.found = OneMoreThan(req[q].found, Counted(q)),
                   !.reads = WithBeds(q)])
  /\ UNCHANGED <<rooms, residents, raced, unsettled, unchecked>>

ClearBed(q) ==
  /\ req[q].stage = "found" /\ req[q].op = "rebed"
  /\ ~BedTaken(q)
  /\ Reading(q, [Moved(q, "ready") EXCEPT !.reads = WithBeds(q)])
  /\ UNCHANGED <<rooms, residents, raced, unsettled, unchecked>>

Refuse(q) ==
  /\ req[q].stage = "found"
  /\ \/ /\ req[q].op \in {"create", "import", "move"}
        /\ Full(q) \/ BedTaken(q) \/ AlreadyResident(q)
     \/ req[q].op = "rebed" /\ BedTaken(q)
  /\ Reading(q, Moved(q, "refused"))
  /\ UNCHANGED <<rooms, residents, raced, unsettled, unchecked>>

(* An account is a resident once: the unique index on userId.              *)
RefuseAccount(q) ==
  /\ req[q].stage = "cleared" /\ req[q].op \in {"create", "import"}
  /\ residents[req[q].user] # None
  /\ Reading(q, Moved(q, "failed"))
  /\ UNCHANGED <<rooms, residents, raced, unsettled, unchecked>>

WriteResident(u, row) == residents' = [residents EXCEPT ![u] = row]
WriteRoom(n, row) == rooms' = [rooms EXCEPT ![n] = row]

PlaceResident(q) ==
  LET r == req[q]
  IN  /\ r.stage = "cleared" /\ r.op = "create"
      /\ residents[r.user] = None
      /\ WriteResident(r.user, r.placement)
      /\ Step(q, Moved(q, "placed"), Changed(r.user, r.placement))
      /\ Race(q, {r.room})
      /\ UNCHANGED <<rooms, unsettled, unchecked>>

CommitImportResident(q) ==
  LET r == req[q]
  IN  /\ r.stage = "cleared" /\ r.op = "import"
      /\ residents[r.user] = None
      /\ WriteResident(r.user, r.placement)
      /\ Step(q, Moved(q, "done"), Changed(r.user, r.placement))
      /\ Race(q, {r.room})
      /\ UNCHANGED <<rooms, unsettled, unchecked>>
CommitImport(q) ==
  LET r == req[q]
  IN  /\ r.stage = "cleared" /\ r.op = "import"
      /\ residents[r.user] = None
      /\ WriteResident(r.user, r.placement)
      /\ WriteRoom(r.room, r.found)
      /\ Step(q, Moved(q, "done"),
              Changed(r.user, r.placement) \cup {<<"room", r.room>>})
      /\ Race(q, {r.room})
      /\ UNCHANGED <<unsettled, unchecked>>

(* The last step of a creation, the only one of a room's update, the       *)
(* second save of a room created with an image, and the room a move goes   *)
(* to.                                                                     *)
SaveRoom(q) ==
  LET r == req[q]
      n == r.room
      byHand == /\ r.op = "room" /\ rooms[n] # None
                /\ \/ r.found.occupied # rooms[n].occupied
                   \/ r.found.capacity # rooms[n].capacity
  IN  /\ \/ r.stage = "placed"
         \/ r.stage = "found" /\ r.op = "room"
         \/ r.stage = "freed" /\ r.op = "move"
      /\ WriteRoom(n, r.found)
      /\ Step(q, Moved(q, IF r.op = "move" THEN "ready" ELSE "done"), {<<"room", n>>})
      /\ Race(q, {n})
      /\ unsettled' = IF byHand THEN unsettled \cup {n} ELSE unsettled
      /\ UNCHANGED <<residents, unchecked>>

(* The room a resident leaves, if it is still its hostel's.                *)
OldRoom(q) == rooms[req[q].resident.room]
FindOldRoom(q) ==
  LET r == req[q]
      mine == OldRoom(q) # None /\ OldRoom(q).hostel = r.resident.hostel
  IN  /\ \/ r.stage = "cleared" /\ r.op = "move"
         \/ r.stage = "found" /\ r.op = "delete"
      /\ Reading(q, [Moved(q, "parting") EXCEPT
                       !.old = IF mine THEN OneLess(OldRoom(q)) ELSE None,
                       !.reads = @ \cup {<<"room", r.resident.room>>}])
      /\ UNCHANGED <<rooms, residents, raced, unsettled, unchecked>>

SaveOldRoom(q) ==
  LET r == req[q]
  IN  /\ r.stage = "parting"
      /\ IF r.old = None
         THEN Reading(q, Moved(q, "freed")) /\ UNCHANGED <<rooms, raced>>
         ELSE /\ WriteRoom(r.resident.room, r.old)
              /\ Step(q, Moved(q, "freed"), {<<"room", r.resident.room>>})
              /\ Race(q, {r.resident.room})
      /\ UNCHANGED <<residents, unsettled, unchecked>>

(* The resident was read with its hostel, so its save keeps that hostel,   *)
(* whichever the room is of...                                             *)
Saved(q) == [req[q].placement EXCEPT !.hostel = req[q].resident.hostel]
Activates(q) == /\ req[q].op \in {"move", "rebed", "edit"}
                /\ req[q].placement.isActive /\ ~req[q].resident.isActive

(* ...and a row deleted meanwhile is inserted again.                       *)
RoomsOf(q) == {r.room : r \in {req[q].resident, req[q].placement,
                               residents[req[q].user]} \ {None}}
SaveResidentAgain(q) ==
  LET r == req[q]
  IN  /\ \/ r.stage \in {"ready", "done"} /\ r.op \in {"move", "rebed"}
         \/ r.stage = "found" /\ r.op = "edit"
      /\ WriteResident(r.user, Saved(q))
      /\ Step(q, Moved(q, IF r.stage = "done" THEN "failed" ELSE "done"),
              Changed(r.user, Saved(q)))
      /\ Race(q, RoomsOf(q))
      /\ UNCHANGED <<rooms, unsettled, unchecked>>
SaveResident(q) ==
  LET r == req[q]
      uncheckedNow == IF r.op = "edit" THEN Activates(q)
                      ELSE r.placement.hostel # r.resident.hostel
  IN  /\ \/ r.stage = "ready"
         \/ r.stage = "found" /\ r.op = "edit"
      /\ WriteResident(r.user, Saved(q))
      /\ Step(q, Moved(q, "done"), Changed(r.user, Saved(q)))
      /\ Race(q, RoomsOf(q))
      /\ unchecked' = IF uncheckedNow THEN unchecked \cup {r.user}
                      ELSE IF r.op = "edit" THEN unchecked
                      ELSE unchecked \ {r.user}
      /\ UNCHANGED <<rooms, unsettled>>

DeleteResident(q) ==
  LET r == req[q]
  IN  /\ r.stage = "freed" /\ r.op = "delete"
      /\ WriteResident(r.user, None)
      /\ Step(q, Moved(q, "done"), Changed(r.user, None))
      /\ Race(q, RoomsOf(q))
      /\ unchecked' = unchecked \ {r.user}
      /\ UNCHANGED <<rooms, unsettled>>

(* Requests between the write of a resident's row and that of its room's   *)
(* counter: one more than the counter says, and one less.                  *)
Arriving(n) == {q \in Requests : req[q].stage = "placed" /\ req[q].room = n}
Leaving(n) == {q \in Requests :
                 /\ req[q].stage \in {"freed", "ready"}
                 /\ req[q].op \in {"move", "delete"}
                 /\ req[q].old # None
                 /\ req[q].resident.room = n}

(* The process stops, or a statement fails: what was written stays.        *)
Abandon(q) ==
  /\ req[q].stage \in InFlight
  /\ Reading(q, Moved(q, "failed"))
  /\ unsettled' = unsettled \cup {n \in Rooms : q \in Arriving(n) \cup Leaving(n)}
  /\ UNCHANGED <<rooms, residents, raced, unchecked>>

(* The number is free: the unique index on the owner's room numbers.       *)
Empty(row) == [row EXCEPT !.occupied = 0]
CreateRoom(n, row) ==
  /\ rooms[n] = None
  /\ WriteRoom(n, Empty(row))
  /\ UNCHANGED <<residents, req, raced, unsettled, unchecked>>

(* With an image the room is there while the image is uploaded, and is     *)
(* then saved again as it was created.                                     *)
CreateRoomWithImage(q, n, row) ==
  /\ req[q].stage = "unsent" /\ rooms[n] = None
  /\ WriteRoom(n, Empty(row))
  /\ Reading(q, [stage |-> "found", op |-> "room", user |-> None, placement |-> None,
                 room |-> n, found |-> Empty(row), old |-> None, resident |-> None,
                 reads |-> {<<"room", n>>}, stale |-> {}])
  /\ UNCHANGED <<residents, raced, unsettled, unchecked>>

Advance(q) == \/ Clear(q) \/ ClearBed(q) \/ Refuse(q) \/ RefuseAccount(q)
              \/ PlaceResident(q) \/ CommitImport(q) \/ SaveRoom(q)
              \/ FindOldRoom(q) \/ SaveOldRoom(q) \/ SaveResident(q)
              \/ DeleteResident(q)

Receive(q) ==
  \/ \E u \in Users, b \in Beds, active \in BOOLEAN :
       \/ \E n \in Rooms : StartMove(q, u, n, b, active)
       \/ StartEdit(q, u, b, active)
  \/ \E u \in Users, h \in Hostels, n \in Rooms, b \in Beds :
       StartCreate(q, u, h, n, b) \/ StartImportRow(q, u, h, n, b)
  \/ \E u \in Users : StartDelete(q, u)
  \/ \E n \in Rooms, row \in RoomEdits : StartRoomUpdate(q, n, row)

RoomsNext ==
  \/ \E q \in Requests : Receive(q) \/ Advance(q) \/ Abandon(q)
  \/ \E n \in Rooms, row \in RoomEdits :
       CreateRoom(n, row) \/ \E q \in Requests : CreateRoomWithImage(q, n, row)

RoomsSpec == RoomsInit /\ [][RoomsNext]_roomVars

-----------------------------------------------------------------------------
(* "The picked bed must not already be taken": two active residents of a   *)
(* hostel hold one bed only if a request placed one of them on readings    *)
(* that were old, or one of them was set active again, which checks no     *)
(* bed, or moved to a room of another hostel, where the beds of that       *)
(* hostel's residents are checked and the resident stays of its own.       *)
BedHeldOnce ==
  \A u, v \in Users :
    /\ u # v /\ residents[u] # None /\ residents[v] # None
    /\ residents[u].isActive /\ residents[v].isActive
    /\ residents[u].hostel = residents[v].hostel
    /\ residents[u].room = residents[v].room
    /\ residents[u].bed = residents[v].bed
    => residents[u].room \in raced \/ {u, v} \cap unchecked # {}

Occupants(n) == {u \in Users : LivesIn(u, n)}

(* rooms.occupied counts at least the residents of the room, active or     *)
(* not, give or take the requests between their two writes; a room written *)
(* on old readings (the save after an image's upload among them, once      *)
(* anyone has moved in), set by hand or left by a failed request is        *)
(* excepted.                                                               *)
CounterCoversRoom ==
  \A n \in Rooms \ (raced \cup unsettled) :
    rooms[n] # None =>
      Cardinality(Occupants(n)) <=
        rooms[n].occupied + Cardinality(Arriving(n)) + Cardinality(Leaving(n))

(* So no room of those takes more residents than it has beds.              *)
NeverOverfull ==
  \A n \in Rooms \ (raced \cup unsettled) :
    rooms[n] # None =>
      Cardinality(Occupants(n)) <=
        rooms[n].capacity + Cardinality(Arriving(n)) + Cardinality(Leaving(n))

Steps(q) == req'[q] # req[q] /\ req'[q].stage # req[q].stage

(* The plan's limit is passed only by an import, by setting a resident     *)
(* active, by a save of a resident that changed since it was read, or by a *)
(* creation that counted before another was added.                         *)
LimitPassedOnlyUncounted ==
  [][\A h \in Hostels :
       /\ Cardinality(ActiveOf(h)') > Cardinality(ActiveOf(h))
       /\ Cardinality(ActiveOf(h)') > ResidentLimit
       => \E q \in Requests :
            /\ Steps(q)
            /\ \/ req[q].op = "import" \/ Activates(q)
               \/ <<"resident", req[q].user>> \in req[q].stale
               \/ <<"count", h>> \in req[q].stale]_roomVars

(* A deleted resident comes back only by a new creation, or by an update   *)
(* that had read the row before it was deleted.                            *)
DeletedComesBackOnlyByRace ==
  [][\A u \in Users :
       residents[u] = None /\ residents'[u] # None =>
         \/ \E q \in Requests : Steps(q) /\ req[q].op \in {"create", "import"}
         \/ residents'[u].room \in raced']_roomVars

(* A room leaves its hostel only by an import of another hostel that names *)
(* its number, or by a save of an entity read before it was linked: no     *)
(* creation, update, move or deletion takes it away.                       *)
HostelKeepsItsRooms ==
  [][\A n \in Rooms :
       /\ rooms[n] # None /\ rooms[n].hostel # None
       /\ rooms'[n].hostel # rooms[n].hostel
       => \/ \E q \in Requests : Steps(q) /\ req[q].op = "import"
          \/ n \in raced']_roomVars
=============================================================================
