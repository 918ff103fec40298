------------------------- MODULE ResidentRooms_proofs -------------------------
(***************************************************************************)
(* For any accounts, hostels, rooms, beds and requests: the handlers keep  *)
(* their rows typed, hold no bed twice, keep a hostel's rooms, bring no    *)
(* deleted resident back, pass no plan's limit and count every resident of *)
(* a room, but where the history says that a reading was old.  The heart   *)
(* of the proof is that a reading is still true, or known to be old, until *)
(* its request writes.                                                     *)
(***************************************************************************)
EXTENDS ResidentRooms, FiniteSetTheorems, TLAPS

LEMMA PlacementTyped ==
  ASSUME NEW h \in Hostels, NEW n \in Rooms, NEW b \in Beds,
         NEW active \in BOOLEAN,
         NEW row, row = Placement(h, n, b, active)
  PROVE  row \in ResidentRow /\ row.hostel = h /\ row.room = n /\ row.bed = b
<1>1. row = [hostel |-> h, room |-> n, bed |-> b, isActive |-> active]
  BY DEF Placement
<1>2. [hostel |-> h, room |-> n, bed |-> b, isActive |-> active] \in ResidentRow
  BY DEF ResidentRow
<1>3. QED BY <1>1, <1>2

USE UsersAssumption, NoneAssumption, LimitsAssumption
  DEF UsersAssumption, NoneAssumption, LimitsAssumption

Placing == {"create", "import", "move"}
OfResident == {"move", "rebed", "edit", "delete"}

(* What a request carries, by what it asks for and where it is.            *)
Carries(r) ==
  /\ r \in Request /\ r.stage # "unsent"
  /\ r.op \in Placing \cup {"room"} => r.found \in RoomRow
  /\ r.op \in Placing \cup {"rebed", "edit"} => /\ r.placement \in ResidentRow
                                                /\ r.placement.room = r.room
  /\ r.op \in OfResident => r.resident \in ResidentRow
  /\ r.op # "room" => r.user \in Users
  /\ r.op = "move" => r.resident.room # r.room \/ r.resident.hostel # r.found.hostel
  /\ r.op = "move" /\ r.stage = "parting" /\ r.old # None =>
       r.resident.room # r.room \/ <<"room", r.room>> \in r.stale
  /\ r.op \in {"rebed", "edit"} => r.placement.hostel = r.resident.hostel
  /\ r.op = "edit" => /\ r.placement.hostel = r.resident.hostel
                      /\ r.placement.room = r.resident.room
                      /\ r.placement.bed = r.resident.bed
  /\ r.stage = "cleared" => r.op \in Placing
  /\ r.stage = "placed" => r.op = "create"
  /\ r.stage \in {"parting", "freed"} => r.op \in {"move", "delete"}
  /\ r.stage = "ready" => r.op \in {"move", "rebed"}

GoodRequest(r) == r = [stage |-> "unsent"] \/ Carries(r)

Shape == RoomsTypeOK /\ \A q \in Requests : GoodRequest(req[q])

-----------------------------------------------------------------------------
(* An item a request has read: it is known to be old, or P still holds.    *)
Holds(r, item, P) == item \in r.reads /\ (item \in r.stale \/ P)

BedFree(r) == \A v \in ActiveIn(r.placement.hostel, r.room) :
                residents[v].bed # r.placement.bed
OfHostel(n, h) == rooms[n] # None /\ rooms[n].hostel \in {h, None}

Knows(r) ==
  r.stage \in InFlight =>
    /\ r.op \in OfResident => Holds(r, <<"resident", r.user>>, residents[r.user] = r.resident)
    /\ r.op \in {"create", "move", "room"} =>
         Holds(r, <<"room", r.room>>, OfHostel(r.room, r.found.hostel))
    /\ r.stage = "parting" /\ r.old # None =>
         Holds(r, <<"room", r.resident.room>>, OfHostel(r.resident.room, r.old.hostel))
    /\ /\ r.stage \in {"cleared", "parting", "freed", "ready"}
       /\ r.op \in Placing \cup {"rebed"}
       => Holds(r, <<"beds", r.room>>, BedFree(r))
    /\ r.op = "create" /\ r.stage \in {"found", "cleared"} =>
         Holds(r, <<"count", r.placement.hostel>>, WithinLimit(r.placement.hostel))

ReadingsHold == \A q \in Requests : Knows(req[q])

IInv == Shape /\ ReadingsHold /\ BedHeldOnce

-----------------------------------------------------------------------------
(* A request as it goes on: the fields that change, one lemma each.        *)
LEMMA StageSet ==
  ASSUME NEW x \in Request, NEW s \in Stages,
         NEW y, y = [x EXCEPT !.stage = s]
  PROVE  /\ y \in Request /\ y.stage = s
         /\ y.op = x.op /\ y.user = x.user /\ y.placement = x.placement
         /\ y.room = x.room /\ y.found = x.found /\ y.old = x.old
         /\ y.resident = x.resident /\ y.reads = x.reads /\ y.stale = x.stale
BY DEF Request

LEMMA StaleSet ==
  ASSUME NEW x \in Request, NEW items \in SUBSET Items,
         NEW y, y = [x EXCEPT !.stale = items]
  PROVE  /\ y \in Request /\ y.stage = x.stage
         /\ y.op = x.op /\ y.user = x.user /\ y.placement = x.placement
         /\ y.room = x.room /\ y.found = x.found /\ y.old = x.old
         /\ y.resident = x.resident /\ y.reads = x.reads /\ y.stale = items
BY DEF Request

LEMMA ReadsSet ==
  ASSUME NEW x \in Request, NEW items \in SUBSET Items,
         NEW y, y = [x EXCEPT !.reads = items]
  PROVE  /\ y \in Request /\ y.stage = x.stage
         /\ y.op = x.op /\ y.user = x.user /\ y.placement = x.placement
         /\ y.room = x.room /\ y.found = x.found /\ y.old = x.old
         /\ y.resident = x.resident /\ y.reads = items /\ y.stale = x.stale
BY DEF Request

-----------------------------------------------------------------------------
(* What a step that writes residents and rooms tells the others: items     *)
(* covers all that changed.                                                *)
Covered(items) ==
  /\ \A u \in Users : residents'[u] # residents[u] =>
       /\ <<"resident", u>> \in items
       /\ residents[u] # None => /\ <<"beds", residents[u].room>> \in items
                                 /\ <<"count", residents[u].hostel>> \in items
       /\ residents'[u] # None => /\ <<"beds", residents'[u].room>> \in items
                                  /\ <<"count", residents'[u].hostel>> \in items
  /\ \A n \in Rooms : rooms[n] # None =>
       /\ rooms'[n] # None
       /\ <<"room", n>> \notin items => rooms'[n].hostel = rooms[n].hostel

LEMMA UncoveredStands ==
  ASSUME NEW items, Covered(items)
  PROVE  /\ \A u \in Users : <<"resident", u>> \notin items => residents'[u] = residents[u]
         /\ \A n \in Rooms : \A h : <<"room", n>> \notin items /\ OfHostel(n, h) => OfHostel(n, h)'
         /\ \A n \in Rooms : \A h : <<"beds", n>> \notin items =>
              \A v \in Users : /\ v \in ActiveIn(h, n)' <=> v \in ActiveIn(h, n)
                               /\ v \in ActiveIn(h, n) => residents'[v] = residents[v]
         /\ \A h : <<"count", h>> \notin items => WithinLimit(h)' = WithinLimit(h)
<1>1. \A u \in Users : <<"resident", u>> \notin items => residents'[u] = residents[u]
  BY DEF Covered
<1>2. \A n \in Rooms : \A h : <<"room", n>> \notin items /\ OfHostel(n, h) => OfHostel(n, h)'
  BY DEF Covered, OfHostel
<1>3. ASSUME NEW n \in Rooms, NEW h, <<"beds", n>> \notin items, NEW v \in Users
      PROVE  /\ v \in ActiveIn(h, n)' <=> v \in ActiveIn(h, n)
             /\ v \in ActiveIn(h, n) => residents'[v] = residents[v]
  BY <1>3 DEF Covered, ActiveIn, LivesIn
<1>4. ASSUME NEW h, <<"count", h>> \notin items
      PROVE  WithinLimit(h)' = WithinLimit(h)
  <2>1. ActiveOf(h)' = ActiveOf(h)
    BY <1>4 DEF Covered, ActiveOf
  <2>2. QED BY <2>1 DEF WithinLimit
<1>5. QED BY <1>1, <1>2, <1>3, <1>4

(* The others keep what they carry, and what they know.                    *)
LEMMA OthersStep ==
  ASSUME Shape, ReadingsHold, NEW q \in Requests, NEW r, NEW items, Step(q, r, items),
         Covered(items), NEW p \in Requests, p # q
  PROVE  GoodRequest(req[p])' /\ Knows(req[p])'
<1>1. req \in [Requests -> [stage: {"unsent"}] \cup Request] /\ GoodRequest(req[p])
      /\ Knows(req[p])
  BY DEF Shape, RoomsTypeOK, ReadingsHold
<1>2. CASE req[p].stage \notin InFlight
  <2>1. req'[p] = req[p]
    BY <1>2 DEF Step
  <2>2. QED BY <1>1, <1>2, <2>1 DEF GoodRequest, Carries, Knows
<1>3. CASE req[p].stage \in InFlight
  <2>1. PICK x \in Request : x = req[p] /\ Carries(x) /\ Knows(x) /\ x.stage \in InFlight
    <3>1. req[p] # [stage |-> "unsent"]
      BY <1>3 DEF InFlight
    <3>2. QED BY <1>1, <1>3, <3>1 DEF GoodRequest, Carries
  <2>2. x.stale \cup (x.reads \cap items) \in SUBSET Items
    BY <2>1 DEF Request
  <2>3. PICK y \in Request :
          /\ y = req'[p] /\ y.stage = x.stage
          /\ y.op = x.op /\ y.user = x.user /\ y.placement = x.placement
          /\ y.room = x.room /\ y.found = x.found /\ y.old = x.old
          /\ y.resident = x.resident /\ y.reads = x.reads
          /\ y.stale = x.stale \cup (x.reads \cap items)
    <3>1. req'[p] = [x EXCEPT !.stale = x.stale \cup (x.reads \cap items)]
      BY <1>3, <2>1 DEF Step
    <3>2. PICK y : y = req'[p]
      OBVIOUS
    <3>3. y = [x EXCEPT !.stale = x.stale \cup (x.reads \cap items)]
      BY <3>1, <3>2
    <3> HIDE <3>1
    <3>4. /\ y \in Request /\ y.stage = x.stage
          /\ y.op = x.op /\ y.user = x.user /\ y.placement = x.placement
          /\ y.room = x.room /\ y.found = x.found /\ y.old = x.old
          /\ y.resident = x.resident /\ y.reads = x.reads
          /\ y.stale = x.stale \cup (x.reads \cap items)
      BY <2>2, <3>3, StaleSet
    <3>5. QED BY <3>2, <3>4
  <2>4. Carries(y)
    BY <2>1, <2>3 DEF Carries
  <2>5. ASSUME NEW item, item \in x.reads, item \notin y.stale
        PROVE  item \notin x.stale /\ item \notin items
    BY <2>3, <2>5
  <2>6. x.op \in OfResident =>
          Holds(y, <<"resident", y.user>>, residents'[y.user] = y.resident)
    <3> SUFFICES ASSUME x.op \in OfResident
                 PROVE  Holds(y, <<"resident", y.user>>, residents'[y.user] = y.resident)
      OBVIOUS
    <3>1. /\ Holds(x, <<"resident", x.user>>, residents[x.user] = x.resident)
          /\ x.user \in Users
      BY <2>1 DEF Knows, Carries, OfResident
    <3>2. QED BY <2>3, <2>5, <3>1, UncoveredStands DEF Holds
  <2>7. x.op \in {"create", "move", "room"} =>
          Holds(y, <<"room", y.room>>, OfHostel(y.room, y.found.hostel)')
    <3>1. x.op \in {"create", "move", "room"} =>
            Holds(x, <<"room", x.room>>, OfHostel(x.room, x.found.hostel))
      BY <2>1 DEF Knows
    <3>2. x.room \in Rooms
      BY DEF Request
    <3>3. QED BY <2>3, <2>5, <3>1, <3>2, UncoveredStands DEF Holds
  <2>8. x.stage = "parting" /\ x.old # None =>
          Holds(y, <<"room", y.resident.room>>, OfHostel(y.resident.room, y.old.hostel)')
    <3>1. x.stage = "parting" /\ x.old # None =>
            /\ Holds(x, <<"room", x.resident.room>>, OfHostel(x.resident.room, x.old.hostel))
            /\ x.resident.room \in Rooms
      BY <2>1 DEF Knows, Carries, OfResident, ResidentRow
    <3>2. QED BY <2>3, <2>5, <3>1, UncoveredStands DEF Holds
  <2>9. /\ x.stage \in {"cleared", "parting", "freed", "ready"}
        /\ x.op \in Placing \cup {"rebed"}
        => Holds(y, <<"beds", y.room>>, BedFree(y)')
    <3> SUFFICES ASSUME x.stage \in {"cleared", "parting", "freed", "ready"},
                        x.op \in Placing \cup {"rebed"}
                 PROVE  Holds(y, <<"beds", y.room>>, BedFree(y)')
      OBVIOUS
    <3>1. Holds(x, <<"beds", x.room>>, BedFree(x)) /\ x.room \in Rooms
      BY <2>1 DEF Knows, Request
    <3>2. <<"beds", x.room>> \notin items /\ BedFree(x) => BedFree(y)'
      <4> SUFFICES ASSUME <<"beds", x.room>> \notin items, BedFree(x),
                          NEW v \in Users, v \in ActiveIn(x.placement.hostel, x.room)'
                   PROVE  residents'[v].bed # x.placement.bed
        BY <2>3 DEF BedFree, ActiveIn
      <4>1. v \in ActiveIn(x.placement.hostel, x.room) /\ residents'[v] = residents[v]
        BY <3>1, UncoveredStands
      <4>2. QED BY <4>1 DEF BedFree
    <3>3. QED BY <2>3, <2>5, <3>1, <3>2 DEF Holds
  <2>10. x.op = "create" /\ x.stage \in {"found", "cleared"} =>
           Holds(y, <<"count", y.placement.hostel>>, WithinLimit(y.placement.hostel)')
    <3>1. x.op = "create" /\ x.stage \in {"found", "cleared"} =>
            Holds(x, <<"count", x.placement.hostel>>, WithinLimit(x.placement.hostel))
      BY <2>1 DEF Knows
    <3>2. QED BY <2>3, <2>5, <3>1, UncoveredStands DEF Holds
  <2>11. Knows(y)'
    BY <2>3, <2>6, <2>7, <2>8, <2>9, <2>10 DEF Knows, Holds
  <2>12. QED BY <2>3, <2>4, <2>11 DEF GoodRequest
<1>4. QED BY <1>2, <1>3

-----------------------------------------------------------------------------
(* A request that goes on to r, all it writes covered by items.            *)
LEMMA RequestStep ==
  ASSUME IInv, NEW q \in Requests, NEW r, NEW items, Step(q, r, items), Covered(items),
         GoodRequest(r), Knows(r)',
         rooms' \in [Rooms -> RoomRow \cup {None}],
         residents' \in [Users -> ResidentRow \cup {None}],
         raced' \subseteq Rooms, unsettled' \subseteq Rooms, unchecked' \subseteq Users,
         BedHeldOnce'
  PROVE  IInv'
<1>0. req'[q] = r
  BY DEF Step
<1>1. \A p \in Requests \ {q} : GoodRequest(req[p])' /\ Knows(req[p])'
  BY OthersStep DEF IInv
<1>2. \A p \in Requests : GoodRequest(req'[p]) /\ Knows(req[p])'
  <2>1. GoodRequest(req'[q])
    BY <1>0
  <2>2. Knows(req[q])'
    BY <1>0 DEF Knows, Holds
  <2>3. QED BY <1>1, <2>1, <2>2 DEF GoodRequest, Carries
<1>3. req' \in [Requests -> [stage: {"unsent"}] \cup Request]
  <2>1. req' = [p \in Requests |-> req'[p]]
    BY DEF Step
  <2>2. \A p \in Requests : req'[p] \in [stage: {"unsent"}] \cup Request
    <3>1. ASSUME NEW p \in Requests
          PROVE  req'[p] = [stage |-> "unsent"] \/ req'[p] \in Request
      BY <1>2 DEF GoodRequest, Carries
    <3>2. QED BY <3>1
  <2>3. QED BY <2>1, <2>2
<1>4. QED BY <1>2, <1>3 DEF IInv, Shape, RoomsTypeOK, ReadingsHold, GoodRequest, Carries

(* One that only reads.                                                    *)
LEMMA ReadingStep ==
  ASSUME IInv, NEW q \in Requests, NEW r, Reading(q, r), Carries(r), Knows(r),
         UNCHANGED <<rooms, residents, raced, unchecked>>, unsettled' \subseteq Rooms
  PROVE  IInv'
<1>1. Covered({})
  BY DEF Covered
<1>2. Knows(r)'
  BY DEF Knows, Holds, OfHostel, BedFree, ActiveIn, LivesIn, WithinLimit, ActiveOf
<1>3. BedHeldOnce'
  BY DEF IInv, BedHeldOnce
<1>4. QED BY <1>1, <1>2, <1>3, RequestStep
       DEF Reading, IInv, Shape, RoomsTypeOK, GoodRequest

(* One that writes the row of a resident: the bed it gives is free, or not *)
(* known to be, or was the resident's already.                             *)
LEMMA BedStep ==
  ASSUME IInv, NEW u \in Users, NEW row \in ResidentRow,
         residents' = [residents EXCEPT ![u] = row],
         raced \subseteq raced', unchecked \ {u} \subseteq unchecked',
         row.isActive =>
           \/ row.room \in raced' \/ u \in unchecked'
           \/ \A v \in ActiveIn(row.hostel, row.room) : residents[v].bed # row.bed
           \/ /\ residents[u] # None /\ residents[u].isActive
              /\ residents[u].hostel = row.hostel /\ residents[u].room = row.room
              /\ residents[u].bed = row.bed
              /\ unchecked' = unchecked
  PROVE  BedHeldOnce'
<1>1. residents \in [Users -> ResidentRow \cup {None}]
  BY DEF IInv, Shape, RoomsTypeOK
<1>2. residents'[u] = row /\ \A v \in Users \ {u} : residents'[v] = residents[v]
  BY <1>1
<1> DEFINE Same(x, y) == /\ x # None /\ y # None /\ x.isActive /\ y.isActive
                         /\ x.hostel = y.hostel /\ x.room = y.room /\ x.bed = y.bed
<1>3. ASSUME NEW v \in Users \ {u}, Same(row, residents[v])
      PROVE  row.room \in raced' \/ {u, v} \cap unchecked' # {}
  <2>1. v \in ActiveIn(row.hostel, row.room)
    BY <1>3 DEF ActiveIn, LivesIn
  <2>2. CASE row.room \in raced' \/ u \in unchecked'
    BY <2>2
  <2>3. CASE \A x \in ActiveIn(row.hostel, row.room) : residents[x].bed # row.bed
    BY <1>3, <2>1, <2>3
  <2>4. CASE /\ residents[u] # None /\ residents[u].isActive
             /\ residents[u].hostel = row.hostel /\ residents[u].room = row.room
             /\ residents[u].bed = row.bed
             /\ unchecked' = unchecked
    <3>1. Same(residents[u], residents[v])
      BY <1>3, <2>4
    <3>2. residents[u].room \in raced \/ {u, v} \cap unchecked # {}
      BY <3>1 DEF IInv, BedHeldOnce
    <3>3. QED BY <2>4, <3>2
  <2>5. QED BY <1>3, <2>2, <2>3, <2>4
<1>4. ASSUME NEW v \in Users \ {u}, NEW w \in Users \ {u}, v # w,
             Same(residents[v], residents[w])
      PROVE  residents[v].room \in raced' \/ {v, w} \cap unchecked' # {}
  <2>1. residents[v].room \in raced \/ {v, w} \cap unchecked # {}
    BY <1>4 DEF IInv, BedHeldOnce
  <2>2. QED BY <2>1
<1>5. QED
  <2> SUFFICES ASSUME NEW v \in Users, NEW w \in Users, v # w,
                      Same(residents'[v], residents'[w])
               PROVE  residents'[v].room \in raced' \/ {v, w} \cap unchecked' # {}
    BY DEF BedHeldOnce
  <2>1. CASE v = u
    BY <1>2, <1>3, <2>1
  <2>2. CASE w = u
    BY <1>2, <1>3, <2>2
  <2>3. CASE v # u /\ w # u
    BY <1>2, <1>4, <2>3
  <2>4. QED BY <2>1, <2>2, <2>3

-----------------------------------------------------------------------------
LEMMA ItemsTyped ==
  /\ \A n \in Rooms : <<"room", n>> \in Items /\ <<"beds", n>> \in Items
  /\ \A u \in Users : <<"resident", u>> \in Items
  /\ \A h \in Hostels : <<"count", h>> \in Items
BY DEF Items

(* The first reading of a request.                                         *)
LEMMA StartStep ==
  ASSUME IInv, NEW q \in Requests, NEW op \in Ops, NEW u \in Users \cup {None},
         NEW placement \in ResidentRow \cup {None}, NEW n \in Rooms,
         NEW found \in RoomRow \cup {None}, NEW resident \in ResidentRow \cup {None},
         NEW reads \in SUBSET Items,
         Start(q, op, u, placement, n, found, resident, reads),
         op \in Placing \cup {"room"} => found \in RoomRow,
         op \in Placing \cup {"rebed", "edit"} => /\ placement \in ResidentRow
                                                 /\ placement.room = n,
         op \in OfResident => /\ resident \in ResidentRow
                              /\ residents[u] = resident
                              /\ <<"resident", u>> \in reads,
         op # "room" => u \in Users,
         op = "move" => resident.room # n \/ resident.hostel # found.hostel,
         op \in {"rebed", "edit"} => placement.hostel = resident.hostel,
         op = "edit" => /\ placement.hostel = resident.hostel
                        /\ placement.room = resident.room
                        /\ placement.bed = resident.bed,
         op \in {"create", "move", "room"} => /\ <<"room", n>> \in reads
                                              /\ OfHostel(n, found.hostel),
         op = "create" => /\ <<"count", placement.hostel>> \in reads
                          /\ WithinLimit(placement.hostel)
  PROVE  IInv'
<1>1. PICK r : r = [stage |-> "found", op |-> op, user |-> u, placement |-> placement,
                    room |-> n, found |-> found, old |-> None, resident |-> resident,
                    reads |-> reads, stale |-> {}]
  OBVIOUS
<1>2. r \in Request
  BY <1>1 DEF Request, Stages, InFlight
<1>3. Carries(r)
  BY <1>1, <1>2 DEF Carries
<1>4. Knows(r)
  BY <1>1 DEF Knows, Holds
<1>5. Reading(q, r)
  BY <1>1 DEF Start
<1>6. QED BY <1>3, <1>4, <1>5, ReadingStep DEF Start, IInv, Shape, RoomsTypeOK

LEMMA InitIInv == RoomsInit => IInv
<1> SUFFICES ASSUME RoomsInit PROVE IInv
  OBVIOUS
<1>1. PICK o \in Opening : rooms = o.rooms /\ residents = o.residents
  BY DEF RoomsInit
<1>2. Consistent(rooms, residents)
  BY <1>1, OpeningAssumption DEF OpeningAssumption
<1>3. \A q \in Requests : req[q] = [stage |-> "unsent"]
  BY DEF RoomsInit
<1>4. Shape
  BY <1>2, <1>3 DEF RoomsInit, Shape, RoomsTypeOK, GoodRequest, Consistent
<1>5. ReadingsHold
  BY <1>3 DEF ReadingsHold, Knows, InFlight
<1>6. BedHeldOnce
  BY <1>2 DEF BedHeldOnce, Consistent
<1>7. QED BY <1>4, <1>5, <1>6 DEF IInv

LEMMA StartCreateStep ==
  ASSUME IInv, NEW q \in Requests, NEW u \in Users, NEW h \in Hostels, NEW n \in Rooms,
         NEW b \in Beds, StartCreate(q, u, h, n, b)
  PROVE  IInv'
<1>1. rooms[n] \in RoomRow
  BY DEF StartCreate, TakesResidents, IInv, Shape, RoomsTypeOK
<1>2. PICK found : found = [rooms[n] EXCEPT !.hostel = h]
  OBVIOUS
<1>3. found \in RoomRow /\ found.hostel = h
  BY <1>1, <1>2 DEF RoomRow
<1>4. OfHostel(n, h)
  BY DEF StartCreate, TakesResidents, OfHostel
<1>0. PICK active \in BOOLEAN : active = TRUE
  OBVIOUS
<1>5. PICK placement : placement = Placement(h, n, b, active)
  OBVIOUS
<1> placement \in ResidentRow /\ placement.hostel = h /\ placement.room = n
  BY <1>5, PlacementTyped
<1>6. Start(q, "create", u, placement, n, found, None, {<<"room", n>>, <<"count", h>>})
  BY <1>0, <1>2, <1>5 DEF StartCreate
<1>7. {<<"room", n>>, <<"count", h>>} \in SUBSET Items
  BY ItemsTyped
<1>8. WithinLimit(h)
  BY DEF StartCreate
<1> HIDE <1>2
<1>9. QED BY <1>3, <1>4, <1>6, <1>7, <1>8, StartStep DEF Ops, Placing, OfResident

LEMMA StartImportRowStep ==
  ASSUME IInv, NEW q \in Requests, NEW u \in Users, NEW h \in Hostels, NEW n \in Rooms,
         NEW b \in Beds, StartImportRow(q, u, h, n, b)
  PROVE  IInv'
<1>1. rooms[n] \in RoomRow
  BY DEF StartImportRow, TakesResidents, IInv, Shape, RoomsTypeOK
<1>2. PICK found : found = [rooms[n] EXCEPT !.hostel = h]
  OBVIOUS
<1>3. found \in RoomRow
  BY <1>1, <1>2 DEF RoomRow
<1>0. PICK active \in BOOLEAN : active = TRUE
  OBVIOUS
<1>4. PICK placement : placement = Placement(h, n, b, active)
  OBVIOUS
<1> placement \in ResidentRow /\ placement.room = n
  BY <1>4, PlacementTyped
<1>5. Start(q, "import", u, placement, n, found, None, {<<"room", n>>})
  BY <1>0, <1>2, <1>4 DEF StartImportRow
<1>6. {<<"room", n>>} \in SUBSET Items
  BY ItemsTyped
<1>7. QED BY <1>3, <1>5, <1>6, StartStep DEF Ops, Placing, OfResident

LEMMA StartMoveStep ==
  ASSUME IInv, NEW q \in Requests, NEW u \in Users, NEW n \in Rooms, NEW b \in Beds,
         NEW active \in BOOLEAN, StartMove(q, u, n, b, active)
  PROVE  IInv'
<1>1. /\ rooms[n] \in RoomRow /\ residents[u] \in ResidentRow
      /\ rooms[n].hostel \in Hostels
  BY DEF StartMove, TakesResidents, IInv, Shape, RoomsTypeOK, RoomRow
<1>2. OfHostel(n, rooms[n].hostel)
  BY DEF StartMove, TakesResidents, OfHostel
<1>3. PICK placement : placement = Placement(rooms[n].hostel, n, b, active)
  OBVIOUS
<1> placement \in ResidentRow /\ placement.room = n
  BY <1>1, <1>3, PlacementTyped DEF ResidentRow
<1>4. Start(q, "move", u, placement, n, rooms[n], residents[u],
            {<<"room", n>>, <<"resident", u>>})
  BY <1>3 DEF StartMove
<1>5. {<<"room", n>>, <<"resident", u>>} \in SUBSET Items
  BY ItemsTyped
<1>6. residents[u].room # n \/ residents[u].hostel # rooms[n].hostel
  BY DEF StartMove
<1>7. QED BY <1>1, <1>2, <1>4, <1>5, <1>6, StartStep DEF Ops, Placing, OfResident

LEMMA StartEditStep ==
  ASSUME IInv, NEW q \in Requests, NEW u \in Users, NEW b \in Beds,
         NEW active \in BOOLEAN, StartEdit(q, u, b, active)
  PROVE  IInv'
<1>1. residents[u] \in ResidentRow /\ residents[u].room \in Rooms
  BY DEF StartEdit, IInv, Shape, RoomsTypeOK, ResidentRow
<1>2. PICK placement : placement = [residents[u] EXCEPT !.bed = b, !.isActive = active]
  OBVIOUS
<1>3. /\ placement \in ResidentRow /\ placement.hostel = residents[u].hostel
      /\ placement.room = residents[u].room /\ placement.bed = b
  BY <1>1, <1>2 DEF ResidentRow
<1>4. PICK op : op = IF b = residents[u].bed THEN "edit" ELSE "rebed"
  OBVIOUS
<1>5. Start(q, op, u, placement, residents[u].room, None, residents[u], {<<"resident", u>>})
  BY <1>2, <1>4 DEF StartEdit
<1>6. {<<"resident", u>>} \in SUBSET Items
  BY ItemsTyped
<1>7. op \in {"edit", "rebed"} /\ (op = "edit" => b = residents[u].bed)
  BY <1>4
<1>8. QED BY <1>1, <1>3, <1>5, <1>6, <1>7, StartStep DEF Ops, Placing, OfResident

LEMMA StartDeleteStep ==
  ASSUME IInv, NEW q \in Requests, NEW u \in Users, StartDelete(q, u)
  PROVE  IInv'
<1>1. residents[u] \in ResidentRow /\ residents[u].room \in Rooms
  BY DEF StartDelete, IInv, Shape, RoomsTypeOK, ResidentRow
<1>2. Start(q, "delete", u, None, residents[u].room, None, residents[u], {<<"resident", u>>})
  BY DEF StartDelete
<1>3. {<<"resident", u>>} \in SUBSET Items
  BY ItemsTyped
<1>4. QED BY <1>1, <1>2, <1>3, StartStep DEF Ops, Placing, OfResident

LEMMA StartRoomUpdateStep ==
  ASSUME IInv, NEW q \in Requests, NEW n \in Rooms, NEW row \in RoomEdits,
         StartRoomUpdate(q, n, row)
  PROVE  IInv'
<1>1. row \in RoomRow
  BY EditsAssumption DEF EditsAssumption
<1>2. OfHostel(n, row.hostel)
  BY DEF StartRoomUpdate, OfHostel
<1>3. Start(q, "room", None, None, n, row, None, {<<"room", n>>})
  BY DEF StartRoomUpdate
<1>4. {<<"room", n>>} \in SUBSET Items
  BY ItemsTyped
<1>5. QED BY <1>1, <1>2, <1>3, <1>4, StartStep DEF Ops, Placing, OfResident

-----------------------------------------------------------------------------
(* A request in flight, as it stands.                                      *)
LEMMA InFlightCarries ==
  ASSUME IInv, NEW q \in Requests, req[q].stage \in InFlight
  PROVE  req[q] \in Request /\ Carries(req[q]) /\ Knows(req[q])
<1>1. req[q] # [stage |-> "unsent"]
  BY DEF InFlight
<1>2. QED BY <1>1 DEF IInv, Shape, ReadingsHold, GoodRequest, Carries

LEMMA TakenCounted ==
  ASSUME NEW h, NEW n
  PROVE  Cardinality(ActiveIn(h, n)) \in Nat
<1>1. IsFiniteSet(ActiveIn(h, n))
  BY FS_Subset DEF ActiveIn
<1>2. QED BY <1>1, FS_CardinalityType

LEMMA OneMoreTyped ==
  ASSUME NEW row \in RoomRow, NEW c \in Nat, NEW new, new = OneMoreThan(row, c)
  PROVE  new \in RoomRow /\ new.hostel = row.hostel
<1>1. PICK o \in Nat : o = c + 1
  OBVIOUS
<1>2. PICK t \in RoomStatus : t = IF row.status = "AVAILABLE" /\ c + 1 >= row.capacity
                                  THEN "OCCUPIED" ELSE row.status
  BY DEF RoomRow, RoomStatus
<1>3. new = [row EXCEPT !.occupied = o, !.status = t]
  BY <1>1, <1>2 DEF OneMoreThan
<1> HIDE <1>1, <1>2
<1>4. QED BY <1>3 DEF RoomRow

LEMMA OneLessTyped ==
  ASSUME NEW row \in RoomRow, NEW new, new = OneLess(row)
  PROVE  new \in RoomRow /\ new.hostel = row.hostel
<1>1. PICK c \in Nat : c = IF row.occupied = 0 THEN 0 ELSE row.occupied - 1
  BY DEF RoomRow
<1>2. PICK t \in RoomStatus : t = IF row.status = "OCCUPIED" /\ c < row.capacity
                                  THEN "AVAILABLE" ELSE row.status
  BY DEF RoomRow, RoomStatus
<1>3. new = [row EXCEPT !.occupied = c, !.status = t]
  BY <1>1, <1>2 DEF OneLess
<1> HIDE <1>1, <1>2
<1>4. QED BY <1>3 DEF RoomRow

LEMMA ClearStep ==
  ASSUME IInv, NEW q \in Requests, Clear(q)
  PROVE  IInv'
<1>1. PICK x : x = req[q]
  OBVIOUS
<1>2. x \in Request /\ Carries(x) /\ Knows(x) /\ x.stage = "found" /\ x.op \in Placing
  BY <1>1, InFlightCarries DEF Clear, InFlight, Placing
<1>3. PICK row : row = OneMoreThan(x.found, Counted(q))
  OBVIOUS
<1>4. row \in RoomRow /\ row.hostel = x.found.hostel
  <2>1. x.found \in RoomRow /\ x.found.occupied \in Nat
    BY <1>2 DEF Carries, RoomRow
  <2>2. Counted(q) \in Nat
    BY <1>1, <2>1, TakenCounted DEF Counted, TakenIn, Larger
  <2>3. QED BY <1>3, <2>1, <2>2, OneMoreTyped
<1>5. PICK items : items = x.reads \cup {<<"beds", x.room>>}
  OBVIOUS
<1>6. items \in SUBSET Items
  BY <1>2, <1>5, ItemsTyped DEF Request
<1>7. PICK y : y = [x EXCEPT !.stage = "cleared"]
  OBVIOUS
<1>8. PICK z : z = [y EXCEPT !.found = row, !.reads = items]
  OBVIOUS
<1>9. /\ z \in Request /\ z.stage = "cleared" /\ z.op = x.op /\ z.user = x.user
      /\ z.placement = x.placement /\ z.room = x.room /\ z.found = row /\ z.old = x.old
      /\ z.resident = x.resident /\ z.reads = items /\ z.stale = x.stale
  <2>1. /\ y \in Request /\ y.stage = "cleared"
        /\ y.op = x.op /\ y.user = x.user /\ y.placement = x.placement
        /\ y.room = x.room /\ y.found = x.found /\ y.old = x.old
        /\ y.resident = x.resident /\ y.reads = x.reads /\ y.stale = x.stale
    BY <1>2, <1>7, StageSet DEF Stages, InFlight
  <2>2. y \in Request
    BY <2>1
  <2>3. /\ z \in Request /\ z.stage = y.stage
        /\ z.op = y.op /\ z.user = y.user /\ z.placement = y.placement
        /\ z.room = y.room /\ z.found = row /\ z.old = y.old
        /\ z.resident = y.resident /\ z.reads = items /\ z.stale = y.stale
    BY <1>4, <1>6, <1>8, <2>2 DEF Request
  <2>4. QED BY <2>1, <2>3
<1>10. Reading(q, z)
  BY <1>1, <1>3, <1>5, <1>7, <1>8 DEF Clear, Moved, WithBeds
<1>11. Carries(z)
  BY <1>2, <1>4, <1>9 DEF Carries, Placing
<1>12. BedFree(z)
  BY <1>1, <1>9 DEF Clear, BedFree, BedTaken, TakenIn
<1>13. Knows(z)
  BY <1>2, <1>4, <1>5, <1>9, <1>12 DEF Knows, Holds, InFlight, Placing, OfResident
<1>14. QED BY <1>10, <1>11, <1>13, ReadingStep DEF Clear, IInv, Shape, RoomsTypeOK

LEMMA ClearBedStep ==
  ASSUME IInv, NEW q \in Requests, ClearBed(q)
  PROVE  IInv'
<1>1. PICK x : x = req[q]
  OBVIOUS
<1>2. x \in Request /\ Carries(x) /\ Knows(x) /\ x.stage = "found" /\ x.op = "rebed"
  BY <1>1, InFlightCarries DEF ClearBed, InFlight
<1>3. PICK items : items = x.reads \cup {<<"beds", x.room>>}
  OBVIOUS
<1>4. items \in SUBSET Items
  BY <1>2, <1>3, ItemsTyped DEF Request
<1>5. PICK y : y = [x EXCEPT !.stage = "ready"]
  OBVIOUS
<1>6. PICK z : z = [y EXCEPT !.reads = items]
  OBVIOUS
<1>7. /\ z \in Request /\ z.stage = "ready" /\ z.op = x.op /\ z.user = x.user
      /\ z.placement = x.placement /\ z.room = x.room /\ z.found = x.found
      /\ z.old = x.old /\ z.resident = x.resident /\ z.reads = items
      /\ z.stale = x.stale
  <2>1. /\ y \in Request /\ y.stage = "ready"
        /\ y.op = x.op /\ y.user = x.user /\ y.placement = x.placement
        /\ y.room = x.room /\ y.found = x.found /\ y.old = x.old
        /\ y.resident = x.resident /\ y.reads = x.reads /\ y.stale = x.stale
    BY <1>2, <1>5, StageSet DEF Stages, InFlight
  <2>2. QED BY <1>4, <1>6, <2>1, ReadsSet
<1>8. Reading(q, z)
  BY <1>1, <1>3, <1>5, <1>6 DEF ClearBed, Moved, WithBeds
<1>9. Carries(z)
  BY <1>2, <1>7 DEF Carries, Placing
<1>10. BedFree(z)
  BY <1>1, <1>7 DEF ClearBed, BedFree, BedTaken, TakenIn
<1>11. Knows(z)
  BY <1>2, <1>3, <1>7, <1>10 DEF Knows, Holds, InFlight, Placing, OfResident
<1>12. QED BY <1>8, <1>9, <1>11, ReadingStep DEF ClearBed, IInv, Shape, RoomsTypeOK

(* A request that ends without a write.                                    *)
LEMMA EndStep ==
  ASSUME IInv, NEW q \in Requests, req[q].stage \in InFlight,
         NEW s \in {"refused", "failed"}, Reading(q, Moved(q, s)),
         UNCHANGED <<rooms, residents, raced, unchecked>>, unsettled' \subseteq Rooms
  PROVE  IInv'
<1>1. PICK x : x = req[q]
  OBVIOUS
<1>2. x \in Request /\ Carries(x)
  BY <1>1, InFlightCarries
<1>3. PICK y : y = [x EXCEPT !.stage = s]
  OBVIOUS
<1>4. /\ y \in Request /\ y.stage = s
      /\ y.op = x.op /\ y.user = x.user /\ y.placement = x.placement
      /\ y.room = x.room /\ y.found = x.found /\ y.old = x.old
      /\ y.resident = x.resident /\ y.reads = x.reads /\ y.stale = x.stale
  BY <1>2, <1>3, StageSet DEF Stages
<1>5. Carries(y)
  BY <1>2, <1>4 DEF Carries
<1>6. Knows(y)
  BY <1>4 DEF Knows, InFlight
<1>7. Reading(q, y)
  BY <1>1, <1>3 DEF Moved
<1>8. QED BY <1>5, <1>6, <1>7, ReadingStep

LEMMA RefuseStep ==
  ASSUME IInv, NEW q \in Requests, Refuse(q) \/ RefuseAccount(q) \/ Abandon(q)
  PROVE  IInv'
<1>1. unsettled \subseteq Rooms
  BY DEF IInv, Shape, RoomsTypeOK
<1>2. CASE Refuse(q)
  BY <1>1, <1>2, EndStep DEF Refuse, InFlight
<1>3. CASE RefuseAccount(q)
  BY <1>1, <1>3, EndStep DEF RefuseAccount, InFlight
<1>4. CASE Abandon(q)
  BY <1>1, <1>4, EndStep DEF Abandon
<1>5. QED BY <1>2, <1>3, <1>4

LEMMA FindOldRoomStep ==
  ASSUME IInv, NEW q \in Requests, FindOldRoom(q)
  PROVE  IInv'
<1>1. PICK x : x = req[q]
  OBVIOUS
<1>2. /\ x \in Request /\ Carries(x) /\ Knows(x)
      /\ \/ x.stage = "cleared" /\ x.op = "move"
         \/ x.stage = "found" /\ x.op = "delete"
  BY <1>1, InFlightCarries DEF FindOldRoom, InFlight
<1>3. x.resident.room \in Rooms
  BY <1>2 DEF Carries, OfResident, ResidentRow
<1>4. PICK mine \in BOOLEAN :
        mine <=> OldRoom(q) # None /\ OldRoom(q).hostel = x.resident.hostel
  OBVIOUS
<1>5. PICK row : row = IF mine THEN OneLess(OldRoom(q)) ELSE None
  OBVIOUS
<1>6. /\ row \in RoomRow \cup {None}
      /\ row # None => OfHostel(x.resident.room, row.hostel)
  <2>1. CASE mine
    <3>1. OldRoom(q) = rooms[x.resident.room] /\ OldRoom(q) \in RoomRow
      BY <1>1, <1>3, <1>4, <2>1 DEF OldRoom, IInv, Shape, RoomsTypeOK
    <3>2. row \in RoomRow /\ row.hostel = OldRoom(q).hostel
      BY <1>5, <2>1, <3>1, OneLessTyped
    <3>3. QED BY <1>4, <2>1, <3>1, <3>2 DEF OfHostel
  <2>2. CASE ~mine
    BY <1>5, <2>2
  <2>3. QED BY <2>1, <2>2
<1>7. PICK items : items = x.reads \cup {<<"room", x.resident.room>>}
  OBVIOUS
<1>8. items \in SUBSET Items
  BY <1>2, <1>3, <1>7, ItemsTyped DEF Request
<1>9. PICK y : y = [x EXCEPT !.stage = "parting"]
  OBVIOUS
<1>10. /\ y \in Request /\ y.stage = "parting"
       /\ y.op = x.op /\ y.user = x.user /\ y.placement = x.placement
       /\ y.room = x.room /\ y.found = x.found /\ y.old = x.old
       /\ y.resident = x.resident /\ y.reads = x.reads /\ y.stale = x.stale
  BY <1>2, <1>9, StageSet DEF Stages, InFlight
<1>11. PICK z : z = [y EXCEPT !.old = row, !.reads = items]
  OBVIOUS
<1>12. /\ z \in Request /\ z.stage = "parting" /\ z.op = x.op /\ z.user = x.user
       /\ z.placement = x.placement /\ z.room = x.room /\ z.found = x.found
       /\ z.old = row /\ z.resident = x.resident /\ z.reads = items
       /\ z.stale = x.stale
  <2>1. y \in Request
    BY <1>10
  <2>2. /\ z \in Request /\ z.stage = y.stage
        /\ z.op = y.op /\ z.user = y.user /\ z.placement = y.placement
        /\ z.room = y.room /\ z.found = y.found /\ z.old = row
        /\ z.resident = y.resident /\ z.reads = items /\ z.stale = y.stale
    BY <1>6, <1>8, <1>11, <2>1 DEF Request
  <2>3. QED BY <1>10, <2>2
<1>13. Reading(q, z)
  <2>1. z = [y EXCEPT !.old = row, !.reads = y.reads \cup {<<"room", x.resident.room>>}]
    BY <1>7, <1>10, <1>11
  <2>2. QED BY <1>1, <1>4, <1>5, <1>9, <2>1 DEF FindOldRoom, Moved
<1>14. Carries(z)
  <2>1. ASSUME x.op = "move", row # None, x.resident.room = x.room
        PROVE  <<"room", x.room>> \in x.stale
    <3>1. rooms[x.room] # None /\ rooms[x.room].hostel = x.resident.hostel
      BY <1>1, <1>4, <1>5, <2>1 DEF OldRoom
    <3>2. /\ Holds(x, <<"room", x.room>>, OfHostel(x.room, x.found.hostel))
          /\ x.resident.hostel # x.found.hostel /\ x.resident.hostel \in Hostels
      BY <1>2, <2>1 DEF Knows, InFlight, Carries, OfResident, ResidentRow
    <3>3. QED BY <3>1, <3>2 DEF Holds, OfHostel
  <2>2. QED BY <1>2, <1>12, <2>1 DEF Carries, Placing
<1>15. Knows(z)
  <2>1. BedFree(z) <=> BedFree(x)
    BY <1>12 DEF BedFree
  <2>2. QED BY <1>2, <1>6, <1>7, <1>12, <2>1 DEF Knows, Holds, InFlight, Placing, OfResident
<1>16. QED BY <1>13, <1>14, <1>15, ReadingStep DEF FindOldRoom, IInv, Shape, RoomsTypeOK

-----------------------------------------------------------------------------
LEMMA RaceTyped ==
  ASSUME IInv, NEW q \in Requests, NEW written \in SUBSET Rooms, Race(q, written)
  PROVE  /\ raced \subseteq raced' /\ raced' \subseteq Rooms
         /\ \A n \in written : OldFor(q, n) => n \in raced'
BY DEF Race, IInv, Shape, RoomsTypeOK

LEMMA BedsStand ==
  ASSUME IInv, residents' = residents, raced \subseteq raced', unchecked' = unchecked
  PROVE  BedHeldOnce'
BY DEF IInv, BedHeldOnce

(* What changes with a resident's row is covered by Changed.               *)
LEMMA ChangedCovers ==
  ASSUME IInv, NEW u \in Users, NEW row \in ResidentRow \cup {None}, WriteResident(u, row),
         NEW items, Changed(u, row) \subseteq items,
         \A n \in Rooms : rooms[n] # None =>
           /\ rooms'[n] # None
           /\ <<"room", n>> \notin items => rooms'[n].hostel = rooms[n].hostel
  PROVE  Covered(items) /\ residents' \in [Users -> ResidentRow \cup {None}]
<1>1. residents \in [Users -> ResidentRow \cup {None}]
  BY DEF IInv, Shape, RoomsTypeOK
<1>2. residents'[u] = row /\ \A v \in Users \ {u} : residents'[v] = residents[v]
  BY <1>1 DEF WriteResident
<1>3. \A r \in {residents[u], row} \ {None} :
        /\ <<"resident", u>> \in items
        /\ <<"beds", r.room>> \in items /\ <<"count", r.hostel>> \in items
  BY DEF Changed
<1>4. QED BY <1>1, <1>2, <1>3 DEF Covered, WriteResident

(* The new row has the bed its request asked for, which it knows to be     *)
(* free or knows too little of.                                            *)
LEMMA BedKnown ==
  ASSUME IInv, NEW q \in Requests,
         \/ req[q].stage = "cleared" /\ req[q].op \in {"create", "import"}
         \/ req[q].stage = "ready",
         OldFor(q, req[q].room) => req[q].room \in raced'
  PROVE  \/ req[q].placement.room \in raced'
         \/ \A v \in ActiveIn(req[q].placement.hostel, req[q].placement.room) :
              residents[v].bed # req[q].placement.bed
<1>1. PICK x : x = req[q]
  OBVIOUS
<1>2. Carries(x) /\ Knows(x)
  BY <1>1, InFlightCarries DEF InFlight
<1>3. /\ x.placement.room = x.room
      /\ <<"beds", x.room>> \in x.stale \/ BedFree(x)
  BY <1>1, <1>2 DEF Carries, Knows, Holds, Placing, InFlight
<1>4. QED BY <1>1, <1>3 DEF OldFor, BedFree

LEMMA PlaceResidentStep ==
  ASSUME IInv, NEW q \in Requests, PlaceResident(q)
  PROVE  IInv'
<1>1. PICK x : x = req[q]
  OBVIOUS
<1>2. /\ x \in Request /\ Carries(x) /\ Knows(x) /\ x.stage = "cleared" /\ x.op = "create"
      /\ x.user \in Users /\ x.room \in Rooms /\ x.placement \in ResidentRow
  BY <1>1, InFlightCarries DEF PlaceResident, InFlight, Carries, Placing, Request
<1>3. PICK y : y = [x EXCEPT !.stage = "placed"]
  OBVIOUS
<1>4. /\ y \in Request /\ y.stage = "placed"
      /\ y.op = x.op /\ y.user = x.user /\ y.placement = x.placement
      /\ y.room = x.room /\ y.found = x.found /\ y.old = x.old
      /\ y.resident = x.resident /\ y.reads = x.reads /\ y.stale = x.stale
  BY <1>2, <1>3, StageSet DEF Stages, InFlight
<1>5. PICK items : items = Changed(x.user, x.placement)
  OBVIOUS
<1>6. Step(q, y, items)
  BY <1>1, <1>3, <1>5 DEF PlaceResident, Moved
<1>7. Covered(items) /\ residents' \in [Users -> ResidentRow \cup {None}]
  BY <1>1, <1>2, <1>5, ChangedCovers DEF PlaceResident
<1>8. Carries(y)
  BY <1>2, <1>4 DEF Carries, Placing
<1>9. Knows(y)'
  <2>1. Holds(y, <<"room", y.room>>, OfHostel(y.room, y.found.hostel)')
    BY <1>1, <1>2, <1>4 DEF Knows, Holds, InFlight, OfHostel, PlaceResident
  <2>2. QED BY <1>2, <1>4, <2>1 DEF Knows, Holds, OfResident
<1>10. /\ raced \subseteq raced' /\ raced' \subseteq Rooms
       /\ OldFor(q, x.room) => x.room \in raced'
  BY <1>1, <1>2, RaceTyped DEF PlaceResident
<1>11. BedHeldOnce'
  <2>1. \/ x.placement.room \in raced'
        \/ \A v \in ActiveIn(x.placement.hostel, x.placement.room) :
             residents[v].bed # x.placement.bed
    BY <1>1, <1>2, <1>10, BedKnown
  <2>2. QED BY <1>1, <1>2, <1>10, <2>1, BedStep DEF PlaceResident, WriteResident
<1>12. QED BY <1>6, <1>7, <1>8, <1>9, <1>10, <1>11, RequestStep
        DEF PlaceResident, IInv, Shape, RoomsTypeOK, GoodRequest

LEMMA CommitImportStep ==
  ASSUME IInv, NEW q \in Requests, CommitImport(q)
  PROVE  IInv'
<1>1. PICK x : x = req[q]
  OBVIOUS
<1>2. /\ x \in Request /\ Carries(x) /\ Knows(x) /\ x.stage = "cleared" /\ x.op = "import"
      /\ x.user \in Users /\ x.room \in Rooms /\ x.placement \in ResidentRow
      /\ x.found \in RoomRow
  BY <1>1, InFlightCarries DEF CommitImport, InFlight, Carries, Placing, Request
<1>3. PICK y : y = [x EXCEPT !.stage = "done"]
  OBVIOUS
<1>4. /\ y \in Request /\ y.stage = "done"
      /\ y.op = x.op /\ y.user = x.user /\ y.placement = x.placement
      /\ y.room = x.room /\ y.found = x.found /\ y.old = x.old
      /\ y.resident = x.resident /\ y.reads = x.reads /\ y.stale = x.stale
  BY <1>2, <1>3, StageSet DEF Stages
<1>5. PICK items : items = Changed(x.user, x.placement) \cup {<<"room", x.room>>}
  OBVIOUS
<1>6. Step(q, y, items)
  BY <1>1, <1>3, <1>5 DEF CommitImport, Moved
<1>7. /\ rooms' \in [Rooms -> RoomRow \cup {None}] /\ rooms'[x.room] = x.found
      /\ \A n \in Rooms \ {x.room} : rooms'[n] = rooms[n]
  BY <1>1, <1>2 DEF CommitImport, WriteRoom, IInv, Shape, RoomsTypeOK
<1>8. Covered(items) /\ residents' \in [Users -> ResidentRow \cup {None}]
  <2>1. \A n \in Rooms : rooms[n] # None =>
          /\ rooms'[n] # None
          /\ <<"room", n>> \notin items => rooms'[n].hostel = rooms[n].hostel
    BY <1>2, <1>5, <1>7
  <2>2. Changed(x.user, x.placement) \subseteq items
    BY <1>5
  <2>3. WriteResident(x.user, x.placement)
    BY <1>1 DEF CommitImport
  <2>4. QED BY <1>2, <2>1, <2>2, <2>3, ChangedCovers
<1>9. Carries(y) /\ Knows(y)'
  BY <1>2, <1>4 DEF Carries, Placing, Knows, InFlight
<1>10. /\ raced \subseteq raced' /\ raced' \subseteq Rooms
       /\ OldFor(q, x.room) => x.room \in raced'
  BY <1>1, <1>2, RaceTyped DEF CommitImport
<1>11. BedHeldOnce'
  <2>1. \/ x.placement.room \in raced'
        \/ \A v \in ActiveIn(x.placement.hostel, x.placement.room) :
             residents[v].bed # x.placement.bed
    BY <1>1, <1>2, <1>10, BedKnown
  <2>2. QED BY <1>1, <1>2, <1>10, <2>1, BedStep DEF CommitImport, WriteResident
<1>12. QED BY <1>6, <1>7, <1>8, <1>9, <1>10, <1>11, RequestStep
        DEF CommitImport, IInv, Shape, RoomsTypeOK, GoodRequest

LEMMA SaveRoomStep ==
  ASSUME IInv, NEW q \in Requests, SaveRoom(q)
  PROVE  IInv'
<1>1. PICK x : x = req[q]
  OBVIOUS
<1>2. /\ x \in Request /\ Carries(x) /\ Knows(x) /\ x.room \in Rooms
      /\ \/ x.stage = "placed" /\ x.op = "create"
         \/ x.stage = "found" /\ x.op = "room"
         \/ x.stage = "freed" /\ x.op = "move"
  BY <1>1, InFlightCarries DEF SaveRoom, InFlight, Carries, Request
<1>3. x.found \in RoomRow
  BY <1>2 DEF Carries, Placing
<1>4. PICK s \in {"ready", "done"} : s = IF x.op = "move" THEN "ready" ELSE "done"
  OBVIOUS
<1>5. PICK y : y = [x EXCEPT !.stage = s]
  OBVIOUS
<1>6. /\ y \in Request /\ y.stage = s
      /\ y.op = x.op /\ y.user = x.user /\ y.placement = x.placement
      /\ y.room = x.room /\ y.found = x.found /\ y.old = x.old
      /\ y.resident = x.resident /\ y.reads = x.reads /\ y.stale = x.stale
  BY <1>2, <1>5, StageSet DEF Stages, InFlight
<1>7. Step(q, y, {<<"room", x.room>>})
  BY <1>1, <1>4, <1>5 DEF SaveRoom, Moved
<1>8. /\ rooms' \in [Rooms -> RoomRow \cup {None}] /\ rooms'[x.room] = x.found
      /\ \A n \in Rooms \ {x.room} : rooms'[n] = rooms[n]
      /\ residents' = residents
  BY <1>1, <1>2, <1>3 DEF SaveRoom, WriteRoom, IInv, Shape, RoomsTypeOK
<1>9. Covered({<<"room", x.room>>})
  BY <1>2, <1>3, <1>8 DEF Covered
<1>10. Carries(y)
  BY <1>2, <1>4, <1>6 DEF Carries, Placing
<1>11. Knows(y)'
  <2>1. CASE x.op = "move"
    <3>1. OfHostel(x.room, x.found.hostel)'
      BY <1>3, <1>8 DEF OfHostel
    <3>2. BedFree(y)' <=> BedFree(x)
      BY <1>6, <1>8 DEF BedFree, ActiveIn, LivesIn
    <3>3. x.stage = "freed" /\ y.stage = "ready"
      BY <1>2, <1>4, <1>6, <2>1
    <3>4. /\ Holds(x, <<"resident", x.user>>, residents[x.user] = x.resident)
          /\ Holds(x, <<"room", x.room>>, OfHostel(x.room, x.found.hostel))
          /\ Holds(x, <<"beds", x.room>>, BedFree(x))
      BY <1>2, <2>1, <3>3 DEF Knows, InFlight, Placing, OfResident
    <3>5. /\ Holds(y, <<"resident", y.user>>, residents'[y.user] = y.resident)
          /\ Holds(y, <<"room", y.room>>, OfHostel(y.room, y.found.hostel)')
          /\ Holds(y, <<"beds", y.room>>, BedFree(y)')
      BY <1>6, <1>8, <3>1, <3>2, <3>4 DEF Holds
    <3>6. QED BY <1>6, <2>1, <3>3, <3>5 DEF Knows, Holds
  <2>2. CASE x.op # "move"
    BY <1>4, <1>6, <2>2 DEF Knows, InFlight
  <2>3. QED BY <2>1, <2>2
<1>12. raced \subseteq raced' /\ raced' \subseteq Rooms
  BY <1>1, <1>2, RaceTyped DEF SaveRoom
<1>13. BedHeldOnce'
  BY <1>12, BedsStand DEF SaveRoom
<1>14. unsettled' \subseteq Rooms
  BY <1>1, <1>2 DEF SaveRoom, IInv, Shape, RoomsTypeOK
<1>15. QED BY <1>7, <1>8, <1>9, <1>10, <1>11, <1>12, <1>13, <1>14, RequestStep
        DEF SaveRoom, IInv, Shape, RoomsTypeOK, GoodRequest

LEMMA SaveOldRoomStep ==
  ASSUME IInv, NEW q \in Requests, SaveOldRoom(q)
  PROVE  IInv'
<1>1. PICK x : x = req[q]
  OBVIOUS
<1>2. /\ x \in Request /\ Carries(x) /\ Knows(x)
      /\ x.stage = "parting" /\ x.op \in {"move", "delete"}
  BY <1>1, InFlightCarries DEF SaveOldRoom, InFlight, Carries
<1>3. /\ x.resident.room \in Rooms
      /\ x.op = "move" /\ x.old # None =>
           x.resident.room # x.room \/ <<"room", x.room>> \in x.stale
  BY <1>2 DEF Carries, OfResident, ResidentRow
<1>4. PICK y : y = [x EXCEPT !.stage = "freed"]
  OBVIOUS
<1>5. /\ y \in Request /\ y.stage = "freed"
      /\ y.op = x.op /\ y.user = x.user /\ y.placement = x.placement
      /\ y.room = x.room /\ y.found = x.found /\ y.old = x.old
      /\ y.resident = x.resident /\ y.reads = x.reads /\ y.stale = x.stale
  BY <1>2, <1>4, StageSet DEF Stages, InFlight
<1>6. Carries(y)
  BY <1>2, <1>5 DEF Carries, Placing
<1>7. CASE x.old = None
  <2>1. Reading(q, y) /\ UNCHANGED <<rooms, residents, raced, unchecked, unsettled>>
    BY <1>1, <1>4, <1>7 DEF SaveOldRoom, Moved
  <2>2. BedFree(y) <=> BedFree(x)
    BY <1>5 DEF BedFree
  <2>3. Knows(y)
    BY <1>2, <1>5, <2>2 DEF Knows, Holds, InFlight, Placing, OfResident
  <2>4. QED BY <1>6, <2>1, <2>3, ReadingStep DEF IInv, Shape, RoomsTypeOK
<1>8. CASE x.old # None
  <2>1. x.old \in RoomRow
    BY <1>2, <1>8 DEF Request
  <2>2. Step(q, y, {<<"room", x.resident.room>>})
    BY <1>1, <1>4, <1>8 DEF SaveOldRoom, Moved
  <2>3. /\ rooms' \in [Rooms -> RoomRow \cup {None}]
        /\ rooms'[x.resident.room] = x.old
        /\ \A n \in Rooms \ {x.resident.room} : rooms'[n] = rooms[n]
        /\ residents' = residents
    BY <1>1, <1>3, <1>8, <2>1 DEF SaveOldRoom, WriteRoom, IInv, Shape, RoomsTypeOK
  <2>4. Covered({<<"room", x.resident.room>>})
    BY <1>3, <2>1, <2>3 DEF Covered
  <2>5. Knows(y)'
    <3>1. BedFree(y)' <=> BedFree(x)
      BY <1>5, <2>3 DEF BedFree, ActiveIn, LivesIn
    <3>2. /\ Holds(x, <<"resident", x.user>>, residents[x.user] = x.resident)
          /\ x.op = "move" => /\ Holds(x, <<"room", x.room>>, OfHostel(x.room, x.found.hostel))
                              /\ Holds(x, <<"beds", x.room>>, BedFree(x))
      BY <1>2 DEF Knows, InFlight, Placing, OfResident
    <3>3. x.op = "move" =>
            \/ <<"room", x.room>> \in x.stale
            \/ OfHostel(x.room, x.found.hostel)' <=> OfHostel(x.room, x.found.hostel)
      BY <1>2, <1>3, <1>8, <2>3 DEF OfHostel, Request
    <3>4. /\ Holds(y, <<"resident", y.user>>, residents'[y.user] = y.resident)
          /\ y.op = "move" => /\ Holds(y, <<"room", y.room>>, OfHostel(y.room, y.found.hostel)')
                              /\ Holds(y, <<"beds", y.room>>, BedFree(y)')
      BY <1>5, <2>3, <3>1, <3>2, <3>3 DEF Holds
    <3>5. QED BY <1>2, <1>5, <3>4 DEF Knows, Holds, Placing, OfResident
  <2>6. raced \subseteq raced' /\ raced' \subseteq Rooms
    BY <1>1, <1>3, <1>8, RaceTyped DEF SaveOldRoom
  <2>7. BedHeldOnce'
    BY <2>3, <2>6, BedsStand DEF SaveOldRoom
  <2>8. QED BY <1>6, <2>2, <2>3, <2>4, <2>5, <2>6, <2>7, RequestStep
         DEF SaveOldRoom, IInv, Shape, RoomsTypeOK, GoodRequest
<1>9. QED BY <1>7, <1>8

LEMMA RoomsOfTyped ==
  ASSUME IInv, NEW q \in Requests, req[q].stage \in InFlight, req[q].op # "room"
  PROVE  RoomsOf(q) \subseteq Rooms
<1>1. /\ req[q].resident \in ResidentRow \cup {None}
      /\ req[q].placement \in ResidentRow \cup {None}
      /\ residents[req[q].user] \in ResidentRow \cup {None}
  BY InFlightCarries DEF Carries, Request, IInv, Shape, RoomsTypeOK
<1>2. QED
  BY <1>1 DEF RoomsOf, ResidentRow

LEMMA SaveResidentStep ==
  ASSUME IInv, NEW q \in Requests, SaveResident(q)
  PROVE  IInv'
<1>1. PICK x : x = req[q]
  OBVIOUS
<1>2. /\ x \in Request /\ Carries(x) /\ Knows(x) /\ x.stage \in InFlight
      /\ \/ x.stage = "ready" /\ x.op \in {"move", "rebed"}
         \/ x.stage = "found" /\ x.op = "edit"
  BY <1>1, InFlightCarries DEF SaveResident, InFlight, Carries
<1>3. /\ x.user \in Users /\ x.room \in Rooms
      /\ x.placement \in ResidentRow /\ x.placement.room = x.room
  BY <1>2 DEF Carries, Placing, Request
<1>20. PICK row : row = Saved(q)
  OBVIOUS
<1>21. /\ row \in ResidentRow /\ row.hostel = x.resident.hostel
       /\ row.room = x.room /\ row.bed = x.placement.bed
       /\ row.isActive = x.placement.isActive
       /\ x.op \in {"rebed", "edit"} => row.hostel = x.placement.hostel
  <2>1. x.resident \in ResidentRow
    BY <1>2 DEF Carries, OfResident
  <2>2. row = [x.placement EXCEPT !.hostel = x.resident.hostel]
    BY <1>1, <1>20 DEF Saved
  <2>3. QED BY <1>2, <1>3, <2>1, <2>2 DEF ResidentRow, Carries
<1>4. PICK y : y = [x EXCEPT !.stage = "done"]
  OBVIOUS
<1>5. /\ y \in Request /\ y.stage = "done"
      /\ y.op = x.op /\ y.user = x.user /\ y.placement = x.placement
      /\ y.room = x.room /\ y.found = x.found /\ y.old = x.old
      /\ y.resident = x.resident /\ y.reads = x.reads /\ y.stale = x.stale
  BY <1>2, <1>4, StageSet DEF Stages
<1>6. PICK items : items = Changed(x.user, row)
  OBVIOUS
<1>7. Step(q, y, items)
  BY <1>1, <1>4, <1>6, <1>20 DEF SaveResident, Moved
<1>8. Covered(items) /\ residents' \in [Users -> ResidentRow \cup {None}]
  BY <1>1, <1>3, <1>6, <1>20, <1>21, ChangedCovers DEF SaveResident
<1>9. Carries(y) /\ Knows(y)'
  BY <1>2, <1>5 DEF Carries, Placing, Knows, InFlight
<1>10. /\ raced \subseteq raced' /\ raced' \subseteq Rooms
       /\ OldFor(q, x.room) => x.room \in raced'
  <2>1. RoomsOf(q) \subseteq Rooms /\ x.room \in RoomsOf(q)
    BY <1>1, <1>2, <1>3, RoomsOfTyped DEF RoomsOf
  <2>2. QED BY <2>1, RaceTyped DEF SaveResident
<1>11. /\ unchecked' \subseteq Users /\ unchecked \ {x.user} \subseteq unchecked'
       /\ x.op = "edit" => unchecked' = IF Activates(q) THEN unchecked \cup {x.user}
                                        ELSE unchecked
       /\ x.op # "edit" /\ x.placement.hostel # x.resident.hostel =>
            x.user \in unchecked'
  BY <1>1, <1>3 DEF SaveResident, IInv, Shape, RoomsTypeOK
<1>12. BedHeldOnce'
  <2> SUFFICES
        row.isActive =>
          \/ row.room \in raced' \/ x.user \in unchecked'
          \/ \A v \in ActiveIn(row.hostel, row.room) : residents[v].bed # row.bed
          \/ /\ residents[x.user] # None /\ residents[x.user].isActive
             /\ residents[x.user].hostel = row.hostel
             /\ residents[x.user].room = row.room
             /\ residents[x.user].bed = row.bed
             /\ unchecked' = unchecked
    BY <1>1, <1>3, <1>10, <1>11, <1>20, <1>21, BedStep DEF SaveResident, WriteResident
  <2>1. CASE x.stage = "ready" /\ x.placement.hostel = x.resident.hostel
    BY <1>1, <1>3, <1>10, <1>21, <2>1, BedKnown
  <2>2. CASE x.stage = "ready" /\ x.placement.hostel # x.resident.hostel
    BY <1>2, <1>11, <2>2
  <2>3. CASE x.stage = "found" /\ x.op = "edit"
    <3>1. /\ x.resident \in ResidentRow /\ x.resident # None
          /\ row.hostel = x.resident.hostel
          /\ row.room = x.resident.room /\ row.bed = x.resident.bed
      BY <1>2, <1>3, <1>21, <2>3 DEF Carries, OfResident
    <3>2. <<"resident", x.user>> \in x.stale \/ residents[x.user] = x.resident
      BY <1>2, <2>3 DEF Knows, Holds, OfResident
    <3>3. <<"resident", x.user>> \in x.stale => row.room \in raced'
      BY <1>1, <1>10, <1>21 DEF OldFor
    <3>4. row.isActive /\ ~x.resident.isActive => x.user \in unchecked'
      BY <1>1, <1>11, <1>21, <2>3 DEF Activates
    <3>5. row.isActive /\ x.resident.isActive => unchecked' = unchecked
      BY <1>1, <1>11, <1>21, <2>3 DEF Activates
    <3>6. QED BY <3>1, <3>2, <3>3, <3>4, <3>5
  <2>4. QED BY <1>2, <2>1, <2>2, <2>3
<1>13. QED BY <1>7, <1>8, <1>9, <1>10, <1>11, <1>12, RequestStep
        DEF SaveResident, IInv, Shape, RoomsTypeOK, GoodRequest

LEMMA DeleteResidentStep ==
  ASSUME IInv, NEW q \in Requests, DeleteResident(q)
  PROVE  IInv'
<1>1. PICK x : x = req[q]
  OBVIOUS
<1>2. /\ x \in Request /\ Carries(x) /\ x.stage = "freed" /\ x.op = "delete"
      /\ x.stage \in InFlight /\ x.user \in Users
  BY <1>1, InFlightCarries DEF DeleteResident, InFlight, Carries
<1>3. PICK y : y = [x EXCEPT !.stage = "done"]
  OBVIOUS
<1>4. /\ y \in Request /\ y.stage = "done"
      /\ y.op = x.op /\ y.user = x.user /\ y.placement = x.placement
      /\ y.room = x.room /\ y.found = x.found /\ y.old = x.old
      /\ y.resident = x.resident /\ y.reads = x.reads /\ y.stale = x.stale
  BY <1>2, <1>3, StageSet DEF Stages
<1>5. PICK items : items = Changed(x.user, None)
  OBVIOUS
<1>6. Step(q, y, items)
  BY <1>1, <1>3, <1>5 DEF DeleteResident, Moved
<1>7. Covered(items) /\ residents' \in [Users -> ResidentRow \cup {None}]
  BY <1>1, <1>2, <1>5, ChangedCovers DEF DeleteResident
<1>8. Carries(y) /\ Knows(y)'
  BY <1>2, <1>4 DEF Carries, Placing, Knows, InFlight
<1>9. raced \subseteq raced' /\ raced' \subseteq Rooms
  <2>1. RoomsOf(q) \subseteq Rooms
    BY <1>1, <1>2, RoomsOfTyped
  <2>2. QED BY <2>1, RaceTyped DEF DeleteResident
<1>10. unchecked' = unchecked \ {x.user} /\ unchecked \subseteq Users
  BY <1>1 DEF DeleteResident, IInv, Shape, RoomsTypeOK
<1>11. BedHeldOnce'
  <2>1. residents'[x.user] = None /\ \A v \in Users \ {x.user} : residents'[v] = residents[v]
    BY <1>1, <1>2 DEF DeleteResident, WriteResident, IInv, Shape, RoomsTypeOK
  <2>2. QED BY <1>9, <1>10, <2>1 DEF IInv, BedHeldOnce
<1>12. QED BY <1>6, <1>7, <1>8, <1>9, <1>10, <1>11, RequestStep
        DEF DeleteResident, IInv, Shape, RoomsTypeOK, GoodRequest

LEMMA CreateRoomStep ==
  ASSUME IInv, NEW n \in Rooms, NEW row \in RoomEdits, CreateRoom(n, row)
  PROVE  IInv'
<1>1. row \in RoomRow
  BY EditsAssumption DEF EditsAssumption
<1>2. PICK new : new = Empty(row)
  OBVIOUS
<1>3. new \in RoomRow
  BY <1>1, <1>2 DEF RoomRow, Empty
<1>4. /\ rooms' \in [Rooms -> RoomRow \cup {None}] /\ rooms[n] = None
      /\ \A m \in Rooms \ {n} : rooms'[m] = rooms[m]
      /\ residents' = residents
  BY <1>2, <1>3 DEF CreateRoom, WriteRoom, IInv, Shape, RoomsTypeOK
<1>5. Covered({})
  BY <1>4 DEF Covered
<1>6. ASSUME NEW x \in Request, Carries(x), Knows(x)
      PROVE  Knows(x)'
  <2>1. \A h : /\ OfHostel(x.room, h) => OfHostel(x.room, h)'
               /\ x.stage = "parting" /\ x.old # None /\ OfHostel(x.resident.room, h) =>
                    OfHostel(x.resident.room, h)'
    <3>1. /\ x.room \in Rooms
          /\ x.stage = "parting" => x.resident.room \in Rooms
      BY <1>6 DEF Carries, OfResident, ResidentRow, Request
    <3>2. QED BY <1>4, <3>1 DEF OfHostel
  <2>2. BedFree(x)' <=> BedFree(x)
    BY <1>4 DEF BedFree, ActiveIn, LivesIn
  <2>3. \A h : WithinLimit(h)' <=> WithinLimit(h)
    BY <1>4 DEF WithinLimit, ActiveOf
  <2>4. QED BY <1>4, <1>6, <2>1, <2>2, <2>3 DEF Knows, Holds
<1>7. ASSUME NEW q \in Requests PROVE Knows(req[q])'
  <2>1. req'[q] = req[q] /\ GoodRequest(req[q]) /\ Knows(req[q])
    BY DEF CreateRoom, IInv, Shape, ReadingsHold
  <2>2. CASE Carries(req[q])
    <3>1. PICK x \in Request : x = req[q] /\ Carries(x) /\ Knows(x)
      BY <2>1, <2>2 DEF Carries
    <3>2. Knows(x)'
      BY <1>6, <3>1
    <3>3. QED BY <2>1, <3>1, <3>2 DEF Knows, Holds, BedFree
  <2>3. CASE req[q] = [stage |-> "unsent"]
    BY <2>1, <2>3 DEF Knows, InFlight
  <2>4. QED BY <2>1, <2>2, <2>3 DEF GoodRequest
<1>8. BedHeldOnce'
  BY BedsStand DEF CreateRoom
<1>9. QED
  BY <1>4, <1>7, <1>8
  DEF CreateRoom, IInv, Shape, ReadingsHold, RoomsTypeOK, GoodRequest, Carries

LEMMA CreateRoomWithImageStep ==
  ASSUME IInv, NEW q \in Requests, NEW n \in Rooms, NEW row \in RoomEdits,
         CreateRoomWithImage(q, n, row)
  PROVE  IInv'
<1>1. row \in RoomRow
  BY EditsAssumption DEF EditsAssumption
<1>2. PICK new : new = Empty(row)
  OBVIOUS
<1>3. new \in RoomRow
  BY <1>1, <1>2 DEF RoomRow, Empty
<1>4. /\ rooms' \in [Rooms -> RoomRow \cup {None}] /\ rooms[n] = None
      /\ rooms'[n] = new
      /\ \A m \in Rooms \ {n} : rooms'[m] = rooms[m]
      /\ residents' = residents
  BY <1>2, <1>3 DEF CreateRoomWithImage, WriteRoom, IInv, Shape, RoomsTypeOK
<1>5. Covered({})
  BY <1>4 DEF Covered
<1>6. PICK r : r = [stage |-> "found", op |-> "room", user |-> None, placement |-> None,
                    room |-> n, found |-> new, old |-> None, resident |-> None,
                    reads |-> {<<"room", n>>}, stale |-> {}]
  OBVIOUS
<1>7. Step(q, r, {})
  BY <1>2, <1>6 DEF CreateRoomWithImage, Reading
<1>8. r \in Request
  BY <1>3, <1>6, ItemsTyped DEF Request, Stages, InFlight, Ops
<1>9. Carries(r)
  BY <1>3, <1>6, <1>8 DEF Carries, Placing, OfResident
<1>10. OfHostel(n, new.hostel)'
  BY <1>3, <1>4 DEF OfHostel
<1>11. Knows(r)'
  BY <1>6, <1>10 DEF Knows, Holds, Placing, OfResident
<1>12. BedHeldOnce'
  BY BedsStand DEF CreateRoomWithImage
<1>13. QED
  BY <1>4, <1>5, <1>7, <1>9, <1>11, <1>12, RequestStep
  DEF CreateRoomWithImage, IInv, Shape, RoomsTypeOK, GoodRequest

LEMMA NextIInv == IInv /\ [RoomsNext]_roomVars => IInv'
<1> SUFFICES ASSUME IInv, [RoomsNext]_roomVars PROVE IInv'
  OBVIOUS
<1>1. ASSUME NEW q \in Requests, Receive(q) PROVE IInv'
  BY <1>1, StartCreateStep, StartImportRowStep, StartMoveStep, StartEditStep,
     StartDeleteStep, StartRoomUpdateStep DEF Receive
<1>2. ASSUME NEW q \in Requests, Advance(q) PROVE IInv'
  BY <1>2, ClearStep, ClearBedStep, RefuseStep, PlaceResidentStep, CommitImportStep,
     SaveRoomStep, FindOldRoomStep, SaveOldRoomStep, SaveResidentStep,
     DeleteResidentStep DEF Advance
<1>3. ASSUME NEW q \in Requests, Abandon(q) PROVE IInv'
  BY <1>3, RefuseStep
<1>4. ASSUME NEW n \in Rooms, NEW row \in RoomEdits,
             CreateRoom(n, row) \/ \E q \in Requests : CreateRoomWithImage(q, n, row)
      PROVE  IInv'
  BY <1>4, CreateRoomStep, CreateRoomWithImageStep
<1>5. CASE UNCHANGED roomVars
  <2> USE <1>5 DEF roomVars
  <2>1. Shape'
    BY DEF IInv, Shape, RoomsTypeOK, GoodRequest, Carries
  <2>2. ASSUME NEW q \in Requests PROVE Knows(req[q])'
    <3>1. PICK x : x = req[q] /\ x = req'[q] /\ Knows(x)
      BY DEF IInv, ReadingsHold
    <3>2. Knows(x)'
      BY <3>1 DEF Knows, Holds, OfHostel, BedFree, ActiveIn, LivesIn, WithinLimit,
                  ActiveOf
    <3>3. QED BY <3>1, <3>2 DEF Knows, Holds, BedFree
  <2>3. BedHeldOnce'
    BY DEF IInv, BedHeldOnce
  <2>4. QED BY <2>1, <2>2, <2>3 DEF IInv, ReadingsHold
<1>6. QED BY <1>1, <1>2, <1>3, <1>4, <1>5 DEF RoomsNext

LEMMA SpecIInv == RoomsSpec => []IInv
BY InitIInv, NextIInv, PTL DEF RoomsSpec

(* The rows stay typed in every interleaving.                              *)
THEOREM RoomsTyped == RoomsSpec => []RoomsTypeOK
<1>1. IInv => RoomsTypeOK
  BY DEF IInv, Shape
<1>2. QED BY <1>1, SpecIInv, PTL

(* No bed is held twice, but by a placement on old readings, or after a    *)
(* resident was set active again or moved to a room of another hostel.     *)
THEOREM NoBedHeldTwice == RoomsSpec => []BedHeldOnce
<1>1. IInv => BedHeldOnce
  BY DEF IInv
<1>2. QED BY <1>1, SpecIInv, PTL

-----------------------------------------------------------------------------
(* The steps that write the residents table, and those that write rooms.   *)
LEMMA ReceiveReads ==
  ASSUME NEW q \in Requests, Receive(q)
  PROVE  UNCHANGED <<rooms, residents>>
<1>1. ASSUME NEW op, NEW u, NEW placement, NEW n, NEW found, NEW resident, NEW reads,
             Start(q, op, u, placement, n, found, resident, reads)
      PROVE  UNCHANGED <<rooms, residents>>
  BY <1>1 DEF Start
<1>2. ASSUME NEW u \in Users, NEW h \in Hostels, NEW n \in Rooms, NEW b \in Beds,
             StartCreate(q, u, h, n, b) \/ StartImportRow(q, u, h, n, b)
      PROVE  UNCHANGED <<rooms, residents>>
  BY <1>1, <1>2 DEF StartCreate, StartImportRow
<1>3. ASSUME NEW u \in Users, NEW n \in Rooms, NEW b \in Beds, NEW active \in BOOLEAN,
             StartMove(q, u, n, b, active)
      PROVE  UNCHANGED <<rooms, residents>>
  BY <1>1, <1>3 DEF StartMove
<1>4. ASSUME NEW u \in Users, NEW b \in Beds, NEW active \in BOOLEAN,
             StartEdit(q, u, b, active)
      PROVE  UNCHANGED <<rooms, residents>>
  BY <1>1, <1>4 DEF StartEdit
<1>5. ASSUME NEW u \in Users, StartDelete(q, u)
      PROVE  UNCHANGED <<rooms, residents>>
  BY <1>1, <1>5 DEF StartDelete
<1>6. ASSUME NEW n \in Rooms, NEW row \in RoomEdits, StartRoomUpdate(q, n, row)
      PROVE  UNCHANGED <<rooms, residents>>
  BY <1>1, <1>6 DEF StartRoomUpdate
<1>7. QED BY <1>2, <1>3, <1>4, <1>5, <1>6 DEF Receive

LEMMA ResidentWrites ==
  ASSUME IInv, [RoomsNext]_roomVars, residents' # residents
  PROVE  \E q \in Requests : \/ PlaceResident(q) \/ CommitImport(q)
                             \/ SaveResident(q) \/ DeleteResident(q)
<1>1. RoomsNext
  BY DEF roomVars
<1>2. \A q \in Requests : ~Receive(q) /\ ~Abandon(q)
  BY ReceiveReads DEF Abandon
<1>3. ASSUME NEW q \in Requests, Advance(q)
      PROVE  PlaceResident(q) \/ CommitImport(q) \/ SaveResident(q) \/ DeleteResident(q)
  BY <1>3 DEF Advance, Clear, ClearBed, Refuse, RefuseAccount, SaveRoom, FindOldRoom,
              SaveOldRoom
<1>4. QED BY <1>1, <1>2, <1>3 DEF RoomsNext, CreateRoom, CreateRoomWithImage

LEMMA RoomWrites ==
  ASSUME IInv, [RoomsNext]_roomVars, rooms' # rooms
  PROVE  \/ \E q \in Requests : CommitImport(q) \/ SaveRoom(q) \/ SaveOldRoom(q)
         \/ \E n \in Rooms, row \in RoomEdits :
              CreateRoom(n, row) \/ \E q \in Requests : CreateRoomWithImage(q, n, row)
<1>1. RoomsNext
  BY DEF roomVars
<1>2. \A q \in Requests : ~Receive(q) /\ ~Abandon(q)
  BY ReceiveReads DEF Abandon
<1>3. ASSUME NEW q \in Requests, Advance(q)
      PROVE  CommitImport(q) \/ SaveRoom(q) \/ SaveOldRoom(q)
  BY <1>3 DEF Advance, Clear, ClearBed, Refuse, RefuseAccount, PlaceResident,
              FindOldRoom, SaveResident, DeleteResident
<1>4. QED BY <1>1, <1>2, <1>3 DEF RoomsNext

(* A request that goes on is seen to.                                      *)
LEMMA StageMoves ==
  ASSUME IInv, NEW q \in Requests, req[q].stage \in InFlight, NEW s \in Stages,
         s # req[q].stage, NEW items, Step(q, Moved(q, s), items)
  PROVE  Steps(q)
<1>1. PICK x \in Request : x = req[q]
  BY InFlightCarries
<1>2. PICK y : y = [x EXCEPT !.stage = s]
  OBVIOUS
<1>3. y.stage = s
  BY <1>1, <1>2, StageSet
<1>4. req'[q] = y
  BY <1>1, <1>2 DEF Step, Moved
<1>5. QED BY <1>3, <1>4 DEF Steps

(* A deleted resident comes back only by a creation, an import, or a save  *)
(* of a row read before.                                                   *)
THEOREM DeletedStaysDeleted == RoomsSpec => DeletedComesBackOnlyByRace
<1>1. ASSUME IInv, [RoomsNext]_roomVars, NEW u \in Users,
             residents[u] = None, residents'[u] # None
      PROVE  \/ \E q \in Requests : Steps(q) /\ req[q].op \in {"create", "import"}
             \/ residents'[u].room \in raced'
  <2>1. PICK q \in Requests : \/ PlaceResident(q) \/ CommitImport(q)
                              \/ SaveResident(q) \/ DeleteResident(q)
    BY <1>1, ResidentWrites
  <2>2. CASE PlaceResident(q)
    BY <1>1, <2>2, StageMoves DEF PlaceResident, InFlight, Stages
  <2>3. CASE CommitImport(q)
    BY <1>1, <2>3, StageMoves DEF CommitImport, InFlight, Stages
  <2>4. CASE SaveResident(q)
    <3>1. PICK x : x = req[q]
      OBVIOUS
    <3>2. /\ Carries(x) /\ Knows(x) /\ x.stage \in InFlight /\ x.op \in OfResident
          /\ x.op # "room"
      BY <1>1, <2>4, <3>1, InFlightCarries
      DEF SaveResident, InFlight, Carries, OfResident
    <3>3. residents' = [residents EXCEPT ![x.user] = Saved(q)]
      BY <2>4, <3>1 DEF SaveResident, WriteResident
    <3>4. u = x.user /\ residents'[u].room = x.placement.room /\ x.placement # None
      <4>1. u = x.user /\ residents'[u] = Saved(q)
        BY <1>1, <3>2, <3>3 DEF Carries, IInv, Shape, RoomsTypeOK
      <4>2. x.placement \in ResidentRow
        BY <2>4, <3>1, <3>2 DEF SaveResident, Carries, Placing
      <4>3. Saved(q).room = x.placement.room
        BY <3>1, <4>2 DEF Saved, ResidentRow
      <4>4. QED BY <4>1, <4>2, <4>3
    <3>5. <<"resident", u>> \in x.stale
      BY <1>1, <3>2, <3>4 DEF Knows, Holds, Carries
    <3>6. x.placement.room \in RoomsOf(q) /\ RoomsOf(q) \subseteq Rooms
      BY <1>1, <3>1, <3>2, <3>4, RoomsOfTyped DEF RoomsOf
    <3>7. OldFor(q, x.placement.room)
      BY <3>1, <3>4, <3>5 DEF OldFor
    <3>8. QED BY <2>4, <1>1, <3>4, <3>6, <3>7, RaceTyped DEF SaveResident
  <2>5. CASE DeleteResident(q)
    <3>1. residents' = [residents EXCEPT ![req[q].user] = None]
      BY <2>5 DEF DeleteResident, WriteResident
    <3>2. QED BY <1>1, <3>1 DEF IInv, Shape, RoomsTypeOK
  <2>6. QED BY <2>1, <2>2, <2>3, <2>4, <2>5
<1>2. IInv /\ [RoomsNext]_roomVars =>
        [\A u \in Users :
           residents[u] = None /\ residents'[u] # None =>
             \/ \E q \in Requests : Steps(q) /\ req[q].op \in {"create", "import"}
             \/ residents'[u].room \in raced']_roomVars
  BY <1>1
<1>3. QED BY <1>2, SpecIInv, PTL DEF RoomsSpec, DeletedComesBackOnlyByRace

(* A room keeps its hostel but for an import or a save of an old entity.   *)
THEOREM RoomsStayWithHostel == RoomsSpec => HostelKeepsItsRooms
<1>1. ASSUME IInv, [RoomsNext]_roomVars, NEW n \in Rooms,
             rooms[n] # None, rooms[n].hostel # None,
             rooms'[n].hostel # rooms[n].hostel
      PROVE  \/ \E q \in Requests : Steps(q) /\ req[q].op = "import"
             \/ n \in raced'
  <2>1. CASE \E q \in Requests : CommitImport(q)
    BY <1>1, <2>1, StageMoves DEF CommitImport, InFlight, Stages
  <2>2. ASSUME NEW q \in Requests, SaveRoom(q)
        PROVE  n \in raced'
    <3>1. PICK x : x = req[q]
      OBVIOUS
    <3>2. /\ Carries(x) /\ Knows(x) /\ x.stage \in InFlight
          /\ x.op \in {"create", "move", "room"} /\ x.room \in Rooms
      BY <1>1, <2>2, <3>1, InFlightCarries DEF SaveRoom, InFlight, Carries, Request
    <3>3. n = x.room /\ rooms'[n] = x.found
      BY <1>1, <2>2, <3>1, <3>2 DEF SaveRoom, WriteRoom, IInv, Shape, RoomsTypeOK
    <3>4. <<"room", n>> \in x.stale
      BY <1>1, <3>2, <3>3 DEF Knows, Holds, OfHostel
    <3>5. QED BY <1>1, <2>2, <3>1, <3>3, <3>4, RaceTyped DEF SaveRoom, OldFor
  <2>3. ASSUME NEW q \in Requests, SaveOldRoom(q)
        PROVE  n \in raced'
    <3>1. PICK x : x = req[q]
      OBVIOUS
    <3>2. /\ Carries(x) /\ Knows(x) /\ x.stage = "parting" /\ x.stage \in InFlight
          /\ x.resident.room \in Rooms
      BY <1>1, <2>3, <3>1, InFlightCarries
      DEF SaveOldRoom, InFlight, Carries, OfResident, ResidentRow
    <3>3. x.old # None /\ n = x.resident.room /\ rooms'[n] = x.old
      BY <1>1, <2>3, <3>1, <3>2 DEF SaveOldRoom, WriteRoom, IInv, Shape, RoomsTypeOK
    <3>4. <<"room", n>> \in x.stale
      BY <1>1, <3>2, <3>3 DEF Knows, Holds, OfHostel
    <3>5. QED
      BY <1>1, <2>3, <3>1, <3>3, <3>4, RaceTyped DEF SaveOldRoom, OldFor
  <2>4. ASSUME NEW m \in Rooms, NEW row \in RoomEdits,
               CreateRoom(m, row) \/ \E q \in Requests : CreateRoomWithImage(q, m, row)
        PROVE  FALSE
    BY <1>1, <2>4 DEF CreateRoom, CreateRoomWithImage, WriteRoom, IInv, Shape, RoomsTypeOK
  <2>5. QED BY <1>1, <2>1, <2>2, <2>3, <2>4, RoomWrites
<1>2. IInv /\ [RoomsNext]_roomVars =>
        [\A n \in Rooms :
           /\ rooms[n] # None /\ rooms[n].hostel # None
           /\ rooms'[n].hostel # rooms[n].hostel
           => \/ \E q \in Requests : Steps(q) /\ req[q].op = "import"
              \/ n \in raced']_roomVars
  BY <1>1
<1>3. QED BY <1>2, SpecIInv, PTL DEF RoomsSpec, HostelKeepsItsRooms

LEMMA OneMoreActive ==
  ASSUME IInv, NEW h, NEW u \in Users, NEW row \in ResidentRow,
         residents' = [residents EXCEPT ![u] = row], WithinLimit(h)
  PROVE  Cardinality(ActiveOf(h)') <= ResidentLimit
<1>1. residents \in [Users -> ResidentRow \cup {None}]
  BY DEF IInv, Shape, RoomsTypeOK
<1>2. ActiveOf(h)' \subseteq ActiveOf(h) \cup {u}
  BY <1>1 DEF ActiveOf
<1>3. IsFiniteSet(ActiveOf(h))
  BY FS_Subset DEF ActiveOf
<1>4. /\ IsFiniteSet(ActiveOf(h) \cup {u})
      /\ Cardinality(ActiveOf(h) \cup {u}) <= Cardinality(ActiveOf(h)) + 1
  <2>1. PICK S : S = ActiveOf(h) /\ IsFiniteSet(S) /\ Cardinality(S) \in Nat
    BY <1>3, FS_CardinalityType
  <2>2. /\ IsFiniteSet(S \cup {u})
        /\ Cardinality(S \cup {u}) = IF u \in S THEN Cardinality(S) ELSE Cardinality(S) + 1
    BY <2>1, FS_AddElement
  <2>3. QED BY <2>1, <2>2
<1>5. /\ IsFiniteSet(ActiveOf(h)')
      /\ Cardinality(ActiveOf(h)') <= Cardinality(ActiveOf(h) \cup {u})
  BY <1>2, <1>4, FS_Subset
<1>6. /\ Cardinality(ActiveOf(h)) \in Nat /\ Cardinality(ActiveOf(h)') \in Nat
      /\ Cardinality(ActiveOf(h) \cup {u}) \in Nat
  BY <1>3, <1>4, <1>5, FS_CardinalityType
<1>7. Cardinality(ActiveOf(h)) + 1 <= ResidentLimit
  BY DEF WithinLimit
<1>8. QED BY <1>4, <1>5, <1>6, <1>7

LEMMA NoMoreActive ==
  ASSUME NEW h, ActiveOf(h)' \subseteq ActiveOf(h)
  PROVE  ~(Cardinality(ActiveOf(h)') > Cardinality(ActiveOf(h)))
<1>1. IsFiniteSet(ActiveOf(h))
  BY FS_Subset DEF ActiveOf
<1>2. PICK S, T : S = ActiveOf(h)' /\ T = ActiveOf(h)
  OBVIOUS
<1>3. /\ Cardinality(S) <= Cardinality(T)
      /\ Cardinality(S) \in Nat /\ Cardinality(T) \in Nat
  BY <1>1, <1>2, FS_Subset, FS_CardinalityType
<1>4. QED BY <1>2, <1>3

(* The plan's limit is passed only by an import, by setting a resident     *)
(* active, or by a request whose readings were old.                        *)
THEOREM LimitKept == RoomsSpec => LimitPassedOnlyUncounted
<1>1. ASSUME IInv, [RoomsNext]_roomVars, NEW h \in Hostels,
             Cardinality(ActiveOf(h)') > Cardinality(ActiveOf(h)),
             Cardinality(ActiveOf(h)') > ResidentLimit
      PROVE  \E q \in Requests :
               /\ Steps(q)
               /\ \/ req[q].op = "import" \/ Activates(q)
                  \/ <<"resident", req[q].user>> \in req[q].stale
                  \/ <<"count", h>> \in req[q].stale
  <2>1. residents' # residents
    <3>1. residents' = residents => ActiveOf(h)' = ActiveOf(h)
      BY DEF ActiveOf
    <3>2. Cardinality(ActiveOf(h)) \in Nat
      BY FS_Subset, FS_CardinalityType DEF ActiveOf
    <3>3. QED BY <1>1, <3>1, <3>2
  <2>2. PICK q \in Requests : \/ PlaceResident(q) \/ CommitImport(q)
                              \/ SaveResident(q) \/ DeleteResident(q)
    BY <1>1, <2>1, ResidentWrites
  <2>3. CASE PlaceResident(q)
    <3>1. PICK x : x = req[q]
      OBVIOUS
    <3>2. /\ Carries(x) /\ Knows(x) /\ x.stage = "cleared" /\ x.op = "create"
          /\ x.user \in Users /\ x.placement \in ResidentRow
      BY <1>1, <2>3, <3>1, InFlightCarries DEF PlaceResident, InFlight, Carries, Placing
    <3>3. residents[x.user] = None /\ residents' = [residents EXCEPT ![x.user] = x.placement]
      BY <2>3, <3>1 DEF PlaceResident, WriteResident
    <3>4. x.placement.hostel = h
      <4>1. SUFFICES ASSUME x.placement.hostel # h PROVE ActiveOf(h)' = ActiveOf(h)
        <5>1. Cardinality(ActiveOf(h)) \in Nat
          BY FS_Subset, FS_CardinalityType DEF ActiveOf
        <5>2. QED BY <1>1, <5>1
      <4>2. QED
        BY <1>1, <3>2, <3>3, <4>1 DEF ActiveOf, IInv, Shape, RoomsTypeOK
    <3>5. ~WithinLimit(h)
      <4>1. WithinLimit(h) => Cardinality(ActiveOf(h)') <= ResidentLimit
        BY <1>1, <3>2, <3>3, OneMoreActive
      <4>2. Cardinality(ActiveOf(h)') \in Nat
        <5>1. ActiveOf(h)' \subseteq Users
          BY DEF ActiveOf
        <5>2. QED BY <5>1, FS_Subset, FS_CardinalityType
      <4>3. QED BY <1>1, <4>1, <4>2
    <3>6. <<"count", h>> \in x.stale
      BY <3>2, <3>4, <3>5 DEF Knows, Holds, InFlight
    <3>7. Steps(q)
      BY <1>1, <2>3, StageMoves DEF PlaceResident, InFlight, Stages
    <3>8. QED BY <3>1, <3>6, <3>7
  <2>4. CASE CommitImport(q)
    BY <1>1, <2>4, StageMoves DEF CommitImport, InFlight, Stages
  <2>5. CASE SaveResident(q)
    <3>1. Steps(q)
      BY <1>1, <2>5, StageMoves DEF SaveResident, InFlight, Stages
    <3>2. SUFFICES ASSUME ~Activates(q), <<"resident", req[q].user>> \notin req[q].stale
                   PROVE  ActiveOf(h)' \subseteq ActiveOf(h)
      BY <1>1, <3>1, NoMoreActive
    <3>3. PICK x : x = req[q]
      OBVIOUS
    <3>4. /\ Carries(x) /\ Knows(x) /\ x.stage \in InFlight /\ x.user \in Users
          /\ x.op \in {"move", "rebed", "edit"}
          /\ x.placement \in ResidentRow /\ x.resident \in ResidentRow
      BY <1>1, <2>5, <3>3, InFlightCarries
      DEF SaveResident, InFlight, Carries, Placing, OfResident
    <3>5. PICK row : row = Saved(q)
      OBVIOUS
    <3>6. row.hostel = x.resident.hostel /\ row.isActive = x.placement.isActive
      BY <3>3, <3>4, <3>5 DEF Saved, ResidentRow
    <3>7. row.isActive => x.resident.isActive
      BY <3>2, <3>3, <3>4, <3>6 DEF Activates
    <3>8. residents[x.user] = x.resident /\ x.resident # None
      BY <3>2, <3>3, <3>4 DEF Knows, Holds, OfResident
    <3>9. residents' = [residents EXCEPT ![x.user] = row]
      BY <2>5, <3>3, <3>5 DEF SaveResident, WriteResident
    <3>10. QED
      BY <1>1, <3>4, <3>6, <3>7, <3>8, <3>9 DEF ActiveOf, IInv, Shape, RoomsTypeOK
  <2>6. CASE DeleteResident(q)
    <3>1. residents' = [residents EXCEPT ![req[q].user] = None]
      BY <2>6 DEF DeleteResident, WriteResident
    <3>2. ActiveOf(h)' \subseteq ActiveOf(h)
      BY <1>1, <3>1 DEF ActiveOf, IInv, Shape, RoomsTypeOK
    <3>3. QED BY <1>1, <3>2, NoMoreActive
  <2>7. QED BY <2>2, <2>3, <2>4, <2>5, <2>6
<1>2. IInv /\ [RoomsNext]_roomVars =>
        [\A h \in Hostels :
           /\ Cardinality(ActiveOf(h)') > Cardinality(ActiveOf(h))
           /\ Cardinality(ActiveOf(h)') > ResidentLimit
           => \E q \in Requests :
                /\ Steps(q)
                /\ \/ req[q].op = "import" \/ Activates(q)
                   \/ <<"resident", req[q].user>> \in req[q].stale
                   \/ <<"count", h>> \in req[q].stale]_roomVars
  BY <1>1
<1>3. QED BY <1>2, SpecIInv, PTL DEF RoomsSpec, LimitPassedOnlyUncounted

-----------------------------------------------------------------------------
(* The counters.  A move that has saved its new room's counter, but not    *)
(* its resident, is one fewer there than the counter says.                 *)
Expected(n) == {q \in Requests : /\ req[q].stage = "ready" /\ req[q].op = "move"
                                 /\ req[q].room = n}
RoomSettled(n) ==
  /\ Cardinality(Occupants(n)) + Cardinality(Expected(n)) <=
       rooms[n].occupied + Cardinality(Arriving(n)) + Cardinality(Leaving(n))
  /\ rooms[n].occupied <= rooms[n].capacity

(* The rooms a request names are there, and what it counted is not less    *)
(* than the counter, unless that is known to have changed.                 *)
Refers(r) ==
  r.stage # "unsent" =>
    /\ rooms[r.room] # None
    /\ r.resident # None => rooms[r.resident.room] # None
    /\ r.op = "rebed" => r.resident.room = r.room
Counts(r) ==
  r.stage \in InFlight =>
    /\ r.op \in Placing /\ r.stage = "found" =>
         Holds(r, <<"room", r.room>>, rooms[r.room].occupied <= r.found.occupied)
    /\ r.op \in Placing /\ r.stage \in {"cleared", "placed", "parting", "freed"} =>
         /\ r.found.occupied <= r.found.capacity
         /\ Holds(r, <<"room", r.room>>, rooms[r.room].occupied + 1 <= r.found.occupied)
    /\ r.stage = "parting" /\ r.old # None =>
         Holds(r, <<"room", r.resident.room>>,
               /\ rooms[r.resident.room].capacity = r.old.capacity
               /\ r.old.occupied <= rooms[r.resident.room].occupied
               /\ rooms[r.resident.room].occupied <= r.old.occupied + 1)

CountInv ==
  /\ IsFiniteSet({q \in Requests : req[q].stage # "unsent"})
  /\ \A u \in Users : residents[u] # None => rooms[residents[u].room] # None
  /\ \A q \in Requests : Refers(req[q]) /\ Counts(req[q])
  /\ \A n \in Rooms \ (raced \cup unsettled) : rooms[n] # None => RoomSettled(n)

(* What a request is to room n.                                            *)
Arrives(r, n) == r.stage = "placed" /\ r.room = n
Leaves(r, n) == /\ r.stage \in {"freed", "ready"} /\ r.op \in {"move", "delete"}
                /\ r.old # None /\ r.resident.room = n
Comes(r, n) == r.stage = "ready" /\ r.op = "move" /\ r.room = n
Bit(P) == IF P THEN 1 ELSE 0

LEMMA Toggle ==
  ASSUME NEW S, NEW T, NEW q, IsFiniteSet(S), \A p : p # q => (p \in S <=> p \in T)
  PROVE  /\ IsFiniteSet(T) /\ Cardinality(S) \in Nat /\ Cardinality(T) \in Nat
         /\ Cardinality(T) + Bit(q \in S) = Cardinality(S) + Bit(q \in T)
<1>1. Cardinality(S) \in Nat
  BY FS_CardinalityType
<1>2. CASE q \in S /\ q \notin T
  <2>1. T = S \ {q}
    BY <1>2
  <2>2. IsFiniteSet(T) /\ Cardinality(T) = Cardinality(S) - 1
    BY <1>2, <2>1, FS_RemoveElement
  <2>3. Cardinality(T) \in Nat
    BY <2>2, FS_CardinalityType
  <2>4. QED BY <1>1, <1>2, <2>2, <2>3 DEF Bit
<1>3. CASE q \notin S /\ q \in T
  <2>1. T = S \cup {q}
    BY <1>3
  <2>2. IsFiniteSet(T) /\ Cardinality(T) = Cardinality(S) + 1
    BY <1>3, <2>1, FS_AddElement
  <2>3. QED BY <1>1, <1>3, <2>2 DEF Bit
<1>4. CASE q \in S <=> q \in T
  <2>1. T = S
    BY <1>4
  <2>2. QED BY <1>1, <2>1
<1>5. QED BY <1>2, <1>3, <1>4

(* A request that does not act stays where it is.                          *)
LEMMA OthersStay ==
  ASSUME IInv, NEW q \in Requests, NEW y, NEW items, Step(q, y, items),
         NEW p \in Requests, p # q
  PROVE  \/ req'[p] = req[p] /\ (req[p].stage \notin InFlight \/ req[p].reads \cap items = {})
         \/ /\ req'[p] \in Request /\ req[p].stage \in InFlight
            /\ req'[p].stage = req[p].stage
            /\ req'[p].op = req[p].op /\ req'[p].room = req[p].room
            /\ req'[p].old = req[p].old /\ req'[p].resident = req[p].resident
            /\ req'[p].found = req[p].found /\ req'[p].reads = req[p].reads
            /\ req'[p].stale = req[p].stale \cup (req[p].reads \cap items)
<1>1. CASE req[p].stage \notin InFlight
  BY <1>1 DEF Step
<1>2. CASE req[p].stage \in InFlight
  <2>1. PICK x \in Request : x = req[p]
    BY <1>2, InFlightCarries
  <2>2. PICK stale \in SUBSET Items : stale = x.stale \cup (x.reads \cap items)
    BY DEF Request
  <2>3. PICK z : z = [x EXCEPT !.stale = stale]
    OBVIOUS
  <2>4. req'[p] = z
    BY <1>2, <2>1, <2>2, <2>3 DEF Step
  <2> HIDE <2>2
  <2>5. /\ z \in Request /\ z.stage = x.stage /\ z.op = x.op /\ z.room = x.room
        /\ z.old = x.old /\ z.resident = x.resident /\ z.found = x.found
        /\ z.reads = x.reads /\ z.stale = stale
    BY <2>3, StaleSet
  <2>6. QED BY <1>2, <2>1, <2>2, <2>4, <2>5
<1>3. QED BY <1>1, <1>2

(* Its room's books balance after a step of q and of the row of u.         *)
LEMMA RoomStays ==
  ASSUME IInv, CountInv, NEW q \in Requests, NEW x, x = req[q], NEW y, NEW items,
         Step(q, y, items), NEW u, \A v \in Users \ {u} : residents'[v] = residents[v],
         NEW n \in Rooms, n \notin raced \cup unsettled, rooms[n] # None,
         rooms'[n].occupied \in Nat, rooms'[n].occupied <= rooms'[n].capacity,
         rooms[n].occupied + Bit(u \in Occupants(n)') + Bit(Comes(y, n))
             + Bit(Arrives(x, n)) + Bit(Leaves(x, n))
           <= rooms'[n].occupied + Bit(u \in Occupants(n)) + Bit(Comes(x, n))
             + Bit(Arrives(y, n)) + Bit(Leaves(y, n))
  PROVE  RoomSettled(n)'
<1>1. req'[q] = y
  BY DEF Step
<1>2. ASSUME NEW p \in Requests, p # q
      PROVE  /\ req'[p].stage = req[p].stage /\ req'[p].op = req[p].op
             /\ req'[p].room = req[p].room /\ req'[p].old = req[p].old
             /\ req'[p].resident = req[p].resident
  BY <1>2, OthersStay
<1>3. /\ q \in Expected(n) <=> Comes(x, n)
      /\ q \in Expected(n)' <=> Comes(y, n)
      /\ q \in Arriving(n) <=> Arrives(x, n)
      /\ q \in Arriving(n)' <=> Arrives(y, n)
      /\ q \in Leaving(n) <=> Leaves(x, n)
      /\ q \in Leaving(n)' <=> Leaves(y, n)
  BY <1>1 DEF Expected, Arriving, Leaving, Comes, Arrives, Leaves
<1>4. /\ \A p : p # q => (p \in Expected(n) <=> p \in Expected(n)')
      /\ \A p : p # q => (p \in Arriving(n) <=> p \in Arriving(n)')
      /\ \A p : p # q => (p \in Leaving(n) <=> p \in Leaving(n)')
  BY <1>2 DEF Expected, Arriving, Leaving
<1>5. /\ IsFiniteSet(Expected(n)) /\ IsFiniteSet(Arriving(n)) /\ IsFiniteSet(Leaving(n))
      /\ IsFiniteSet(Occupants(n))
  <2>1. {Expected(n), Arriving(n), Leaving(n)} \subseteq
          SUBSET {p \in Requests : req[p].stage # "unsent"}
    BY DEF Expected, Arriving, Leaving
  <2>2. Occupants(n) \subseteq Users
    BY DEF Occupants
  <2>3. QED BY <2>1, <2>2, FS_Subset DEF CountInv
<1>6. \A v : v # u => (v \in Occupants(n) <=> v \in Occupants(n)')
  BY DEF Occupants, LivesIn
<1>7. /\ Cardinality(Expected(n)) \in Nat /\ Cardinality(Expected(n)') \in Nat
      /\ Cardinality(Expected(n)') + Bit(Comes(x, n)) =
           Cardinality(Expected(n)) + Bit(Comes(y, n))
  BY <1>3, <1>4, <1>5, Toggle DEF Bit
<1>8. /\ Cardinality(Arriving(n)) \in Nat /\ Cardinality(Arriving(n)') \in Nat
      /\ Cardinality(Arriving(n)') + Bit(Arrives(x, n)) =
           Cardinality(Arriving(n)) + Bit(Arrives(y, n))
  BY <1>3, <1>4, <1>5, Toggle DEF Bit
<1>9. /\ Cardinality(Leaving(n)) \in Nat /\ Cardinality(Leaving(n)') \in Nat
      /\ Cardinality(Leaving(n)') + Bit(Leaves(x, n)) =
           Cardinality(Leaving(n)) + Bit(Leaves(y, n))
  BY <1>3, <1>4, <1>5, Toggle DEF Bit
<1>10. /\ Cardinality(Occupants(n)) \in Nat /\ Cardinality(Occupants(n)') \in Nat
       /\ Cardinality(Occupants(n)') + Bit(u \in Occupants(n)) =
            Cardinality(Occupants(n)) + Bit(u \in Occupants(n)')
  BY <1>5, <1>6, Toggle
<1>11. Cardinality(Occupants(n)) + Cardinality(Expected(n)) <=
         rooms[n].occupied + Cardinality(Arriving(n)) + Cardinality(Leaving(n))
  BY DEF CountInv, RoomSettled
<1>12. rooms[n].occupied \in Nat
  BY DEF IInv, Shape, RoomsTypeOK, RoomRow
<1>13. \A P : Bit(P) \in {0, 1}
  BY DEF Bit
<1>14. Cardinality(Occupants(n)') + Cardinality(Expected(n)') <=
         rooms'[n].occupied + Cardinality(Arriving(n)') + Cardinality(Leaving(n)')
  BY <1>7, <1>8, <1>9, <1>10, <1>11, <1>12, <1>13
<1>15. QED BY <1>14 DEF RoomSettled

(* Rooms stay, and one whose item is not written is as it was.             *)
RoomsCovered(items) ==
  \A n \in Rooms : rooms[n] # None =>
    /\ rooms'[n] # None
    /\ <<"room", n>> \notin items => rooms'[n] = rooms[n]

LEMMA OthersCount ==
  ASSUME IInv, CountInv, NEW q \in Requests, NEW y, NEW items, Step(q, y, items),
         RoomsCovered(items), NEW p \in Requests, p # q
  PROVE  Refers(req[p])' /\ Counts(req[p])'
<1>1. PICK x : x = req[p]
  OBVIOUS
<1>2. PICK z : z = req'[p]
  OBVIOUS
<1>3. Refers(x) /\ Counts(x) /\ GoodRequest(x)
  BY <1>1 DEF CountInv, IInv, Shape
<1>4. \/ z = x /\ (x.stage \notin InFlight \/ x.reads \cap items = {})
      \/ /\ z \in Request /\ x.stage \in InFlight
         /\ z.stage = x.stage /\ z.op = x.op /\ z.room = x.room /\ z.old = x.old
         /\ z.resident = x.resident /\ z.found = x.found /\ z.reads = x.reads
         /\ z.stale = x.stale \cup (x.reads \cap items)
  <2>1. CASE z = x /\ (x.stage \notin InFlight \/ x.reads \cap items = {})
    BY <2>1
  <2>2. CASE ~(z = x /\ (x.stage \notin InFlight \/ x.reads \cap items = {}))
    <3>1. /\ req'[p] \in Request /\ req[p].stage \in InFlight
          /\ req'[p].stage = req[p].stage
          /\ req'[p].op = req[p].op /\ req'[p].room = req[p].room
          /\ req'[p].old = req[p].old /\ req'[p].resident = req[p].resident
          /\ req'[p].found = req[p].found /\ req'[p].reads = req[p].reads
          /\ req'[p].stale = req[p].stale \cup (req[p].reads \cap items)
      BY <1>1, <1>2, <2>2, OthersStay
    <3>2. QED BY <1>1, <1>2, <3>1
  <2>3. QED BY <2>1, <2>2
<1>5. x.stage # "unsent" =>
        x.room \in Rooms /\ (x.resident # None => x.resident.room \in Rooms)
  BY <1>3 DEF GoodRequest, Carries, Request, ResidentRow
<1>6. /\ z.stage = x.stage /\ z.op = x.op /\ z.room = x.room /\ z.old = x.old
      /\ z.resident = x.resident /\ z.found = x.found /\ z.reads = x.reads
  BY <1>4
<1>7. Refers(z)'
  BY <1>3, <1>5, <1>6 DEF Refers, RoomsCovered
<1>8. ASSUME x.stage \in InFlight, NEW n \in Rooms, rooms[n] # None,
             <<"room", n>> \in x.reads, <<"room", n>> \notin z.stale
      PROVE  rooms'[n] = rooms[n] /\ <<"room", n>> \notin x.stale
  BY <1>4, <1>8 DEF RoomsCovered
<1>9. x.stage \in InFlight => x.stage # "unsent"
  BY DEF InFlight
<1>10. Counts(z)'
  <2> SUFFICES ASSUME x.stage \in InFlight PROVE Counts(z)'
    BY <1>6 DEF Counts
  <2>1. x.room \in Rooms /\ rooms[x.room] # None
    BY <1>3, <1>5, <1>9 DEF Refers
  <2>2. z.op \in Placing /\ z.stage = "found" =>
          Holds(z, <<"room", z.room>>, rooms'[z.room].occupied <= z.found.occupied)
    BY <1>3, <1>6, <1>8, <2>1 DEF Counts, Holds
  <2>3. z.op \in Placing /\ z.stage \in {"cleared", "placed", "parting", "freed"} =>
          /\ z.found.occupied <= z.found.capacity
          /\ Holds(z, <<"room", z.room>>, rooms'[z.room].occupied + 1 <= z.found.occupied)
    BY <1>3, <1>6, <1>8, <2>1 DEF Counts, Holds
  <2>4. z.stage = "parting" /\ z.old # None =>
          Holds(z, <<"room", z.resident.room>>,
                /\ rooms'[z.resident.room].capacity = z.old.capacity
                /\ z.old.occupied <= rooms'[z.resident.room].occupied
                /\ rooms'[z.resident.room].occupied <= z.old.occupied + 1)
    <3> SUFFICES ASSUME x.stage = "parting", x.old # None
                 PROVE  Holds(z, <<"room", z.resident.room>>,
                              /\ rooms'[z.resident.room].capacity = z.old.capacity
                              /\ z.old.occupied <= rooms'[z.resident.room].occupied
                              /\ rooms'[z.resident.room].occupied <= z.old.occupied + 1)
      BY <1>6
    <3>1. x.resident \in ResidentRow /\ x.resident # None
      BY <1>3, <1>9 DEF GoodRequest, Carries, OfResident
    <3>2. x.resident.room \in Rooms /\ rooms[x.resident.room] # None
      BY <1>3, <1>5, <1>9, <3>1 DEF Refers
    <3>3. QED BY <1>3, <1>6, <1>8, <3>2 DEF Counts, Holds
  <2>5. QED BY <2>2, <2>3, <2>4 DEF Counts, Holds
<1>11. QED BY <1>2, <1>7, <1>10 DEF Refers, Counts, Holds

(* A request that goes on to y, and with it at most the row of u.          *)
LEMMA CountStep ==
  ASSUME IInv, CountInv, NEW q \in Requests, NEW x, x = req[q], NEW y, NEW items,
         Step(q, y, items), RoomsCovered(items),
         NEW u, \A v \in Users \ {u} : residents'[v] = residents[v],
         u \in Users => residents'[u] = None \/ residents'[u] = residents[u]
                         \/ rooms'[residents'[u].room] # None,
         residents \in [Users -> ResidentRow \cup {None}],
         Refers(y)', Counts(y)', raced \subseteq raced', unsettled \subseteq unsettled',
         rooms' \in [Rooms -> RoomRow \cup {None}],
         \A n \in Rooms : rooms[n] = None => rooms'[n] = None,
         \A n \in Rooms \ (raced' \cup unsettled') : rooms[n] # None =>
           /\ rooms'[n].occupied <= rooms'[n].capacity
           /\ rooms[n].occupied + Bit(u \in Occupants(n)') + Bit(Comes(y, n))
                  + Bit(Arrives(x, n)) + Bit(Leaves(x, n))
                <= rooms'[n].occupied + Bit(u \in Occupants(n)) + Bit(Comes(x, n))
                  + Bit(Arrives(y, n)) + Bit(Leaves(y, n))
  PROVE  CountInv'
<1>1. req'[q] = y
  BY DEF Step
<1>2. IsFiniteSet({p \in Requests : req[p].stage # "unsent"})'
  <2>1. {p \in Requests : req'[p].stage # "unsent"} \subseteq
          {p \in Requests : req[p].stage # "unsent"} \cup {q}
    BY OthersStay
  <2>2. IsFiniteSet({p \in Requests : req[p].stage # "unsent"} \cup {q})
    BY FS_AddElement DEF CountInv
  <2>3. QED BY <2>1, <2>2, FS_Subset
<1>3. ASSUME NEW v \in Users, residents'[v] # None
      PROVE  rooms'[residents'[v].room] # None
  <2>1. CASE residents'[v] = residents[v]
    <3>1. residents[v].room \in Rooms /\ rooms[residents[v].room] # None
      BY <1>3, <2>1 DEF CountInv, ResidentRow
    <3>2. QED BY <2>1, <3>1 DEF RoomsCovered
  <2>2. CASE residents'[v] # residents[v]
    BY <1>3, <2>2
  <2>3. QED BY <2>1, <2>2
<1>4. ASSUME NEW p \in Requests PROVE Refers(req[p])' /\ Counts(req[p])'
  <2>1. CASE p = q
    BY <1>1, <2>1 DEF Refers, Counts, Holds
  <2>2. CASE p # q
    BY <2>2, OthersCount
  <2>3. QED BY <2>1, <2>2
<1>5. ASSUME NEW n \in Rooms \ (raced' \cup unsettled'), rooms'[n] # None
      PROVE  RoomSettled(n)'
  <2>1. n \notin raced \cup unsettled /\ rooms[n] # None
    BY <1>5
  <2>2. rooms'[n].occupied \in Nat
    BY <1>5 DEF RoomRow
  <2>3. QED BY <1>5, <2>1, <2>2, RoomStays
<1>6. QED BY <1>2, <1>3, <1>4, <1>5 DEF CountInv

LEMMA SettledRoom ==
  ASSUME IInv, CountInv, NEW n \in Rooms, n \notin raced \cup unsettled, rooms[n] # None
  PROVE  /\ rooms[n] \in RoomRow /\ rooms[n].occupied \in Nat /\ rooms[n].capacity \in Nat
         /\ rooms[n].occupied <= rooms[n].capacity
BY DEF IInv, Shape, RoomsTypeOK, RoomRow, CountInv, RoomSettled

(* A request that only reads.                                              *)
LEMMA QuietCount ==
  ASSUME IInv, CountInv, NEW q \in Requests, NEW x, x = req[q], NEW y, Reading(q, y),
         UNCHANGED <<rooms, residents, raced>>, unsettled \subseteq unsettled',
         Refers(y), Counts(y),
         \A n \in Rooms \ unsettled' : /\ Comes(y, n) => Comes(x, n)
                                       /\ Arrives(x, n) => Arrives(y, n)
                                       /\ Leaves(x, n) => Leaves(y, n)
  PROVE  CountInv'
<1>1. PICK items : items = {} /\ Step(q, y, items)
  BY DEF Reading
<1>2. PICK u : u = x
  OBVIOUS
<1>3. /\ RoomsCovered(items) /\ \A v \in Users \ {u} : residents'[v] = residents[v]
      /\ residents \in [Users -> ResidentRow \cup {None}]
      /\ rooms' \in [Rooms -> RoomRow \cup {None}]
      /\ \A n \in Rooms : rooms[n] = None => rooms'[n] = None
      /\ u \in Users => residents'[u] = residents[u]
  BY DEF RoomsCovered, IInv, Shape, RoomsTypeOK
<1>4. Refers(y)' /\ Counts(y)'
  BY DEF Refers, Counts, Holds
<1>5. ASSUME NEW n \in Rooms \ (raced' \cup unsettled'), rooms[n] # None
      PROVE  /\ rooms'[n].occupied <= rooms'[n].capacity
             /\ rooms[n].occupied + Bit(u \in Occupants(n)') + Bit(Comes(y, n))
                    + Bit(Arrives(x, n)) + Bit(Leaves(x, n))
                  <= rooms'[n].occupied + Bit(u \in Occupants(n)) + Bit(Comes(x, n))
                    + Bit(Arrives(y, n)) + Bit(Leaves(y, n))
  <2>1. n \notin raced \cup unsettled
    BY <1>5
  <2>2. /\ rooms[n].occupied \in Nat /\ rooms[n].capacity \in Nat
        /\ rooms[n].occupied <= rooms[n].capacity
    BY <1>5, <2>1, SettledRoom
  <2>3. u \in Occupants(n)' <=> u \in Occupants(n)
    BY DEF Occupants, LivesIn
  <2>4. /\ Comes(y, n) => Comes(x, n)
        /\ Arrives(x, n) => Arrives(y, n)
        /\ Leaves(x, n) => Leaves(y, n)
    BY <1>5
  <2>5. QED BY <2>2, <2>3, <2>4 DEF Bit
<1>6. raced \subseteq raced'
  OBVIOUS
<1>7. QED BY <1>1, <1>3, <1>4, <1>5, <1>6, CountStep

LEMMA StartCount ==
  ASSUME IInv, CountInv, NEW q \in Requests, NEW op, NEW u, NEW placement, NEW n \in Rooms,
         NEW found, NEW resident, NEW reads,
         Start(q, op, u, placement, n, found, resident, reads),
         rooms[n] # None, resident # None => rooms[resident.room] # None,
         op = "rebed" => resident.room = n,
         op \in Placing => <<"room", n>> \in reads /\ rooms[n].occupied <= found.occupied
  PROVE  CountInv'
<1>1. PICK y : y = [stage |-> "found", op |-> op, user |-> u, placement |-> placement,
                    room |-> n, found |-> found, old |-> None, resident |-> resident,
                    reads |-> reads, stale |-> {}]
  OBVIOUS
<1>2. PICK x : x = req[q]
  OBVIOUS
<1>3. /\ Reading(q, y) /\ x.stage = "unsent"
      /\ UNCHANGED <<rooms, residents, raced, unsettled>>
  BY <1>1, <1>2 DEF Start
<1>4. Refers(y) /\ Counts(y)
  BY <1>1 DEF Refers, Counts, Holds
<1>5. \A m : /\ ~Comes(y, m) /\ ~Arrives(x, m) /\ ~Leaves(x, m)
  BY <1>1, <1>3 DEF Comes, Arrives, Leaves
<1>6. unsettled \subseteq unsettled'
  BY <1>3
<1>7. QED BY <1>2, <1>3, <1>4, <1>5, <1>6, QuietCount

LEMMA ReceiveCount ==
  ASSUME IInv, CountInv, NEW q \in Requests, Receive(q)
  PROVE  CountInv'
<1>0. /\ \A n \in Rooms : rooms[n] # None => rooms[n] \in RoomRow /\ rooms[n].occupied \in Nat
      /\ \A u \in Users : residents[u] # None =>
           /\ residents[u].room \in Rooms /\ rooms[residents[u].room] # None
  BY DEF IInv, Shape, RoomsTypeOK, RoomRow, ResidentRow, CountInv
<1>1. ASSUME NEW u \in Users, NEW h \in Hostels, NEW n \in Rooms, NEW b \in Beds,
             StartCreate(q, u, h, n, b) \/ StartImportRow(q, u, h, n, b)
      PROVE  CountInv'
  <2>1. rooms[n] # None /\ rooms[n] \in RoomRow /\ rooms[n].occupied \in Nat
    BY <1>0, <1>1 DEF StartCreate, StartImportRow, TakesResidents
  <2>2. PICK found : found = [rooms[n] EXCEPT !.hostel = h]
    OBVIOUS
  <2>3. rooms[n].occupied <= found.occupied
    BY <2>1, <2>2 DEF RoomRow
  <2>4. PICK placement : placement = Placement(h, n, b, TRUE)
    OBVIOUS
  <2>5. \/ Start(q, "create", u, placement, n, found, None, {<<"room", n>>, <<"count", h>>})
        \/ Start(q, "import", u, placement, n, found, None, {<<"room", n>>})
    BY <1>1, <2>2, <2>4 DEF StartCreate, StartImportRow
  <2>6. PICK op, reads :
          /\ Start(q, op, u, placement, n, found, None, reads) /\ <<"room", n>> \in reads
          /\ op \in {"create", "import"}
    BY <2>5
  <2>7. op # "rebed"
    BY <2>6
  <2>8. QED BY <2>1, <2>3, <2>6, <2>7, StartCount
<1>2. ASSUME NEW u \in Users, NEW n \in Rooms, NEW b \in Beds, NEW active \in BOOLEAN,
             StartMove(q, u, n, b, active)
      PROVE  CountInv'
  <2>1. /\ rooms[n] # None /\ rooms[n].occupied \in Nat /\ residents[u] # None
        /\ rooms[residents[u].room] # None
    BY <1>0, <1>2 DEF StartMove, TakesResidents
  <2>2. PICK placement : placement = Placement(rooms[n].hostel, n, b, active)
    OBVIOUS
  <2>3. Start(q, "move", u, placement, n, rooms[n], residents[u],
              {<<"room", n>>, <<"resident", u>>})
    BY <1>2, <2>2 DEF StartMove
  <2>4. rooms[n].occupied <= rooms[n].occupied
    BY <2>1
  <2>5. PICK op, reads : /\ Start(q, op, u, placement, n, rooms[n], residents[u], reads)
                         /\ <<"room", n>> \in reads /\ op # "rebed"
    BY <2>3
  <2>6. QED BY <2>1, <2>4, <2>5, StartCount
<1>3. ASSUME NEW u \in Users, NEW b \in Beds, NEW active \in BOOLEAN,
             StartEdit(q, u, b, active)
      PROVE  CountInv'
  <2>1. residents[u] # None /\ residents[u].room \in Rooms /\ rooms[residents[u].room] # None
    BY <1>0, <1>3 DEF StartEdit
  <2>2. PICK placement : placement = [residents[u] EXCEPT !.bed = b, !.isActive = active]
    OBVIOUS
  <2>3. PICK op : op = IF b = residents[u].bed THEN "edit" ELSE "rebed"
    OBVIOUS
  <2>4. Start(q, op, u, placement, residents[u].room, None, residents[u], {<<"resident", u>>})
    BY <1>3, <2>2, <2>3 DEF StartEdit
  <2>5. op \notin Placing
    BY <2>3 DEF Placing
  <2>6. QED BY <2>1, <2>4, <2>5, StartCount
<1>4. ASSUME NEW u \in Users, StartDelete(q, u) PROVE CountInv'
  <2>1. residents[u] # None /\ residents[u].room \in Rooms /\ rooms[residents[u].room] # None
    BY <1>0, <1>4 DEF StartDelete
  <2>2. Start(q, "delete", u, None, residents[u].room, None, residents[u], {<<"resident", u>>})
    BY <1>4 DEF StartDelete
  <2>3. PICK n \in Rooms : n = residents[u].room
    BY <2>1
  <2>4. PICK op, placement, resident, reads :
          /\ Start(q, op, u, placement, n, None, resident, reads) /\ resident = residents[u]
          /\ op \notin Placing /\ op # "rebed"
    BY <2>2, <2>3 DEF Placing
  <2>5. rooms[n] # None /\ rooms[resident.room] # None
    BY <2>1, <2>3, <2>4
  <2> HIDE <2>2
  <2>6. QED BY <2>4, <2>5, StartCount, ZenonT(60)
<1>5. ASSUME NEW n \in Rooms, NEW row \in RoomEdits, StartRoomUpdate(q, n, row)
      PROVE  CountInv'
  <2>1. /\ rooms[n] # None
        /\ Start(q, "room", None, None, n, row, None, {<<"room", n>>})
    BY <1>5 DEF StartRoomUpdate
  <2>2. PICK op, u, placement, resident, reads :
          /\ Start(q, op, u, placement, n, row, resident, reads) /\ resident = None
          /\ op \notin Placing /\ op # "rebed"
    BY <2>1 DEF Placing
  <2>3. rooms[n] # None
    BY <2>1
  <2> HIDE <2>1
  <2>4. QED BY <2>2, <2>3, StartCount, ZenonT(60)
<1>6. QED BY <1>1, <1>2, <1>3, <1>4, <1>5 DEF Receive

-----------------------------------------------------------------------------
LEMMA MovedFields ==
  ASSUME IInv, CountInv, NEW q \in Requests, req[q].stage \in InFlight, NEW s \in Stages,
         NEW y, y = Moved(q, s)
  PROVE  /\ req[q] \in Request /\ Carries(req[q]) /\ Knows(req[q])
         /\ Refers(req[q]) /\ Counts(req[q]) /\ req[q].stage # "unsent"
         /\ y \in Request /\ y.stage = s
         /\ y.op = req[q].op /\ y.user = req[q].user /\ y.placement = req[q].placement
         /\ y.room = req[q].room /\ y.found = req[q].found /\ y.old = req[q].old
         /\ y.resident = req[q].resident /\ y.reads = req[q].reads /\ y.stale = req[q].stale
<1>1. PICK x : x = req[q] /\ x \in Request /\ Carries(x) /\ Knows(x)
  BY InFlightCarries
<1>2. Refers(x) /\ Counts(x) /\ x.stage # "unsent"
  BY <1>1 DEF CountInv, InFlight
<1>3. y = [x EXCEPT !.stage = s]
  BY <1>1 DEF Moved
<1>4. /\ y \in Request /\ y.stage = s
      /\ y.op = x.op /\ y.user = x.user /\ y.placement = x.placement
      /\ y.room = x.room /\ y.found = x.found /\ y.old = x.old
      /\ y.resident = x.resident /\ y.reads = x.reads /\ y.stale = x.stale
  BY <1>1, <1>3, StageSet
<1>5. QED BY <1>1, <1>2, <1>4

LEMMA EndCount ==
  ASSUME IInv, CountInv, NEW q \in Requests, Refuse(q) \/ RefuseAccount(q) \/ Abandon(q)
  PROVE  CountInv'
<1>1. PICK x : x = req[q]
  OBVIOUS
<1>2. PICK s \in {"refused", "failed"} : Reading(q, Moved(q, s))
  BY DEF Refuse, RefuseAccount, Abandon
<1>3. PICK y : y = Moved(q, s)
  OBVIOUS
<1>4. x.stage \in InFlight /\ UNCHANGED <<rooms, residents, raced>>
      /\ unsettled \subseteq unsettled'
  BY <1>1 DEF Refuse, RefuseAccount, Abandon, InFlight
<1>5. /\ Refers(x) /\ x.stage # "unsent" /\ y.stage = s /\ y.op = x.op /\ y.room = x.room
      /\ y.resident = x.resident
  BY <1>1, <1>3, <1>4, MovedFields DEF Stages
<1>6. Refers(y) /\ Counts(y)
  BY <1>5 DEF Refers, Counts, InFlight
<1>7. ASSUME NEW n \in Rooms \ unsettled'
      PROVE  ~Comes(y, n) /\ ~Arrives(x, n) /\ ~Leaves(x, n)
  <2>1. ~Comes(y, n)
    BY <1>5 DEF Comes
  <2>2. CASE Refuse(q) \/ RefuseAccount(q)
    BY <1>1, <2>1, <2>2 DEF Refuse, RefuseAccount, Arrives, Leaves
  <2>3. CASE Abandon(q)
    BY <1>1, <1>7, <2>1, <2>3 DEF Abandon, Arriving, Leaving, Arrives, Leaves
  <2>4. QED BY <2>2, <2>3
<1>8. Reading(q, y)
  BY <1>2, <1>3
<1>9. QED BY <1>1, <1>4, <1>6, <1>7, <1>8, QuietCount

LEMMA ClearCount ==
  ASSUME IInv, CountInv, NEW q \in Requests, Clear(q)
  PROVE  CountInv'
<1>1. PICK x : x = req[q]
  OBVIOUS
<1>2. x.stage = "found" /\ x.op \in Placing /\ x.stage \in InFlight
  BY <1>1 DEF Clear, Placing, InFlight
<1>3. PICK w : w = Moved(q, "cleared")
  OBVIOUS
<1>4. /\ Carries(x) /\ Refers(x) /\ Counts(x) /\ x.stage # "unsent"
      /\ w \in Request /\ w.stage = "cleared" /\ w.op = x.op /\ w.room = x.room
      /\ w.found = x.found /\ w.old = x.old /\ w.resident = x.resident
      /\ w.reads = x.reads /\ w.stale = x.stale /\ x.room \in Rooms
  BY <1>1, <1>2, <1>3, MovedFields DEF Stages, InFlight, Request
<1>5. /\ x.found \in RoomRow /\ x.found.occupied \in Nat /\ x.found.capacity \in Nat
  BY <1>2, <1>4 DEF Carries, RoomRow
<1>6. PICK c : c = Counted(q)
  OBVIOUS
<1>7. c \in Nat /\ x.found.occupied <= c /\ c < x.found.capacity
  <2>1. Cardinality(TakenIn(q)) \in Nat
    BY TakenCounted DEF TakenIn
  <2>2. PICK k \in Nat : k = Cardinality(TakenIn(q))
    BY <2>1
  <2>3. c = Larger(k, x.found.occupied) /\ ~(c >= x.found.capacity)
    BY <1>1, <1>6, <2>2 DEF Clear, Full, Counted
  <2>4. QED BY <1>5, <2>2, <2>3 DEF Larger
<1>8. PICK row : row = OneMoreThan(x.found, c)
  OBVIOUS
<1>9. row.occupied = c + 1 /\ row.capacity = x.found.capacity
  BY <1>5, <1>8 DEF OneMoreThan, RoomRow
<1>10. PICK items : items = x.reads \cup {<<"beds", x.room>>}
  OBVIOUS
<1>11. PICK y : y = [w EXCEPT !.found = row, !.reads = items]
  OBVIOUS
<1>12. /\ y.stage = "cleared" /\ y.op = x.op /\ y.room = x.room /\ y.old = x.old
       /\ y.resident = x.resident /\ y.found = row /\ y.reads = items /\ y.stale = x.stale
  BY <1>4, <1>11 DEF Request
<1>13. Reading(q, y) /\ UNCHANGED <<rooms, residents, raced, unsettled>>
  BY <1>1, <1>3, <1>6, <1>8, <1>10, <1>11 DEF Clear, WithBeds
<1>14. Refers(y)
  BY <1>4, <1>12 DEF Refers
<1>15. Counts(y)
  <2>1. Holds(x, <<"room", x.room>>, rooms[x.room].occupied <= x.found.occupied)
    BY <1>2, <1>4 DEF Counts
  <2>2. rooms[x.room].occupied \in Nat
    BY <1>4 DEF Refers, IInv, Shape, RoomsTypeOK, RoomRow
  <2>3. row.occupied <= row.capacity
    BY <1>5, <1>7, <1>9
  <2>4. rooms[x.room].occupied <= x.found.occupied => rooms[x.room].occupied + 1 <= row.occupied
    BY <1>5, <1>7, <1>9, <2>2
  <2>5. QED BY <1>10, <1>12, <2>1, <2>3, <2>4 DEF Counts, Holds
<1>16. \A n : ~Comes(y, n) /\ ~Arrives(x, n) /\ ~Leaves(x, n)
  BY <1>2, <1>12 DEF Comes, Arrives, Leaves
<1>17. unsettled \subseteq unsettled'
  BY <1>13
<1>18. QED BY <1>1, <1>13, <1>14, <1>15, <1>16, <1>17, QuietCount

LEMMA ClearBedCount ==
  ASSUME IInv, CountInv, NEW q \in Requests, ClearBed(q)
  PROVE  CountInv'
<1>1. PICK x : x = req[q]
  OBVIOUS
<1>2. x.stage = "found" /\ x.op = "rebed" /\ x.stage \in InFlight
  BY <1>1 DEF ClearBed, InFlight
<1>3. PICK w : w = Moved(q, "ready")
  OBVIOUS
<1>4. /\ Refers(x) /\ x.stage # "unsent"
      /\ w \in Request /\ w.stage = "ready" /\ w.op = x.op /\ w.room = x.room
      /\ w.resident = x.resident
  BY <1>1, <1>2, <1>3, MovedFields DEF Stages, InFlight
<1>5. PICK y : y = [w EXCEPT !.reads = WithBeds(q)]
  OBVIOUS
<1>6. y.stage = "ready" /\ y.op = x.op /\ y.room = x.room /\ y.resident = x.resident
  BY <1>4, <1>5 DEF Request
<1>7. Reading(q, y) /\ UNCHANGED <<rooms, residents, raced, unsettled>>
  BY <1>3, <1>5 DEF ClearBed
<1>8. Refers(y) /\ Counts(y)
  BY <1>2, <1>4, <1>6 DEF Refers, Counts, Placing
<1>9. \A n : ~Comes(y, n) /\ ~Arrives(x, n) /\ ~Leaves(x, n)
  BY <1>2, <1>6 DEF Comes, Arrives, Leaves
<1>10. unsettled \subseteq unsettled'
  BY <1>7
<1>11. QED BY <1>1, <1>7, <1>8, <1>9, <1>10, QuietCount

LEMMA FindOldRoomCount ==
  ASSUME IInv, CountInv, NEW q \in Requests, FindOldRoom(q)
  PROVE  CountInv'
<1>1. PICK x : x = req[q]
  OBVIOUS
<1>2. /\ x.stage \in InFlight
      /\ \/ x.stage = "cleared" /\ x.op = "move"
         \/ x.stage = "found" /\ x.op = "delete"
  BY <1>1 DEF FindOldRoom, InFlight
<1>3. PICK w : w = Moved(q, "parting")
  OBVIOUS
<1>4. /\ Carries(x) /\ Refers(x) /\ Counts(x) /\ x.stage # "unsent"
      /\ w \in Request /\ w.stage = "parting" /\ w.op = x.op /\ w.room = x.room
      /\ w.found = x.found /\ w.old = x.old /\ w.resident = x.resident
      /\ w.reads = x.reads /\ w.stale = x.stale
  BY <1>1, <1>2, <1>3, MovedFields DEF Stages, InFlight
<1>5. x.resident \in ResidentRow /\ x.resident # None /\ x.resident.room \in Rooms
  BY <1>2, <1>4 DEF Carries, OfResident, ResidentRow
<1>6. PICK m \in Rooms : m = x.resident.room
  BY <1>5
<1>7. /\ rooms[m] \in RoomRow /\ rooms[m].occupied \in Nat /\ rooms[m].capacity \in Nat
  BY <1>4, <1>5, <1>6 DEF Refers, IInv, Shape, RoomsTypeOK, RoomRow
<1>8. PICK less : less = OneLess(rooms[m])
  OBVIOUS
<1>9. /\ less.capacity = rooms[m].capacity /\ less.occupied <= rooms[m].occupied
      /\ rooms[m].occupied <= less.occupied + 1
  <2>1. PICK c \in Nat : c = IF rooms[m].occupied = 0 THEN 0 ELSE rooms[m].occupied - 1
    BY <1>7
  <2>2. less.occupied = c /\ less.capacity = rooms[m].capacity
    BY <1>7, <1>8, <2>1 DEF OneLess, RoomRow
  <2>3. QED BY <1>7, <2>1, <2>2
<1>10. PICK row : row = IF OldRoom(q) # None /\ OldRoom(q).hostel = x.resident.hostel
                        THEN OneLess(OldRoom(q)) ELSE None
  OBVIOUS
<1>11. row \in {less, None}
  BY <1>1, <1>6, <1>8, <1>10 DEF OldRoom
<1>12. PICK items : items = x.reads \cup {<<"room", m>>}
  OBVIOUS
<1>13. PICK y : y = [w EXCEPT !.old = row, !.reads = items]
  OBVIOUS
<1>14. /\ y.stage = "parting" /\ y.op = x.op /\ y.room = x.room /\ y.old = row
       /\ y.resident = x.resident /\ y.found = x.found /\ y.reads = items
       /\ y.stale = x.stale
  BY <1>4, <1>13 DEF Request
<1>15. Reading(q, y) /\ UNCHANGED <<rooms, residents, raced, unsettled>>
  <2>1. y = [w EXCEPT !.old = row, !.reads = w.reads \cup {<<"room", x.resident.room>>}]
    BY <1>4, <1>6, <1>12, <1>13
  <2>2. QED BY <1>1, <1>3, <1>10, <2>1 DEF FindOldRoom
<1>16. Refers(y)
  BY <1>4, <1>14 DEF Refers
<1>17. Counts(y)
  <2>1. x.op \in Placing =>
          /\ x.found.occupied <= x.found.capacity
          /\ Holds(x, <<"room", x.room>>, rooms[x.room].occupied + 1 <= x.found.occupied)
    BY <1>2, <1>4 DEF Counts, Placing
  <2>2. row # None => /\ rooms[m].capacity = row.capacity
                      /\ row.occupied <= rooms[m].occupied
                      /\ rooms[m].occupied <= row.occupied + 1
    BY <1>9, <1>11
  <2>3. QED BY <1>6, <1>12, <1>14, <2>1, <2>2 DEF Counts, Holds
<1>18. \A n : ~Comes(y, n) /\ ~Arrives(x, n) /\ ~Leaves(x, n)
  BY <1>2, <1>14 DEF Comes, Arrives, Leaves
<1>19. unsettled \subseteq unsettled'
  BY <1>15
<1>20. QED BY <1>1, <1>15, <1>16, <1>17, <1>18, <1>19, QuietCount

-----------------------------------------------------------------------------
(* A step that saves a room and no resident.                               *)
LEMMA RoomCount ==
  ASSUME IInv, CountInv, NEW q \in Requests, NEW x, x = req[q], NEW y,
         NEW m \in Rooms, NEW row \in RoomRow, rooms[m] # None,
         Step(q, y, {<<"room", m>>}), WriteRoom(m, row), residents' = residents,
         raced \subseteq raced', unsettled \subseteq unsettled', Refers(y), Counts(y)',
         \A n \in Rooms \ {m} : /\ Comes(y, n) => Comes(x, n)
                                /\ Arrives(x, n) => Arrives(y, n)
                                /\ Leaves(x, n) => Leaves(y, n),
         m \notin raced' \cup unsettled' =>
           /\ row.occupied <= row.capacity
           /\ rooms[m].occupied + Bit(Comes(y, m)) + Bit(Arrives(x, m)) + Bit(Leaves(x, m))
                <= row.occupied + Bit(Comes(x, m)) + Bit(Arrives(y, m)) + Bit(Leaves(y, m))
  PROVE  CountInv'
<1>1. PICK items : items = {<<"room", m>>} /\ Step(q, y, items)
  OBVIOUS
<1>2. PICK u : u = x
  OBVIOUS
<1>3. /\ rooms \in [Rooms -> RoomRow \cup {None}]
      /\ residents \in [Users -> ResidentRow \cup {None}]
  BY DEF IInv, Shape, RoomsTypeOK
<1>4. /\ rooms' \in [Rooms -> RoomRow \cup {None}] /\ rooms'[m] = row /\ row # None
      /\ \A n \in Rooms \ {m} : rooms'[n] = rooms[n]
  BY <1>3 DEF WriteRoom
<1>5. /\ RoomsCovered(items)
      /\ \A n \in Rooms : rooms[n] = None => rooms'[n] = None
  BY <1>1, <1>4 DEF RoomsCovered
<1>6. Refers(y)'
  <2>1. \A r : r # None /\ rooms[r] # None => rooms'[r] # None
    BY <1>3, <1>4 DEF WriteRoom
  <2>2. QED BY <1>3, <1>4, <2>1 DEF Refers, WriteRoom
<1>7. ASSUME NEW n \in Rooms \ (raced' \cup unsettled'), rooms[n] # None
      PROVE  /\ rooms'[n].occupied <= rooms'[n].capacity
             /\ rooms[n].occupied + Bit(u \in Occupants(n)') + Bit(Comes(y, n))
                    + Bit(Arrives(x, n)) + Bit(Leaves(x, n))
                  <= rooms'[n].occupied + Bit(u \in Occupants(n)) + Bit(Comes(x, n))
                    + Bit(Arrives(y, n)) + Bit(Leaves(y, n))
  <2>1. n \notin raced \cup unsettled
    BY <1>7
  <2>2. /\ rooms[n].occupied \in Nat /\ rooms[n].capacity \in Nat
        /\ rooms[n].occupied <= rooms[n].capacity
    BY <1>7, <2>1, SettledRoom
  <2>3. u \in Occupants(n)' <=> u \in Occupants(n)
    BY DEF Occupants, LivesIn
  <2>4. CASE n = m
    <3>1. /\ row.occupied <= row.capacity
          /\ rooms[n].occupied + Bit(Comes(y, n)) + Bit(Arrives(x, n)) + Bit(Leaves(x, n))
               <= row.occupied + Bit(Comes(x, n)) + Bit(Arrives(y, n)) + Bit(Leaves(y, n))
      BY <1>7, <2>4
    <3>2. row.occupied \in Nat /\ rooms'[n] = row
      BY <1>4, <2>4 DEF RoomRow
    <3>3. QED BY <2>2, <2>3, <3>1, <3>2 DEF Bit
  <2>5. CASE n # m
    <3>1. /\ Comes(y, n) => Comes(x, n)
          /\ Arrives(x, n) => Arrives(y, n)
          /\ Leaves(x, n) => Leaves(y, n)
      BY <2>5
    <3>2. rooms'[n] = rooms[n]
      BY <1>4, <2>5
    <3>3. QED BY <2>2, <2>3, <3>1, <3>2 DEF Bit
  <2>6. QED BY <2>4, <2>5
<1>8. /\ \A v \in Users \ {u} : residents'[v] = residents[v]
      /\ u \in Users => residents'[u] = residents[u]
  OBVIOUS
<1>9. QED BY <1>1, <1>3, <1>4, <1>5, <1>6, <1>7, <1>8, CountStep

(* A step that saves or deletes a resident and saves no room.              *)
LEMMA ResidentCount ==
  ASSUME IInv, CountInv, NEW q \in Requests, NEW x, x = req[q], NEW y, NEW items,
         NEW u \in Users, NEW row \in ResidentRow \cup {None}, WriteResident(u, row),
         row # None => rooms[row.room] # None,
         Step(q, y, items), UNCHANGED <<rooms, unsettled>>, raced \subseteq raced',
         Refers(y), Counts(y),
         \A n \in Rooms \ raced' :
           Bit(row # None /\ row.room = n) + Bit(Comes(y, n))
               + Bit(Arrives(x, n)) + Bit(Leaves(x, n))
             <= Bit(residents[u] # None /\ residents[u].room = n) + Bit(Comes(x, n))
               + Bit(Arrives(y, n)) + Bit(Leaves(y, n))
  PROVE  CountInv'
<1>1. residents \in [Users -> ResidentRow \cup {None}]
  BY DEF IInv, Shape, RoomsTypeOK
<1>2. residents'[u] = row /\ \A v \in Users \ {u} : residents'[v] = residents[v]
  BY <1>1 DEF WriteResident
<1>3. /\ RoomsCovered(items) /\ rooms' \in [Rooms -> RoomRow \cup {None}]
      /\ \A n \in Rooms : rooms[n] = None => rooms'[n] = None
  BY DEF RoomsCovered, IInv, Shape, RoomsTypeOK
<1>4. residents'[u] = None \/ residents'[u] = residents[u] \/ rooms'[residents'[u].room] # None
  BY <1>2
<1>5. Refers(y)' /\ Counts(y)'
  BY DEF Refers, Counts, Holds
<1>6. ASSUME NEW n \in Rooms \ (raced' \cup unsettled'), rooms[n] # None
      PROVE  /\ rooms'[n].occupied <= rooms'[n].capacity
             /\ rooms[n].occupied + Bit(u \in Occupants(n)') + Bit(Comes(y, n))
                    + Bit(Arrives(x, n)) + Bit(Leaves(x, n))
                  <= rooms'[n].occupied + Bit(u \in Occupants(n)) + Bit(Comes(x, n))
                    + Bit(Arrives(y, n)) + Bit(Leaves(y, n))
  <2>1. n \notin raced \cup unsettled
    BY <1>6
  <2>2. /\ rooms[n].occupied \in Nat /\ rooms[n].capacity \in Nat
        /\ rooms[n].occupied <= rooms[n].capacity
    BY <1>6, <2>1, SettledRoom
  <2>3. /\ u \in Occupants(n)' <=> row # None /\ row.room = n
        /\ u \in Occupants(n) <=> residents[u] # None /\ residents[u].room = n
    BY <1>2 DEF Occupants, LivesIn
  <2>4. Bit(u \in Occupants(n)') + Bit(Comes(y, n)) + Bit(Arrives(x, n)) + Bit(Leaves(x, n))
          <= Bit(u \in Occupants(n)) + Bit(Comes(x, n)) + Bit(Arrives(y, n)) + Bit(Leaves(y, n))
    <3>1. Bit(row # None /\ row.room = n) + Bit(Comes(y, n))
              + Bit(Arrives(x, n)) + Bit(Leaves(x, n))
            <= Bit(residents[u] # None /\ residents[u].room = n) + Bit(Comes(x, n))
              + Bit(Arrives(y, n)) + Bit(Leaves(y, n))
      BY <1>6
    <3>2. QED BY <2>3, <3>1 DEF Bit
  <2>5. \A P : Bit(P) \in {0, 1}
    BY DEF Bit
  <2>6. rooms'[n] = rooms[n]
    OBVIOUS
  <2>7. QED BY <2>2, <2>4, <2>5, <2>6
<1>7. unsettled \subseteq unsettled'
  OBVIOUS
<1>8. QED BY <1>1, <1>2, <1>3, <1>4, <1>5, <1>6, <1>7, CountStep

LEMMA NotRaced ==
  ASSUME NEW q \in Requests, NEW written, Race(q, written), NEW n \in written, n \notin raced'
  PROVE  /\ <<"room", n>> \notin req[q].stale
         /\ <<"resident", req[q].user>> \notin req[q].stale
BY DEF Race, OldFor

LEMMA SaveOldRoomCount ==
  ASSUME IInv, CountInv, NEW q \in Requests, SaveOldRoom(q)
  PROVE  CountInv'
<1>1. PICK x : x = req[q]
  OBVIOUS
<1>2. x.stage = "parting" /\ x.stage \in InFlight
  BY <1>1 DEF SaveOldRoom, InFlight
<1>3. PICK y : y = Moved(q, "freed")
  OBVIOUS
<1>4. /\ x \in Request /\ Carries(x) /\ Refers(x) /\ Counts(x) /\ x.stage # "unsent"
      /\ y \in Request /\ y.stage = "freed" /\ y.op = x.op /\ y.room = x.room
      /\ y.found = x.found /\ y.old = x.old /\ y.resident = x.resident
      /\ y.reads = x.reads /\ y.stale = x.stale
  BY <1>1, <1>2, <1>3, MovedFields DEF Stages, InFlight
<1>5. x.op \in {"move", "delete"} /\ x.resident \in ResidentRow /\ x.resident # None
  BY <1>2, <1>4 DEF Carries, OfResident
<1>6. PICK m \in Rooms : m = x.resident.room
  BY <1>5 DEF ResidentRow
<1>7. Refers(y)
  BY <1>4 DEF Refers
<1>8. \A n : ~Comes(y, n) /\ ~Comes(x, n) /\ ~Arrives(x, n) /\ ~Arrives(y, n) /\ ~Leaves(x, n)
  BY <1>2, <1>4 DEF Comes, Arrives, Leaves
<1>9. x.op = "move" =>
        /\ x.found.occupied <= x.found.capacity
        /\ Holds(x, <<"room", x.room>>, rooms[x.room].occupied + 1 <= x.found.occupied)
  BY <1>2, <1>4 DEF Counts, Placing
<1>10. unsettled \subseteq unsettled' /\ residents' = residents
  BY DEF SaveOldRoom
<1>11. CASE x.old = None
  <2>1. Reading(q, y) /\ UNCHANGED <<rooms, residents, raced>>
    BY <1>1, <1>3, <1>11 DEF SaveOldRoom
  <2>2. Counts(y)
    BY <1>4, <1>5, <1>9 DEF Counts, Holds, Placing
  <2>3. QED BY <1>1, <1>7, <1>8, <1>10, <2>1, <2>2, QuietCount
<1>12. CASE x.old # None
  <2>1. x.old \in RoomRow /\ x.old.occupied \in Nat /\ x.old.capacity \in Nat
    BY <1>4, <1>12 DEF Request, RoomRow
  <2>2. /\ Step(q, y, {<<"room", m>>}) /\ WriteRoom(m, x.old) /\ Race(q, {m})
    BY <1>1, <1>3, <1>6, <1>12 DEF SaveOldRoom
  <2>3. rooms[m] # None /\ rooms \in [Rooms -> RoomRow \cup {None}]
    BY <1>4, <1>5, <1>6 DEF Refers, IInv, Shape, RoomsTypeOK
  <2>4. \A n \in Rooms \ {m} : rooms'[n] = rooms[n]
    BY <2>2, <2>3 DEF WriteRoom
  <2>5. x.room \in Rooms /\ (x.op = "move" => m # x.room \/ <<"room", x.room>> \in x.stale)
    BY <1>2, <1>4, <1>6, <1>12 DEF Carries, Request
  <2>6. Counts(y)'
    <3>1. x.op = "move" =>
            Holds(y, <<"room", y.room>>, rooms'[y.room].occupied + 1 <= y.found.occupied)
      BY <1>4, <1>9, <2>4, <2>5 DEF Holds
    <3>2. QED BY <1>4, <1>5, <1>9, <3>1 DEF Counts, Holds, Placing
  <2>7. raced \subseteq raced'
    BY <2>2 DEF Race
  <2>8. ASSUME m \notin raced' \cup unsettled'
        PROVE  /\ x.old.occupied <= x.old.capacity
               /\ rooms[m].occupied + Bit(Comes(y, m)) + Bit(Arrives(x, m)) + Bit(Leaves(x, m))
                    <= x.old.occupied + Bit(Comes(x, m)) + Bit(Arrives(y, m)) + Bit(Leaves(y, m))
    <3>1. <<"room", m>> \notin x.stale
      BY <1>1, <2>2, <2>8, NotRaced
    <3>2. /\ rooms[m].capacity = x.old.capacity /\ x.old.occupied <= rooms[m].occupied
          /\ rooms[m].occupied <= x.old.occupied + 1
      BY <1>2, <1>4, <1>6, <1>12, <3>1 DEF Counts, Holds
    <3>3. /\ rooms[m].occupied \in Nat /\ rooms[m].occupied <= rooms[m].capacity
      BY <1>10, <2>3, <2>7, <2>8, SettledRoom
    <3>4. Leaves(y, m)
      BY <1>4, <1>5, <1>6, <1>12 DEF Leaves
    <3>5. QED BY <1>8, <2>1, <3>2, <3>3, <3>4 DEF Bit
  <2>9. QED BY <1>1, <1>7, <1>8, <1>10, <2>1, <2>2, <2>3, <2>6, <2>7, <2>8, RoomCount
<1>13. QED BY <1>11, <1>12

LEMMA SaveRoomCount ==
  ASSUME IInv, CountInv, NEW q \in Requests, SaveRoom(q)
  PROVE  CountInv'
<1>1. PICK x : x = req[q]
  OBVIOUS
<1>2. x.stage \in InFlight
  BY <1>1 DEF SaveRoom, InFlight
<1>3. PICK s \in {"ready", "done"} : s = IF x.op = "move" THEN "ready" ELSE "done"
  OBVIOUS
<1>4. PICK y : y = Moved(q, s)
  OBVIOUS
<1>5. /\ x \in Request /\ Carries(x) /\ Refers(x) /\ Counts(x) /\ x.stage # "unsent"
      /\ y \in Request /\ y.stage = s /\ y.op = x.op /\ y.room = x.room
      /\ y.old = x.old /\ y.resident = x.resident
  BY <1>1, <1>2, <1>4, MovedFields DEF Stages, InFlight
<1>6. \/ x.stage = "placed" /\ x.op = "create"
      \/ x.stage = "found" /\ x.op = "room"
      \/ x.stage = "freed" /\ x.op = "move"
  BY <1>1, <1>5 DEF SaveRoom, Carries
<1>7. /\ x.found \in RoomRow /\ x.found.occupied \in Nat /\ x.found.capacity \in Nat
  BY <1>5, <1>6 DEF Carries, Placing, RoomRow
<1>8. PICK m \in Rooms : m = x.room
  BY <1>5 DEF Request
<1>9. /\ Step(q, y, {<<"room", m>>}) /\ WriteRoom(m, x.found) /\ Race(q, {m})
      /\ residents' = residents /\ unsettled \subseteq unsettled'
  BY <1>1, <1>3, <1>4, <1>8 DEF SaveRoom
<1>10. rooms[m] # None
  BY <1>5, <1>8 DEF Refers
<1>11. Refers(y) /\ Counts(y)'
  BY <1>3, <1>5, <1>6 DEF Refers, Counts, InFlight, Placing
<1>12. raced \subseteq raced'
  BY <1>9 DEF Race
<1>13. ASSUME NEW n \in Rooms \ {m}
       PROVE  /\ Comes(y, n) => Comes(x, n)
              /\ Arrives(x, n) => Arrives(y, n)
              /\ Leaves(x, n) => Leaves(y, n)
  BY <1>3, <1>5, <1>6, <1>8 DEF Comes, Arrives, Leaves
<1>14. ASSUME m \notin raced' \cup unsettled'
       PROVE  /\ x.found.occupied <= x.found.capacity
              /\ rooms[m].occupied + Bit(Comes(y, m)) + Bit(Arrives(x, m)) + Bit(Leaves(x, m))
                   <= x.found.occupied + Bit(Comes(x, m)) + Bit(Arrives(y, m)) + Bit(Leaves(y, m))
  <2>1. <<"room", m>> \notin x.stale
    BY <1>1, <1>9, <1>14, NotRaced
  <2>2. /\ rooms[m].occupied \in Nat /\ rooms[m].occupied <= rooms[m].capacity
    BY <1>9, <1>10, <1>12, <1>14, SettledRoom
  <2>3. CASE x.op = "room"
    <3>1. x.found.occupied = rooms[m].occupied /\ x.found.capacity = rooms[m].capacity
      BY <1>1, <1>8, <1>10, <1>14, <2>3 DEF SaveRoom
    <3>2. \A n : ~Comes(y, n) /\ ~Arrives(x, n) /\ ~Leaves(x, n)
      BY <1>5, <1>6, <2>3 DEF Comes, Arrives, Leaves
    <3>3. QED BY <1>7, <2>2, <3>1, <3>2 DEF Bit
  <2>4. CASE x.op \in {"create", "move"}
    <3>1. /\ x.found.occupied <= x.found.capacity
          /\ rooms[m].occupied + 1 <= x.found.occupied
      BY <1>2, <1>5, <1>6, <1>8, <2>1, <2>4 DEF Counts, Holds, Placing
    <3>2. Bit(Comes(y, m)) + Bit(Arrives(x, m)) + Bit(Leaves(x, m)) <= 1 + Bit(Leaves(y, m))
      <4>1. CASE x.op = "create"
        <5>1. ~Comes(y, m) /\ ~Leaves(x, m)
          BY <1>5, <4>1 DEF Comes, Leaves
        <5>2. QED BY <5>1 DEF Bit
      <4>2. CASE x.op = "move"
        <5>1. ~Arrives(x, m) /\ (Leaves(x, m) => Leaves(y, m))
          BY <1>3, <1>5, <1>6, <4>2 DEF Arrives, Leaves
        <5>2. QED BY <5>1 DEF Bit
      <4>3. QED BY <2>4, <4>1, <4>2
    <3>3. \A P : Bit(P) \in {0, 1}
      BY DEF Bit
    <3>4. QED BY <1>7, <2>2, <3>1, <3>2, <3>3
  <2>5. QED BY <1>6, <2>3, <2>4
<1>15. QED BY <1>1, <1>7, <1>9, <1>10, <1>11, <1>12, <1>13, <1>14, RoomCount

LEMMA PlaceResidentCount ==
  ASSUME IInv, CountInv, NEW q \in Requests, PlaceResident(q)
  PROVE  CountInv'
<1>1. PICK x : x = req[q]
  OBVIOUS
<1>2. x.stage = "cleared" /\ x.op = "create" /\ x.stage \in InFlight
  BY <1>1 DEF PlaceResident, InFlight
<1>3. PICK y : y = Moved(q, "placed")
  OBVIOUS
<1>4. /\ x \in Request /\ Carries(x) /\ Refers(x) /\ Counts(x) /\ x.stage # "unsent"
      /\ y \in Request /\ y.stage = "placed" /\ y.op = x.op /\ y.room = x.room
      /\ y.found = x.found /\ y.resident = x.resident
      /\ y.reads = x.reads /\ y.stale = x.stale
  BY <1>1, <1>2, <1>3, MovedFields DEF Stages, InFlight
<1>5. /\ x.placement \in ResidentRow /\ x.placement # None /\ x.placement.room = x.room
      /\ x.user \in Users
  BY <1>2, <1>4 DEF Carries, Placing
<1>6. rooms[x.placement.room] # None
  BY <1>4, <1>5 DEF Refers
<1>7. PICK items : items = Changed(x.user, x.placement)
  OBVIOUS
<1>8. /\ WriteResident(x.user, x.placement) /\ Step(q, y, items)
      /\ UNCHANGED <<rooms, unsettled>> /\ raced \subseteq raced'
  BY <1>1, <1>3, <1>7 DEF PlaceResident, Race
<1>9. Refers(y) /\ Counts(y)
  BY <1>2, <1>4 DEF Refers, Counts, Holds, InFlight
<1>10. ASSUME NEW n \in Rooms \ raced'
       PROVE  Bit(x.placement # None /\ x.placement.room = n) + Bit(Comes(y, n))
                  + Bit(Arrives(x, n)) + Bit(Leaves(x, n))
                <= Bit(residents[x.user] # None /\ residents[x.user].room = n)
                  + Bit(Comes(x, n)) + Bit(Arrives(y, n)) + Bit(Leaves(y, n))
  <2>1. ~Comes(y, n) /\ ~Arrives(x, n) /\ ~Leaves(x, n) /\ (Arrives(y, n) <=> x.room = n)
    BY <1>2, <1>4 DEF Comes, Arrives, Leaves
  <2>2. QED BY <1>5, <2>1 DEF Bit
<1>11. x.placement \in ResidentRow \cup {None}
  BY <1>5
<1>12. QED BY <1>1, <1>5, <1>6, <1>8, <1>9, <1>10, <1>11, ResidentCount

(* A resident's save or deletion that leaves a room unraced read its row   *)
(* as it still is.                                                         *)
LEMMA ResidentAsRead ==
  ASSUME IInv, NEW q \in Requests, req[q].stage \in InFlight, req[q].op \in OfResident,
         Race(q, RoomsOf(q)), NEW n \in RoomsOf(q), n \notin raced'
  PROVE  residents[req[q].user] = req[q].resident /\ req[q].resident # None
<1>1. <<"resident", req[q].user>> \notin req[q].stale
  BY NotRaced
<1>2. Carries(req[q]) /\ Knows(req[q])
  BY InFlightCarries
<1>3. req[q].resident \in ResidentRow
  BY <1>2 DEF Carries
<1>4. residents[req[q].user] = req[q].resident
  BY <1>1, <1>2 DEF Knows, Holds
<1>5. QED BY <1>3, <1>4

LEMMA SaveResidentCount ==
  ASSUME IInv, CountInv, NEW q \in Requests, SaveResident(q)
  PROVE  CountInv'
<1>1. PICK x : x = req[q]
  OBVIOUS
<1>2. x.stage \in InFlight
  BY <1>1 DEF SaveResident, InFlight
<1>3. PICK y : y = Moved(q, "done")
  OBVIOUS
<1>4. /\ x \in Request /\ Carries(x) /\ Refers(x) /\ x.stage # "unsent"
      /\ y \in Request /\ y.stage = "done" /\ y.op = x.op /\ y.room = x.room
      /\ y.resident = x.resident
  BY <1>1, <1>2, <1>3, MovedFields DEF Stages, InFlight
<1>5. \/ x.stage = "ready" /\ x.op \in {"move", "rebed"}
      \/ x.stage = "found" /\ x.op = "edit"
  BY <1>1, <1>4 DEF SaveResident, Carries
<1>6. /\ x.placement \in ResidentRow /\ x.placement # None /\ x.placement.room = x.room
      /\ x.resident \in ResidentRow /\ x.resident # None
      /\ x.user \in Users /\ x.op \in OfResident
  BY <1>4, <1>5 DEF Carries, Placing, OfResident
<1>20. PICK row : row = Saved(q)
  OBVIOUS
<1>21. row \in ResidentRow /\ row # None /\ row.room = x.room
  <2>1. row = [x.placement EXCEPT !.hostel = x.resident.hostel]
    BY <1>1, <1>20 DEF Saved
  <2>2. QED BY <1>6, <2>1 DEF ResidentRow
<1>7. rooms[row.room] # None
  BY <1>4, <1>21 DEF Refers
<1>8. PICK items : items = Changed(x.user, row)
  OBVIOUS
<1>9. /\ WriteResident(x.user, row) /\ Step(q, y, items)
      /\ UNCHANGED <<rooms, unsettled>> /\ raced \subseteq raced' /\ Race(q, RoomsOf(q))
  BY <1>1, <1>3, <1>8, <1>20 DEF SaveResident, Race
<1>10. Refers(y) /\ Counts(y)
  BY <1>4 DEF Refers, Counts, InFlight
<1>11. x.room \in RoomsOf(q) /\ x.resident.room \in RoomsOf(q)
  BY <1>1, <1>6 DEF RoomsOf
<1>12. ASSUME NEW n \in Rooms \ raced'
       PROVE  Bit(row # None /\ row.room = n) + Bit(Comes(y, n))
                  + Bit(Arrives(x, n)) + Bit(Leaves(x, n))
                <= Bit(residents[x.user] # None /\ residents[x.user].room = n)
                  + Bit(Comes(x, n)) + Bit(Arrives(y, n)) + Bit(Leaves(y, n))
  <2>1. ~Comes(y, n) /\ ~Arrives(x, n)
    BY <1>4, <1>5 DEF Comes, Arrives
  <2>2. x.room = n \/ x.resident.room = n => residents[x.user] = x.resident
    BY <1>1, <1>2, <1>6, <1>9, <1>11, ResidentAsRead
  <2>3. \A P : Bit(P) \in {0, 1}
    BY DEF Bit
  <2>4. CASE x.op = "move"
    <3>1. (Comes(x, n) <=> x.room = n) /\ (Leaves(x, n) => x.resident.room = n)
      BY <1>5, <2>4 DEF Comes, Leaves
    <3>2. Leaves(x, n) => residents[x.user] # None /\ residents[x.user].room = n
      BY <1>6, <2>2, <3>1
    <3>3. /\ Bit(row # None /\ row.room = n) = Bit(Comes(x, n))
          /\ Bit(Leaves(x, n)) <= Bit(residents[x.user] # None /\ residents[x.user].room = n)
      BY <1>21, <3>1, <3>2 DEF Bit
    <3>4. Bit(Comes(y, n)) = 0 /\ Bit(Arrives(x, n)) = 0
      BY <2>1 DEF Bit
    <3>5. QED BY <2>3, <3>3, <3>4
  <2>5. CASE x.op \in {"rebed", "edit"}
    <3>1. x.resident.room = x.room /\ ~Leaves(x, n)
      BY <1>4, <1>6, <2>5 DEF Refers, Carries, Leaves
    <3>2. x.room = n => residents[x.user] # None /\ residents[x.user].room = n
      BY <1>6, <2>2, <3>1
    <3>3. Bit(row # None /\ row.room = n)
            <= Bit(residents[x.user] # None /\ residents[x.user].room = n)
      BY <1>21, <3>2 DEF Bit
    <3>4. Bit(Comes(y, n)) = 0 /\ Bit(Arrives(x, n)) = 0 /\ Bit(Leaves(x, n)) = 0
      BY <2>1, <3>1 DEF Bit
    <3>5. QED BY <2>3, <3>3, <3>4
  <2>6. QED BY <1>5, <2>4, <2>5
<1>13. row \in ResidentRow \cup {None} /\ (row # None => rooms[row.room] # None)
  BY <1>7, <1>21
<1>14. QED BY <1>1, <1>6, <1>7, <1>9, <1>10, <1>12, <1>13, ResidentCount

LEMMA DeleteResidentCount ==
  ASSUME IInv, CountInv, NEW q \in Requests, DeleteResident(q)
  PROVE  CountInv'
<1>1. PICK x : x = req[q]
  OBVIOUS
<1>2. x.stage = "freed" /\ x.op = "delete" /\ x.stage \in InFlight /\ x.op \in OfResident
  BY <1>1 DEF DeleteResident, InFlight, OfResident
<1>3. PICK y : y = Moved(q, "done")
  OBVIOUS
<1>4. /\ Carries(x) /\ Refers(x) /\ x.stage # "unsent"
      /\ y.stage = "done" /\ y.op = x.op /\ y.room = x.room /\ y.resident = x.resident
  BY <1>1, <1>2, <1>3, MovedFields DEF Stages, InFlight
<1>5. x.resident \in ResidentRow /\ x.resident # None /\ x.user \in Users
  BY <1>2, <1>4 DEF Carries
<1>6. PICK items, row : items = Changed(x.user, row) /\ row = None
  OBVIOUS
<1>7. /\ WriteResident(x.user, row) /\ Step(q, y, items)
      /\ UNCHANGED <<rooms, unsettled>> /\ raced \subseteq raced' /\ Race(q, RoomsOf(q))
  BY <1>1, <1>3, <1>6 DEF DeleteResident, Race
<1>8. Refers(y) /\ Counts(y)
  BY <1>4 DEF Refers, Counts, InFlight
<1>9. x.resident.room \in RoomsOf(q)
  BY <1>1, <1>5 DEF RoomsOf
<1>10. ASSUME NEW n \in Rooms \ raced'
       PROVE  Bit(row # None /\ row.room = n) + Bit(Comes(y, n))
                  + Bit(Arrives(x, n)) + Bit(Leaves(x, n))
                <= Bit(residents[x.user] # None /\ residents[x.user].room = n)
                  + Bit(Comes(x, n)) + Bit(Arrives(y, n)) + Bit(Leaves(y, n))
  <2>1. ~Comes(y, n) /\ ~Arrives(x, n) /\ (Leaves(x, n) => x.resident.room = n)
    BY <1>2, <1>4 DEF Comes, Arrives, Leaves
  <2>2. x.resident.room = n => residents[x.user] = x.resident
    BY <1>1, <1>2, <1>7, <1>9, ResidentAsRead
  <2>3. Leaves(x, n) => residents[x.user] # None /\ residents[x.user].room = n
    BY <1>5, <2>1, <2>2
  <2>4. QED BY <1>6, <2>1, <2>3 DEF Bit
<1>11. row \in ResidentRow \cup {None} /\ (row # None => rooms[row.room] # None)
  BY <1>6
<1>12. QED BY <1>1, <1>5, <1>7, <1>8, <1>10, <1>11, ResidentCount

LEMMA CommitImportCount ==
  ASSUME IInv, CountInv, NEW q \in Requests, CommitImport(q)
  PROVE  CountInv'
<1>1. PICK x : x = req[q]
  OBVIOUS
<1>2. x.stage = "cleared" /\ x.op = "import" /\ x.stage \in InFlight
  BY <1>1 DEF CommitImport, InFlight
<1>3. PICK y : y = Moved(q, "done")
  OBVIOUS
<1>4. /\ x \in Request /\ Carries(x) /\ Refers(x) /\ Counts(x) /\ x.stage # "unsent"
      /\ y.stage = "done" /\ y.op = x.op /\ y.room = x.room /\ y.resident = x.resident
  BY <1>1, <1>2, <1>3, MovedFields DEF Stages, InFlight
<1>5. /\ x.placement \in ResidentRow /\ x.placement # None /\ x.placement.room = x.room
      /\ x.user \in Users /\ x.found \in RoomRow /\ x.found # None
      /\ x.found.occupied \in Nat
  BY <1>2, <1>4 DEF Carries, Placing, RoomRow
<1>6. PICK m \in Rooms : m = x.room
  BY <1>4 DEF Request
<1>7. PICK u \in Users : u = x.user
  BY <1>5
<1>8. PICK items : items = Changed(x.user, x.placement) \cup {<<"room", x.room>>}
  OBVIOUS
<1>9. /\ residents \in [Users -> ResidentRow \cup {None}]
      /\ rooms \in [Rooms -> RoomRow \cup {None}]
  BY DEF IInv, Shape, RoomsTypeOK
<1>10. /\ Step(q, y, items) /\ Race(q, {m}) /\ raced \subseteq raced' /\ unsettled' = unsettled
       /\ residents[u] = None /\ residents' = [residents EXCEPT ![u] = x.placement]
       /\ rooms' = [rooms EXCEPT ![m] = x.found]
  BY <1>1, <1>3, <1>6, <1>7, <1>8 DEF CommitImport, Race, WriteResident, WriteRoom
<1>11. /\ residents'[u] = x.placement /\ \A v \in Users \ {u} : residents'[v] = residents[v]
       /\ rooms'[m] = x.found /\ \A n \in Rooms \ {m} : rooms'[n] = rooms[n]
       /\ rooms' \in [Rooms -> RoomRow \cup {None}]
  BY <1>5, <1>9, <1>10
<1>12. rooms[m] # None
  BY <1>4, <1>6 DEF Refers
<1>13. /\ RoomsCovered(items) /\ \A n \in Rooms : rooms[n] = None => rooms'[n] = None
  BY <1>5, <1>6, <1>8, <1>11, <1>12 DEF RoomsCovered
<1>14. rooms'[residents'[u].room] # None
  BY <1>5, <1>6, <1>11
<1>15. Refers(y)' /\ Counts(y)'
  <2>1. \A r : rooms[r] # None => rooms'[r] # None
    BY <1>5, <1>9, <1>10
  <2>2. QED BY <1>2, <1>4, <2>1 DEF Refers, Counts, InFlight
<1>16. \A n : /\ ~Comes(y, n) /\ ~Comes(x, n) /\ ~Arrives(x, n) /\ ~Arrives(y, n)
              /\ ~Leaves(x, n) /\ ~Leaves(y, n)
  BY <1>2, <1>4 DEF Comes, Arrives, Leaves
<1>17. ASSUME NEW n \in Rooms \ (raced' \cup unsettled'), rooms[n] # None
       PROVE  /\ rooms'[n].occupied <= rooms'[n].capacity
              /\ rooms[n].occupied + Bit(u \in Occupants(n)') + Bit(Comes(y, n))
                     + Bit(Arrives(x, n)) + Bit(Leaves(x, n))
                   <= rooms'[n].occupied + Bit(u \in Occupants(n)) + Bit(Comes(x, n))
                     + Bit(Arrives(y, n)) + Bit(Leaves(y, n))
  <2>1. n \notin raced \cup unsettled
    BY <1>10, <1>17
  <2>2. /\ rooms[n].occupied \in Nat /\ rooms[n].occupied <= rooms[n].capacity
    BY <1>17, <2>1, SettledRoom
  <2>3. u \notin Occupants(n) /\ (u \in Occupants(n)' <=> n = m)
    BY <1>5, <1>6, <1>10, <1>11 DEF Occupants, LivesIn
  <2>4. CASE n = m
    <3>1. <<"room", m>> \notin x.stale
      BY <1>1, <1>10, <1>17, <2>4, NotRaced
    <3>2. /\ x.found.occupied <= x.found.capacity
          /\ rooms[n].occupied + 1 <= x.found.occupied
      BY <1>2, <1>4, <1>6, <2>4, <3>1 DEF Counts, Holds, Placing
    <3>3. rooms'[n] = x.found
      BY <1>11, <2>4
    <3>4. QED BY <1>5, <1>16, <2>2, <2>3, <2>4, <3>2, <3>3 DEF Bit
  <2>5. CASE n # m
    <3>1. rooms'[n] = rooms[n]
      BY <1>11, <2>5
    <3>2. QED BY <1>16, <2>2, <2>3, <2>5, <3>1 DEF Bit
  <2>6. QED BY <2>4, <2>5
<1>18. unsettled \subseteq unsettled'
  BY <1>10
<1>19. QED
  BY <1>1, <1>9, <1>10, <1>11, <1>13, <1>14, <1>15, <1>17, <1>18, CountStep

(* A new room has nobody in it and no request names it.                    *)
LEMMA CreateRoomCount ==
  ASSUME IInv, CountInv, NEW n \in Rooms, NEW row \in RoomEdits, CreateRoom(n, row)
  PROVE  CountInv'
<1>1. row \in RoomRow
  BY EditsAssumption DEF EditsAssumption
<1>2. PICK new : new = Empty(row)
  OBVIOUS
<1>3. new \in RoomRow /\ new.occupied = 0 /\ new.capacity \in Nat
  BY <1>1, <1>2 DEF RoomRow, Empty
<1>4. /\ rooms[n] = None /\ rooms' = [rooms EXCEPT ![n] = new]
      /\ UNCHANGED <<residents, req, raced, unsettled>>
  BY <1>2 DEF CreateRoom, WriteRoom
<1>5. /\ rooms \in [Rooms -> RoomRow \cup {None}]
      /\ residents \in [Users -> ResidentRow \cup {None}]
  BY DEF IInv, Shape, RoomsTypeOK
<1>6. rooms'[n] = new /\ \A m : m # n => rooms'[m] = rooms[m]
  BY <1>4, <1>5
<1>7. \A m : rooms[m] # None => rooms'[m] = rooms[m]
  BY <1>4, <1>6
<1>8. IsFiniteSet({p \in Requests : req[p].stage # "unsent"})'
  BY <1>4 DEF CountInv
<1>9. \A u \in Users : residents'[u] # None => rooms'[residents'[u].room] # None
  BY <1>4, <1>7 DEF CountInv
<1>10. ASSUME NEW p \in Requests PROVE Refers(req[p])' /\ Counts(req[p])'
  <2>1. PICK x : x = req[p] /\ x = req'[p]
    BY <1>4
  <2>2. Refers(x) /\ Counts(x) /\ GoodRequest(x)
    BY <2>1 DEF CountInv, IInv, Shape
  <2>3. Refers(x)'
    BY <1>7, <2>2 DEF Refers
  <2>4. x.stage \in InFlight =>
          /\ rooms'[x.room] = rooms[x.room]
          /\ x.stage = "parting" => rooms'[x.resident.room] = rooms[x.resident.room]
    <3> SUFFICES ASSUME x.stage \in InFlight
                 PROVE  /\ rooms'[x.room] = rooms[x.room]
                        /\ x.stage = "parting" => rooms'[x.resident.room] = rooms[x.resident.room]
      OBVIOUS
    <3>1. x.stage # "unsent"
      BY DEF InFlight
    <3>2. x.stage = "parting" => x.resident # None
      BY <2>2, <3>1 DEF GoodRequest, Carries, OfResident
    <3>3. QED BY <1>7, <2>2, <3>1, <3>2 DEF Refers
  <2>5. Counts(x)'
    BY <2>2, <2>4 DEF Counts, Holds
  <2>6. QED BY <2>1, <2>3, <2>5 DEF Refers, Counts, Holds
<1>11. ASSUME NEW m \in Rooms \ (raced' \cup unsettled'), rooms'[m] # None
       PROVE  RoomSettled(m)'
  <2>1. /\ Occupants(m)' = Occupants(m) /\ Expected(m)' = Expected(m)
        /\ Arriving(m)' = Arriving(m) /\ Leaving(m)' = Leaving(m)
    BY <1>4 DEF Occupants, LivesIn, Expected, Arriving, Leaving
  <2>2. CASE m = n
    <3>1. Occupants(m) = {} /\ Expected(m) = {}
      BY <1>4, <2>2 DEF CountInv, Occupants, LivesIn, Expected, Refers
    <3>2. Cardinality(Arriving(m)) \in Nat /\ Cardinality(Leaving(m)) \in Nat
      <4>1. {Arriving(m), Leaving(m)} \subseteq SUBSET {p \in Requests : req[p].stage # "unsent"}
        BY DEF Arriving, Leaving
      <4>2. QED BY <4>1, FS_Subset, FS_CardinalityType DEF CountInv
    <3>3. Cardinality(Occupants(m)) = 0 /\ Cardinality(Expected(m)) = 0
      BY <3>1, FS_EmptySet
    <3>4. rooms'[m].occupied = 0 /\ rooms'[m].capacity \in Nat
      BY <1>3, <1>6, <2>2
    <3>5. QED BY <2>1, <3>2, <3>3, <3>4 DEF RoomSettled
  <2>3. CASE m # n
    <3>1. rooms'[m] = rooms[m]
      BY <1>6, <2>3
    <3>2. RoomSettled(m)
      BY <1>4, <1>11, <3>1 DEF CountInv
    <3>3. QED BY <2>1, <3>1, <3>2 DEF RoomSettled
  <2>4. QED BY <2>2, <2>3
<1>12. QED BY <1>8, <1>9, <1>10, <1>11 DEF CountInv

(* Nor does one whose image is being uploaded, but the request itself.     *)
LEMMA CreateRoomWithImageCount ==
  ASSUME IInv, CountInv, NEW q \in Requests, NEW n \in Rooms, NEW row \in RoomEdits,
         CreateRoomWithImage(q, n, row)
  PROVE  CountInv'
<1>1. row \in RoomRow
  BY EditsAssumption DEF EditsAssumption
<1>2. PICK new : new = Empty(row)
  OBVIOUS
<1>3. new \in RoomRow /\ new.occupied = 0 /\ new.capacity \in Nat
  BY <1>1, <1>2 DEF RoomRow, Empty
<1>4. PICK y : y = [stage |-> "found", op |-> "room", user |-> None, placement |-> None,
                    room |-> n, found |-> new, old |-> None, resident |-> None,
                    reads |-> {<<"room", n>>}, stale |-> {}]
  OBVIOUS
<1>5. PICK x : x = req[q]
  OBVIOUS
<1>6. PICK items : items = {}
  OBVIOUS
<1>7. /\ Step(q, y, items) /\ req'[q] = y /\ x.stage = "unsent"
      /\ rooms[n] = None /\ rooms' = [rooms EXCEPT ![n] = new]
      /\ UNCHANGED <<residents, raced, unsettled>>
  BY <1>2, <1>4, <1>5, <1>6 DEF CreateRoomWithImage, Reading, Step, WriteRoom
<1>8. /\ rooms \in [Rooms -> RoomRow \cup {None}]
      /\ residents \in [Users -> ResidentRow \cup {None}]
  BY DEF IInv, Shape, RoomsTypeOK
<1>9. rooms'[n] = new /\ new # None /\ \A m : m # n => rooms'[m] = rooms[m]
  BY <1>3, <1>7, <1>8
<1>10. \A m : rooms[m] # None => rooms'[m] = rooms[m]
  BY <1>7, <1>9
<1>11. RoomsCovered(items)
  BY <1>10 DEF RoomsCovered
<1>12. IsFiniteSet({p \in Requests : req[p].stage # "unsent"})'
  <2>1. {p \in Requests : req'[p].stage # "unsent"} \subseteq
          {p \in Requests : req[p].stage # "unsent"} \cup {q}
    BY <1>7, OthersStay
  <2>2. IsFiniteSet({p \in Requests : req[p].stage # "unsent"} \cup {q})
    BY FS_AddElement DEF CountInv
  <2>3. QED BY <2>1, <2>2, FS_Subset
<1>13. \A u \in Users : residents'[u] # None => rooms'[residents'[u].room] # None
  BY <1>7, <1>10 DEF CountInv
<1>14. ASSUME NEW p \in Requests PROVE Refers(req[p])' /\ Counts(req[p])'
  <2>1. CASE p = q
    <3>1. Refers(y)' /\ Counts(y)'
      BY <1>4, <1>9 DEF Refers, Counts, Placing
    <3>2. QED BY <1>7, <2>1, <3>1 DEF Refers, Counts, Holds
  <2>2. CASE p # q
    BY <1>7, <1>11, <2>2, OthersCount
  <2>3. QED BY <2>1, <2>2
<1>15. \A m : /\ ~Comes(y, m) /\ ~Arrives(y, m) /\ ~Leaves(y, m)
              /\ ~Comes(x, m) /\ ~Arrives(x, m) /\ ~Leaves(x, m)
  BY <1>4, <1>7 DEF Comes, Arrives, Leaves
<1>16. ASSUME NEW m \in Rooms \ (raced' \cup unsettled'), rooms'[m] # None
       PROVE  RoomSettled(m)'
  <2>1. CASE m = n
    <3>1. Occupants(m)' = {} /\ Expected(m)' = {}
      <4>1. Occupants(m)' = {}
        BY <1>7, <2>1 DEF CountInv, Occupants, LivesIn
      <4>2. ASSUME NEW p \in Requests, p # q
            PROVE  ~(req'[p].stage = "ready" /\ req'[p].room = n)
        <5>1. req'[p].stage = req[p].stage /\ req'[p].room = req[p].room
          BY <1>7, <4>2, OthersStay
        <5>2. QED BY <1>7, <5>1 DEF CountInv, Refers
      <4>3. Expected(m)' = {}
        BY <1>4, <1>7, <2>1, <4>2 DEF Expected
      <4>4. QED BY <4>1, <4>3
    <3>2. Cardinality(Arriving(m)') \in Nat /\ Cardinality(Leaving(m)') \in Nat
      <4>1. {Arriving(m)', Leaving(m)'} \subseteq
              SUBSET {p \in Requests : req'[p].stage # "unsent"}
        BY DEF Arriving, Leaving
      <4>2. QED BY <1>12, <4>1, FS_Subset, FS_CardinalityType
    <3>3. Cardinality(Occupants(m)') = 0 /\ Cardinality(Expected(m)') = 0
      BY <3>1, FS_EmptySet
    <3>4. rooms'[m].occupied = 0 /\ rooms'[m].capacity \in Nat
      BY <1>3, <1>9, <2>1
    <3>5. QED BY <3>2, <3>3, <3>4 DEF RoomSettled
  <2>2. CASE m # n
    <3>1. rooms'[m] = rooms[m] /\ m \notin raced \cup unsettled
      BY <1>7, <1>9, <1>16, <2>2
    <3>2. /\ rooms[m].occupied \in Nat /\ rooms[m].occupied <= rooms[m].capacity
          /\ rooms[m] # None
      BY <1>16, <3>1, SettledRoom
    <3>3. \A u : u \in Occupants(m)' <=> u \in Occupants(m)
      BY <1>7 DEF Occupants, LivesIn
    <3>4. \A v \in Users \ {q} : residents'[v] = residents[v]
      BY <1>7
    <3>5. rooms[m].occupied + Bit(q \in Occupants(m)') + Bit(Comes(y, m))
              + Bit(Arrives(x, m)) + Bit(Leaves(x, m))
            <= rooms'[m].occupied + Bit(q \in Occupants(m)) + Bit(Comes(x, m))
              + Bit(Arrives(y, m)) + Bit(Leaves(y, m))
      BY <1>15, <3>1, <3>2, <3>3 DEF Bit
    <3>6. QED BY <1>5, <1>7, <3>1, <3>2, <3>4, <3>5, RoomStays
  <2>3. QED BY <2>1, <2>2
<1>17. QED BY <1>12, <1>13, <1>14, <1>16 DEF CountInv

LEMMA CountInit == RoomsInit => CountInv
<1> SUFFICES ASSUME RoomsInit PROVE CountInv
  OBVIOUS
<1>1. Consistent(rooms, residents)
  BY OpeningAssumption DEF RoomsInit, OpeningAssumption
<1>2. \A q \in Requests : req[q].stage = "unsent"
  BY DEF RoomsInit
<1>3. IsFiniteSet({q \in Requests : req[q].stage # "unsent"})
  <2>1. {q \in Requests : req[q].stage # "unsent"} = {}
    BY <1>2
  <2>2. QED BY <2>1, FS_EmptySet
<1>4. \A u \in Users : residents[u] # None => rooms[residents[u].room] # None
  BY <1>1 DEF Consistent
<1>5. \A q \in Requests : Refers(req[q]) /\ Counts(req[q])
  BY <1>2 DEF Refers, Counts, InFlight
<1>6. ASSUME NEW n \in Rooms, rooms[n] # None PROVE RoomSettled(n)
  <2>1. Expected(n) = {} /\ Arriving(n) = {} /\ Leaving(n) = {}
    BY <1>2 DEF Expected, Arriving, Leaving
  <2>2. /\ rooms[n].occupied = Cardinality(Occupants(n))
        /\ Cardinality(Occupants(n)) <= rooms[n].capacity
    <3>1. Occupants(n) = {u \in Users : residents[u] # None /\ residents[u].room = n}
      BY DEF Occupants, LivesIn
    <3>2. QED BY <1>1, <1>6, <3>1 DEF Consistent
  <2>3. Cardinality(Occupants(n)) \in Nat
    BY FS_Subset, FS_CardinalityType DEF Occupants
  <2>4. QED BY <2>1, <2>2, <2>3, FS_EmptySet DEF RoomSettled
<1>7. QED BY <1>3, <1>4, <1>5, <1>6 DEF CountInv

LEMMA CountNext == IInv /\ CountInv /\ [RoomsNext]_roomVars => CountInv'
<1> SUFFICES ASSUME IInv, CountInv, [RoomsNext]_roomVars PROVE CountInv'
  OBVIOUS
<1>1. ASSUME NEW q \in Requests, Advance(q) PROVE CountInv'
  BY <1>1, ClearCount, ClearBedCount, EndCount, PlaceResidentCount, CommitImportCount,
     SaveRoomCount, FindOldRoomCount, SaveOldRoomCount, SaveResidentCount,
     DeleteResidentCount DEF Advance
<1>2. CASE UNCHANGED roomVars
  BY <1>2 DEF roomVars, CountInv, Refers, Counts, Holds, RoomSettled, Occupants, LivesIn,
              Expected, Arriving, Leaving
<1>3. QED BY <1>1, <1>2, ReceiveCount, EndCount, CreateRoomCount, CreateRoomWithImageCount
      DEF RoomsNext

LEMMA SpecCountInv == RoomsSpec => [](IInv /\ CountInv)
<1>1. IInv /\ CountInv /\ [RoomsNext]_roomVars => IInv' /\ CountInv'
  BY NextIInv, CountNext
<1>2. QED BY <1>1, InitIInv, CountInit, PTL DEF RoomsSpec

(* No room counts fewer residents than live in it, give or take the        *)
(* requests that have written one of the two and not the other.            *)
LEMMA SettledCovers ==
  ASSUME IInv, CountInv, NEW n \in Rooms \ (raced \cup unsettled), rooms[n] # None
  PROVE  /\ Cardinality(Occupants(n)) <=
              rooms[n].occupied + Cardinality(Arriving(n)) + Cardinality(Leaving(n))
         /\ Cardinality(Occupants(n)) <=
              rooms[n].capacity + Cardinality(Arriving(n)) + Cardinality(Leaving(n))
<1>1. RoomSettled(n) /\ rooms[n].occupied \in Nat /\ rooms[n].capacity \in Nat
  BY SettledRoom DEF CountInv
<1>2. /\ Cardinality(Occupants(n)) \in Nat /\ Cardinality(Expected(n)) \in Nat
      /\ Cardinality(Arriving(n)) \in Nat /\ Cardinality(Leaving(n)) \in Nat
  <2>1. {Expected(n), Arriving(n), Leaving(n)} \subseteq
          SUBSET {p \in Requests : req[p].stage # "unsent"}
    BY DEF Expected, Arriving, Leaving
  <2>2. Occupants(n) \subseteq Users
    BY DEF Occupants
  <2>3. QED BY <2>1, <2>2, FS_Subset, FS_CardinalityType DEF CountInv
<1>3. QED BY <1>1, <1>2 DEF RoomSettled

(* rooms.occupied counts at least the residents of the room, whatever      *)
(* requests run at once: a creation between its two writes is one ahead of *)
(* it, a resident about to leave one behind, and only a room written on    *)
(* old readings, set by hand or left half-written may count fewer.         *)
THEOREM CountersCover == RoomsSpec => []CounterCoversRoom
<1>1. IInv /\ CountInv => CounterCoversRoom
  BY SettledCovers DEF CounterCoversRoom
<1>2. QED BY <1>1, SpecCountInv, PTL

(* So no such room takes more residents than it has beds.                  *)
THEOREM RoomsNotOverfull == RoomsSpec => []NeverOverfull
<1>1. IInv /\ CountInv => NeverOverfull
  BY SettledCovers DEF NeverOverfull
<1>2. QED BY <1>1, SpecCountInv, PTL
=============================================================================
