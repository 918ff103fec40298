-------------------------- MODULE MC_ResidentRooms ---------------------------
(***************************************************************************)
(* ResidentRooms with two requests from six openings: a room half full     *)
(* and one of no hostel; a full room and one of the other hostel; a full   *)
(* double room, with an empty single one and with an empty double one of   *)
(* the other hostel; a full room, one of its residents inactive, and one   *)
(* half full; an inactive resident alone.                                  *)
(***************************************************************************)
EXTENDS ResidentRooms, TLC

CONSTANTS r1, r2, u1, u2, u3, h1, h2, b1, b2, q1, q2

Room(h, capacity, occupied) ==
  [hostel |-> h, capacity |-> capacity, occupied |-> occupied,
   status |-> IF occupied = capacity THEN "OCCUPIED" ELSE "AVAILABLE"]
Lives(n, b, active) == [hostel |-> h1, room |-> n, bed |-> b, isActive |-> active]

MCOpening ==
  {[rooms |-> (r1 :> Room(h1, 2, 1)) @@ (r2 :> Room(None, 1, 0)),
    residents |-> (u1 :> Lives(r1, b1, TRUE)) @@ (u2 :> None) @@ (u3 :> None)],
   [rooms |-> (r1 :> Room(h1, 1, 1)) @@ (r2 :> Room(h2, 1, 0)),
    residents |-> (u1 :> Lives(r1, b1, TRUE)) @@ (u2 :> None) @@ (u3 :> None)],
   [rooms |-> (r1 :> Room(h1, 2, 2)) @@ (r2 :> Room(h1, 1, 0)),
    residents |-> (u1 :> Lives(r1, b1, TRUE)) @@ (u2 :> Lives(r1, b2, TRUE))
                  @@ (u3 :> None)],
   [rooms |-> (r1 :> Room(h1, 2, 2)) @@ (r2 :> Room(h2, 2, 0)),
    residents |-> (u1 :> Lives(r1, b1, TRUE)) @@ (u2 :> Lives(r1, b2, TRUE))
                  @@ (u3 :> None)],
   [rooms |-> (r1 :> Room(h1, 2, 1)) @@ (r2 :> Room(h1, 2, 2)),
    residents |-> (u1 :> Lives(r1, b1, TRUE)) @@ (u2 :> Lives(r2, b1, TRUE))
                  @@ (u3 :> Lives(r2, b2, FALSE))],
   [rooms |-> (r1 :> Room(h1, 2, 1)) @@ (r2 :> None),
    residents |-> (u1 :> Lives(r1, b1, FALSE)) @@ (u2 :> None) @@ (u3 :> None)]}

MCRoomEdits ==
  {[hostel |-> None, capacity |-> 2, occupied |-> 1, status |-> "AVAILABLE"],
   [hostel |-> h1, capacity |-> 1, occupied |-> 0, status |-> "MAINTENANCE"],
   [hostel |-> h2, capacity |-> 2, occupied |-> 1, status |-> "AVAILABLE"]}

MCSymmetry == Permutations({q1, q2})
=============================================================================
