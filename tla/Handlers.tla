------------------------------ MODULE Handlers ------------------------------
(***************************************************************************)
(* What the services share: a handler answers one request, reads rows with *)
(* one statement and saves entities with another, with no lock between     *)
(* them.  A request remembers the items its decision rests on (reads) and  *)
(* whether another has written one of them since (raced).                  *)
(***************************************************************************)
CONSTANTS Requests, \* HTTP requests, each handled once
          None      \* no row, no value

(* reqs once q stands as r and has written items.                          *)
GoesOn(reqs, q, r, items) ==
  [p \in Requests |->
     IF p = q THEN r
     ELSE IF reqs[p].reads \cap items # {} THEN [reqs[p] EXCEPT !.raced = TRUE]
     ELSE reqs[p]]

(* A request that is over rests on nothing.                                *)
Over(r, stage) == [r EXCEPT !.stage = stage, !.reads = {}]
=============================================================================
