---------------------------- MODULE Subscriptions ----------------------------
(***************************************************************************)
(* The subscriptions of one owner: instant FREE plans, requests for paid   *)
(* plans, their review by admins and cancellation.  A plan is for one      *)
(* hostel, or for the owner when the row names none.  Proof screenshots,   *)
(* prices, end dates and the reading side (limits) are left out.           *)
(***************************************************************************)
EXTENDS Handlers, Integers

CONSTANTS SubHostels, \* the owner's hostels
          MaxSubs,    \* bound: subscription rows
          FirstSubs   \* the rows there are at the start: sequences of rows

SubRow == [hostel: SubHostels \cup {None}, plan: {"FREE", "PAID"},
           status: {"PENDING", "ACTIVE", "EXPIRED", "REJECTED"}]
SubIds == 1 .. MaxSubs

ASSUME MaxSubsAssumption == MaxSubs \in Nat
(* At the start no two plans run for one hostel.                           *)
ASSUME FirstSubsAssumption ==
  \A first \in FirstSubs :
    /\ first \in [SubIds -> SubRow \cup {None}]
    /\ \A i, j \in SubIds :
         /\ i # j /\ first[i] # None /\ first[j] # None
         /\ first[i].status = "ACTIVE" /\ first[j].status = "ACTIVE"
         => /\ first[i].hostel # first[j].hostel
            /\ None \notin {first[i].hostel, first[j].hostel}
ASSUME NoSubAssumption ==
  /\ None \notin SubRow /\ None \notin SubIds
  /\ None \notin SubHostels /\ None \notin Requests

VARIABLES subs,      \* the subscriptions table, in the order of creation
          subReq,    \* what each request asks for and where it is
          expiredBy, \* history: the request that expired a row
          subRaced   \* history: rows saved on a reading that was old

subVars == <<subs, subReq, expiredBy, subRaced>>

SubStages == {"unsent", "checked", "found", "deactivated", "done", "refused", "failed"}
SubOps == {"free", "paid", "approve", "reject", "cancel"}
SubsPending == <<"status", "PENDING">>
SubsActive == <<"status", "ACTIVE">>
SubItems == {SubsPending, SubsActive} \cup ({"row"} \X SubIds)
SubRequest == [stage: SubStages, op: SubOps \cup {None}, scope: SubHostels \cup {None},
               row: SubIds \cup {None}, reads: SUBSET SubItems,
               raced: BOOLEAN]

SubscriptionsTypeOK ==
  /\ subs \in [SubIds -> SubRow \cup {None}]
  /\ subReq \in [Requests -> SubRequest]
  /\ expiredBy \in [SubIds -> Requests \cup {None}]
  /\ subRaced \subseteq SubIds

NoSubRequest == [stage |-> "unsent", op |-> None, scope |-> None, row |-> None,
                 reads |-> {}, raced |-> FALSE]

SubscriptionsInit ==
  /\ subs \in FirstSubs
  /\ subReq = [q \in Requests |-> NoSubRequest]
  /\ expiredBy = [i \in SubIds |-> None]
  /\ subRaced = {}

-----------------------------------------------------------------------------
Unsent(q) == subReq[q].stage = "unsent"
HasStatus(i, status) == subs[i] # None /\ subs[i].status = status

(* findPendingRequest: of the hostel, or any of the owner's.               *)
PendingFor(h) == {i \in SubIds : /\ HasStatus(i, "PENDING")
                                 /\ h # None => subs[i].hostel = h}

(* deactivateExistingActive: all the owner's running plans, or for a       *)
(* hostel its own and the owner's.                                         *)
GivingWayOwn(h) == {i \in SubIds : HasStatus(i, "ACTIVE") /\ subs[i].hostel = h}
GivingWay(h) == {i \in SubIds : /\ HasStatus(i, "ACTIVE")
                                /\ h # None => subs[i].hostel \in {h, None}}

Deactivate(q, h) ==
  /\ subs' = [i \in SubIds |-> IF i \in GivingWay(h)
                               THEN [subs[i] EXCEPT !.status = "EXPIRED"] ELSE subs[i]]
  /\ expiredBy' = [i \in SubIds |-> IF i \in GivingWay(h) THEN q ELSE expiredBy[i]]

Free(i) == subs[i] = None /\ \A j \in 1 .. i - 1 : subs[j] # None

(* save: the whole entity, and the history.                                *)
SaveSub(q, i, row) ==
  /\ subs' = [subs EXCEPT ![i] = row]
  /\ subReq' = GoesOn(subReq, q, [Over(subReq[q], "done") EXCEPT !.row = i],
                      {<<"row", i>>, <<"status", row.status>>})
  /\ subRaced' = IF subReq[q].raced THEN subRaced \cup {i} ELSE subRaced
  /\ UNCHANGED expiredBy

SubGoesOn(q, r, items) ==
  /\ subReq' = GoesOn(subReq, q, r, items)
  /\ UNCHANGED subRaced

-----------------------------------------------------------------------------
(* subscribe, FREE: the running plans give way, then the new row is saved. *)
SubscribeFree(q, h) ==
  /\ Unsent(q)
  /\ Deactivate(q, h)
  /\ SubGoesOn(q, [NoSubRequest EXCEPT !.stage = "deactivated", !.op = "free",
                                       !.scope = h, !.reads = {SubsActive}],
                {"row"} \X GivingWay(h))

SaveFree(q, i) ==
  /\ subReq[q].stage = "deactivated" /\ subReq[q].op = "free"
  /\ Free(i)
  /\ SaveSub(q, i, [hostel |-> subReq[q].scope, plan |-> "FREE", status |-> "ACTIVE"])

(* subscribe, paid: one request at a time waits for review.                *)
SubscribePaid(q, h) ==
  LET r == [NoSubRequest EXCEPT !.op = "paid", !.scope = h, !.reads = {SubsPending}]
  IN  /\ Unsent(q)
      /\ SubGoesOn(q, IF PendingFor(h) = {} THEN [r EXCEPT !.stage = "checked"]
                      ELSE Over(r, "refused"), {})
      /\ UNCHANGED <<subs, expiredBy>>

SaveRequest(q, i) ==
  /\ subReq[q].stage = "checked"
  /\ Free(i)
  /\ SaveSub(q, i, [hostel |-> subReq[q].scope, plan |-> "PAID", status |-> "PENDING"])

(* reviewRequest: only a pending request is reviewed...                    *)
FindRequest(q, i, op) ==
  LET r == [NoSubRequest EXCEPT !.op = op, !.row = i, !.reads = {<<"row", i>>}]
  IN  /\ Unsent(q) /\ subs[i] # None
      /\ SubGoesOn(q, IF subs[i].status = "PENDING"
                      THEN [r EXCEPT !.stage = "found", !.scope = subs[i].hostel]
                      ELSE Over(r, "refused"), {})
      /\ UNCHANGED <<subs, expiredBy>>

(* ...a rejection saves it, an approval expires the running plans first.   *)
RejectExpiring(q) ==
  /\ subReq[q].stage = "found" /\ subReq[q].op = "reject"
  /\ subs' = [i \in SubIds |->
                IF i = subReq[q].row
                THEN [hostel |-> subReq[q].scope, plan |-> "PAID", status |-> "REJECTED"]
                ELSE IF i \in GivingWay(subReq[q].scope)
                THEN [subs[i] EXCEPT !.status = "EXPIRED"] ELSE subs[i]]
  /\ expiredBy' = [i \in SubIds |-> IF i \in GivingWay(subReq[q].scope) THEN q
                                    ELSE expiredBy[i]]
  /\ SubGoesOn(q, Over(subReq[q], "done"), {})
Reject(q) ==
  /\ subReq[q].stage = "found" /\ subReq[q].op = "reject"
  /\ SaveSub(q, subReq[q].row,
             [hostel |-> subReq[q].scope, plan |-> "PAID", status |-> "REJECTED"])

Approve(q) ==
  /\ subReq[q].stage = "found" /\ subReq[q].op = "approve"
  /\ Deactivate(q, subReq[q].scope)
  /\ SubGoesOn(q, [subReq[q] EXCEPT !.stage = "deactivated",
                                     !.reads = @ \cup {SubsActive}],
               {"row"} \X GivingWay(subReq[q].scope))

Activate(q) ==
  /\ subReq[q].stage = "deactivated" /\ subReq[q].op = "approve"
  /\ SaveSub(q, subReq[q].row,
             [hostel |-> subReq[q].scope, plan |-> "PAID", status |-> "ACTIVE"])

(* cancelSubscription                                                      *)
CancelPlan(q, h) ==
  /\ Unsent(q)
  /\ Deactivate(q, h)
  /\ SubGoesOn(q, [NoSubRequest EXCEPT !.stage = "done", !.op = "cancel", !.scope = h],
               {"row"} \X GivingWay(h))

(* The process stops, or a statement fails: what was written stays.        *)
FailSub(q) ==
  /\ subReq[q].stage \in {"checked", "found", "deactivated"}
  /\ SubGoesOn(q, Over(subReq[q], "failed"), {})
  /\ UNCHANGED <<subs, expiredBy>>

SubscriptionsNext ==
  \E q \in Requests :
    \/ \E h \in SubHostels \cup {None} :
         SubscribeFree(q, h) \/ SubscribePaid(q, h) \/ CancelPlan(q, h)
    \/ \E i \in SubIds : \/ SaveFree(q, i) \/ SaveRequest(q, i)
                         \/ \E op \in {"approve", "reject"} : FindRequest(q, i, op)
    \/ Approve(q) \/ Activate(q) \/ Reject(q) \/ FailSub(q)

SubscriptionsSpec == SubscriptionsInit /\ [][SubscriptionsNext]_subVars

-----------------------------------------------------------------------------
(* Two plans that apply to one hostel.                                     *)
Overlap(i, j) == \/ subs[i].hostel = subs[j].hostel
                 \/ None \in {subs[i].hostel, subs[j].hostel}

(* "requested plan becomes active, previous plan expires": two plans run   *)
(* for a hostel only if one of them was saved by a request that another's  *)
(* activation overtook between its two statements.                         *)
OneRunningPlan ==
  \A i, j \in SubIds :
    /\ i # j
    /\ HasStatus(i, "ACTIVE") /\ HasStatus(j, "ACTIVE")
    /\ Overlap(i, j)
    => {i, j} \cap subRaced # {}

(* A plan expires only because the owner cancels it or another takes its   *)
(* place: "the owner stays on their current plan" when a request is        *)
(* rejected.  A request that failed between its two statements, or whose   *)
(* row two admins reviewed at once, is excepted.                           *)
PlanGivesWayToAnother ==
  \A i \in SubIds :
    HasStatus(i, "EXPIRED") /\ expiredBy[i] # None =>
      LET r == subReq[expiredBy[i]]
      IN  \/ r.op = "cancel"
          \/ r.stage \in {"deactivated", "failed"}
          \/ r.row \in subRaced
          \/ HasStatus(r.row, "ACTIVE") \/ HasStatus(r.row, "EXPIRED")
=============================================================================
