----------------------------- MODULE MC_Services -----------------------------
(***************************************************************************)
(* Seven services that share no table, each on a small instance: one of    *)
(* them moves, chosen at the start, and the others stay as they begin.     *)
(***************************************************************************)
EXTENDS Subscriptions, Bookings, Attendance, ImportJobs, EmailDelivery, QrImages,
        DailyMeals, TLC

CONSTANTS h1, h2, p1, p2

VARIABLE service \* the service that moves

MCFence == {<<p1, p1>>, <<p2, p2>>}

NoSubs == [i \in SubIds |-> None]
SubOf(h, plan, status) == [hostel |-> h, plan |-> plan, status |-> status]
MCFirstSubs ==
  {NoSubs,
   [NoSubs EXCEPT ![1] = SubOf(h1, "FREE", "ACTIVE")],
   [NoSubs EXCEPT ![1] = SubOf(h1, "PAID", "PENDING"),
                  ![2] = SubOf(h2, "FREE", "ACTIVE")]}

RequestSymmetry == Permutations(Requests) \cup Permutations(Runs)

(* Bounds of the imports: two requests, and of the two imports the second  *)
(* has no bad row and waits in the queue.                                  *)
ImportBound ==
  /\ \E q \in Requests : ImportStage(q, "unsent")
  /\ \A i \in ImportIds \ {1} : imports[i] # None => imports[i].bad = 0
  /\ \A w \in Runs : run[w] # None => run[w].import = 1
  /\ \A q \in Requests : ImportStage(q, "unsure") => importReq[q].import = 1

ServicesInit ==
  /\ service \in {"subscriptions", "bookings", "attendance", "imports", "email", "qrs",
                  "meals"}
  /\ SubscriptionsInit /\ BookingsInit /\ AttendanceInit /\ ImportJobsInit
  /\ EmailInit /\ QrInit /\ MealsInit
  /\ service # "subscriptions" => subs = NoSubs
  /\ service # "attendance" => pin = None
  /\ service # "email" => redisUp /\ workersUp

Moves(name, Next) == service = name /\ Next

ServicesNext ==
  /\ UNCHANGED service
  /\ \/ /\ Moves("subscriptions", SubscriptionsNext)
        /\ UNCHANGED <<bookVars, markVars, importVars, mailVars, qrVars, mealVars>>
     \/ /\ Moves("bookings", BookingsNext)
        /\ UNCHANGED <<subVars, markVars, importVars, mailVars, qrVars, mealVars>>
     \/ /\ Moves("attendance", AttendanceNext)
        /\ UNCHANGED <<subVars, bookVars, importVars, mailVars, qrVars, mealVars>>
     \/ /\ Moves("imports", ImportJobsNext /\ ImportBound')
        /\ UNCHANGED <<subVars, bookVars, markVars, mailVars, qrVars, mealVars>>
     \/ /\ Moves("email", EmailNext)
        /\ UNCHANGED <<subVars, bookVars, markVars, importVars, qrVars, mealVars>>
     \/ /\ Moves("qrs", QrNext)
        /\ UNCHANGED <<subVars, bookVars, markVars, importVars, mailVars, mealVars>>
     \/ /\ Moves("meals", MealsNext)
        /\ UNCHANGED <<subVars, bookVars, markVars, importVars, mailVars, qrVars>>

ServicesSpec ==
  ServicesInit /\ [][ServicesNext]_<<service, subVars, bookVars, markVars, importVars,
                                     mailVars, qrVars, mealVars>>

(* Every service's tables and requests have the shape the code gives them. *)
ServicesTypeOK ==
  /\ SubscriptionsTypeOK /\ BookingsTypeOK /\ AttendanceTypeOK /\ ImportJobsTypeOK
  /\ EmailTypeOK /\ QrTypeOK /\ MealsTypeOK
=============================================================================
