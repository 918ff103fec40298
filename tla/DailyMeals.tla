----------------------------- MODULE DailyMeals ------------------------------
(***************************************************************************)
(* The daily meals of one hostel: a day's schedule saved as a whole, in a  *)
(* READ COMMITTED transaction that deletes the day's rows and inserts the  *)
(* new ones, next to the creation, update (to another day, too) and        *)
(* deletion of single meals and the clearing of days.  Names, times, the   *)
(* order of meals and the defaults shown for an empty day are left out; so *)
(* is the weekly schedule, saved by the same pattern.                      *)
(***************************************************************************)
EXTENDS Handlers, Integers

CONSTANTS MealDays, \* values of dayOfWeek
          MaxMeals, \* bound: rows ever inserted
          MaxSlots  \* meals of one saved schedule

MealRow == [day: MealDays, by: Requests \cup {None}]

ASSUME MealsAssumption == MaxMeals \in Nat /\ MaxSlots \in Nat
ASSUME NoMealAssumption ==
  None \notin Requests \cup (1 .. MaxMeals) \cup MealDays \cup MealRow

VARIABLES meals,      \* hostel_daily_meals: the day, and the save that wrote it
          nextMeal,   \* the next row's id
          mealReq,    \* what each request asks for and where it is
          displaced   \* history: rows an update has moved or inserted again

mealVars == <<meals, nextMeal, mealReq, displaced>>

MealIds == 1 .. MaxMeals
MealRequest == [stage: {"unsent", "deleting", "deleted", "found", "updating",
                        "done", "failed"},
                day: MealDays \cup {None}, rows: SUBSET MealIds,
                id: MealIds \cup {None}, entity: MealRow \cup {None},
                reads: SUBSET MealDays, raced: BOOLEAN]

MealsTypeOK ==
  /\ meals \in [MealIds -> MealRow \cup {None}]
  /\ nextMeal \in 1 .. MaxMeals + 1
  /\ mealReq \in [Requests -> MealRequest]
  /\ displaced \subseteq MealIds

NoMealRequest == [stage |-> "unsent", day |-> None, rows |-> {}, id |-> None,
                  entity |-> None, reads |-> {}, raced |-> FALSE]

MealsInit ==
  /\ meals = [i \in MealIds |-> None]
  /\ nextMeal = 1
  /\ mealReq = [q \in Requests |-> NoMealRequest]
  /\ displaced = {}

-----------------------------------------------------------------------------
MealAt(q, stage) == mealReq[q].stage = stage
MealGoesOn(q, r, items) == mealReq' = GoesOn(mealReq, q, r, items)
MealOver(q, stage) == [Over(mealReq[q], stage) EXCEPT !.rows = {}]

RowsOf(d) == {i \in MealIds : meals[i] # None /\ meals[i].day = d}

(* Rows a transaction has deleted are locked until it ends.                *)
Unlocked(rows) ==
  \A q \in Requests : MealAt(q, "deleted") => mealReq[q].rows \cap rows = {}

(* saveDailyMeals: the DELETE sees the day's rows, waits for those another *)
(* transaction is deleting and never sees what that one has inserted; a    *)
(* row it sees that has left the day meanwhile is spared.                  *)
BeginSave(q, d) ==
  /\ MealAt(q, "unsent")
  /\ MealGoesOn(q, [NoMealRequest EXCEPT !.stage = "deleting", !.day = d,
                                         !.rows = RowsOf(d), !.reads = {d}], {})
  /\ UNCHANGED <<meals, nextMeal, displaced>>

DeleteDay(q) ==
  /\ MealAt(q, "deleting") /\ Unlocked(mealReq[q].rows)
  /\ MealGoesOn(q, [mealReq[q] EXCEPT !.stage = "deleted",
                                      !.rows = @ \cap RowsOf(mealReq[q].day)], {})
  /\ UNCHANGED <<meals, nextMeal, displaced>>

(* The new rows are inserted and all of it is committed.                   *)
CommitSaveAdding(q, n) ==
  LET new == nextMeal .. nextMeal + n - 1
  IN  /\ MealAt(q, "deleted") /\ nextMeal + n <= MaxMeals + 1
      /\ meals' = [i \in MealIds |-> IF i \in new THEN [day |-> mealReq[q].day, by |-> q]
                                     ELSE meals[i]]
      /\ nextMeal' = nextMeal + n
      /\ MealGoesOn(q, MealOver(q, "done"), {mealReq[q].day})
      /\ UNCHANGED displaced
CommitSave(q, n) ==
  LET new == nextMeal .. nextMeal + n - 1
  IN  /\ MealAt(q, "deleted") /\ nextMeal + n <= MaxMeals + 1
      /\ meals' = [i \in MealIds |-> IF i \in new THEN [day |-> mealReq[q].day, by |-> q]
                                     ELSE IF i \in mealReq[q].rows THEN None ELSE meals[i]]
      /\ nextMeal' = nextMeal + n
      /\ MealGoesOn(q, MealOver(q, "done"), {mealReq[q].day})
      /\ UNCHANGED displaced

(* createDailyMeal                                                         *)
CreateMeal(q, d) ==
  /\ MealAt(q, "unsent") /\ nextMeal <= MaxMeals
  /\ meals' = [meals EXCEPT ![nextMeal] = [day |-> d, by |-> None]]
  /\ nextMeal' = nextMeal + 1
  /\ MealGoesOn(q, MealOver(q, "done"), {d})
  /\ UNCHANGED displaced

(* updateDailyMeal: the entity is read and given the day the request has,  *)
(* which may be the one it had...                                          *)
FindMeal(q, i, d) ==
  /\ MealAt(q, "unsent") /\ meals[i] # None
  /\ MealGoesOn(q, [NoMealRequest EXCEPT !.stage = "found", !.id = i,
                                         !.entity = [meals[i] EXCEPT !.day = d]], {})
  /\ UNCHANGED <<meals, nextMeal, displaced>>

(* ...its save looks the row up again, to update the columns that differ,  *)
(* or to insert it when it is gone...                                      *)
SaveMeal(q) ==
  LET i == mealReq[q].id
      entity == mealReq[q].entity
      moved == IF entity.day = meals[i].day THEN None ELSE entity.day
  IN  /\ MealAt(q, "found")
      /\ IF meals[i] # None
         THEN /\ MealGoesOn(q, [mealReq[q] EXCEPT !.stage = "updating", !.day = moved], {})
              /\ UNCHANGED <<meals, displaced>>
         ELSE /\ meals' = [meals EXCEPT ![i] = entity]
              /\ displaced' = displaced \cup {i}
              /\ MealGoesOn(q, MealOver(q, "done"), {entity.day})
      /\ UNCHANGED nextMeal

(* ...and the UPDATE waits for a transaction that is deleting the row, and *)
(* then finds none to change.                                              *)
UpdateMeal(q) ==
  LET i == mealReq[q].id
  IN  /\ MealAt(q, "updating") /\ Unlocked({i})
      /\ IF meals[i] = None \/ mealReq[q].day = None
         THEN UNCHANGED <<meals, displaced>>
         ELSE /\ meals' = [meals EXCEPT ![i].day = mealReq[q].day]
              /\ displaced' = displaced \cup {i}
      /\ MealGoesOn(q, MealOver(q, "done"), {})
      /\ UNCHANGED nextMeal

(* deleteDailyMeal of one row; clearDailyMeals of a day, or of all.        *)
DeleteMeals(q, rows) ==
  /\ MealAt(q, "unsent") /\ Unlocked(rows)
  /\ meals' = [i \in MealIds |-> IF i \in rows THEN None ELSE meals[i]]
  /\ MealGoesOn(q, MealOver(q, "done"), {meals[i].day : i \in rows})
  /\ UNCHANGED <<nextMeal, displaced>>

(* The request stops; its transaction is rolled back.                      *)
FailMeal(q) ==
  /\ mealReq[q].stage \in {"deleting", "deleted", "found", "updating"}
  /\ MealGoesOn(q, MealOver(q, "failed"), {})
  /\ UNCHANGED <<meals, nextMeal, displaced>>

MealsNext ==
  \E q \in Requests :
    \/ \E d \in MealDays : \/ BeginSave(q, d) \/ CreateMeal(q, d)
                           \/ RowsOf(d) # {} /\ DeleteMeals(q, RowsOf(d))
    \/ \E n \in 0 .. MaxSlots : CommitSave(q, n)
    \/ \E i \in MealIds : \/ \E d \in MealDays : FindMeal(q, i, d)
                          \/ meals[i] # None /\ DeleteMeals(q, {i})
    \/ DeleteMeals(q, UNION {RowsOf(d) : d \in MealDays})
    \/ DeleteDay(q) \/ SaveMeal(q) \/ UpdateMeal(q) \/ FailMeal(q)

MealsSpec == MealsInit /\ [][MealsNext]_mealVars

-----------------------------------------------------------------------------
(* A day's menu is of one save: rows of two are there together only if the *)
(* two overlapped, or an update moved one of the rows to this day or, too  *)
(* late, put it back after it was deleted.                                 *)
MenuFromOneSave ==
  \A i, j \in MealIds :
    /\ meals[i] # None /\ meals[j] # None
    /\ meals[i].day = meals[j].day /\ meals[i].by # meals[j].by
    /\ None \notin {meals[i].by, meals[j].by}
    => \/ {i, j} \cap displaced # {}
       \/ mealReq[meals[i].by].raced \/ mealReq[meals[j].by].raced
=============================================================================
