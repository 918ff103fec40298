---------------------------- MODULE Amounts_proofs ----------------------------
(***************************************************************************)
(* What ApplyPayment returns for every bill and every amount, and what the *)
(* sum of amounts over a finite set of rows comes to.                      *)
(***************************************************************************)
EXTENDS FeeCredit, FiniteSetsExt, FiniteSetTheorems, TLAPS

(* What applyPaymentToFeeAmounts comes to on a bill that is neither        *)
(* overpaid nor cancelled nor already PAID.                                *)
LEMMA ApplyToOpenBill ==
  ASSUME NEW total \in Nat, NEW paid \in Nat, paid <= total,
         NEW status, status # "CANCELLED", status # "PAID",
         NEW amount \in Nat, NEW pastDue \in BOOLEAN
  PROVE  ApplyPayment(total, paid, status, amount, pastDue)
           = Finalize(total, paid + Credit(amount, total - paid),
                      Credit(amount, total - paid), pastDue)
<1>1. Lesser(AtLeastZero(paid), total) = paid
  BY DEF Lesser, AtLeastZero
<1>2. Outstanding(total, paid) = total - paid
  BY DEF Outstanding, AtLeastZero
<1>3. QED BY <1>1, <1>2 DEF ApplyPayment

LEMMA CreditBounds ==
  ASSUME NEW amount \in Nat, NEW owed \in Nat
  PROVE  Credit(amount, owed) \in 0 .. owed
BY DEF Credit, Lesser

(* finalize() balances, and calls a bill PAID exactly when nothing is owed.*)
LEMMA FinalizeBalances ==
  ASSUME NEW total \in Nat, NEW paid \in 0 .. total,
         NEW credited, NEW pastDue \in BOOLEAN
  PROVE  LET r == Finalize(total, paid, credited, pastDue)
         IN  /\ r.paidAmount = paid
             /\ r.outstandingAmount = total - paid
             /\ r.credited = credited
             /\ r.status = IF paid = total /\ total > 0 THEN "PAID"
                           ELSE IF pastDue /\ paid < total THEN "OVERDUE"
                           ELSE IF paid > 0 THEN "PARTIALLY_PAID"
                           ELSE "PENDING"
<1>1. AtLeastZero(paid) = paid /\ Outstanding(total, paid) = total - paid
  BY DEF Outstanding, AtLeastZero
<1>2. PaymentStatus("PENDING", total, paid, pastDue)
        = IF paid = total /\ total > 0 THEN "PAID"
          ELSE IF pastDue /\ paid < total THEN "OVERDUE"
          ELSE IF paid > 0 THEN "PARTIALLY_PAID" ELSE "PENDING"
  BY <1>1 DEF PaymentStatus
<1>3. QED BY <1>1, <1>2 DEF Finalize

(* applyPaymentToFeeAmounts never credits more than is owed, never lowers  *)
(* what was paid, and what it returns always adds up to the bill's total   *)
(* ("Credit is clamped to the outstanding balance").                       *)
THEOREM ApplyPaymentBalances ==
  ASSUME NEW total \in Nat, NEW paid \in 0 .. total, NEW status \in FeeStatus,
         NEW amount \in Nat, NEW pastDue \in BOOLEAN
  PROVE  LET r == ApplyPayment(total, paid, status, amount, pastDue)
         IN  /\ r.paidAmount \in paid .. total
             /\ r.outstandingAmount = total - r.paidAmount
             /\ r.credited = r.paidAmount - paid
             /\ r.status \in FeeStatus
<1>1. CASE status = "CANCELLED" \/ status = "PAID"
  <2>1. Lesser(AtLeastZero(paid), total) = paid
    BY DEF Lesser, AtLeastZero
  <2>2. Outstanding(total, paid) = total - paid
    BY DEF Outstanding, AtLeastZero
  <2>3. QED BY <1>1, <2>1, <2>2 DEF ApplyPayment, FeeStatus
<1>2. CASE status # "CANCELLED" /\ status # "PAID"
  <2> DEFINE credit == Credit(amount, total - paid)
  <2>1. credit \in 0 .. total - paid
    BY CreditBounds
  <2>2. ApplyPayment(total, paid, status, amount, pastDue)
          = Finalize(total, paid + credit, credit, pastDue)
    BY <1>2, ApplyToOpenBill
  <2>3. paid + credit \in paid .. total /\ (paid + credit) - paid = credit
    BY <2>1
  <2> HIDE DEF credit
  <2>4. QED BY <2>2, <2>3, FinalizeBalances DEF FeeStatus
<1>3. QED BY <1>1, <1>2

(* A bill with a positive total comes out PAID exactly when nothing is     *)
(* owed on it, unless it was cancelled ("Never marks student as PAID       *)
(* unless full payable amount has been received").                         *)
THEOREM ApplyPaymentSettles ==
  ASSUME NEW total \in Nat \ {0}, NEW paid \in 0 .. total,
         NEW status \in FeeStatus \ {"CANCELLED"},
         NEW amount \in Nat, NEW pastDue \in BOOLEAN
  PROVE  LET r == ApplyPayment(total, paid, status, amount, pastDue)
         IN  r.status = "PAID" <=> r.paidAmount = total
<1>1. CASE status = "PAID"
  BY <1>1 DEF ApplyPayment
<1>2. CASE status # "PAID"
  <2> DEFINE credit == Credit(amount, total - paid)
  <2>1. credit \in 0 .. total - paid
    BY CreditBounds
  <2>2. ApplyPayment(total, paid, status, amount, pastDue)
          = Finalize(total, paid + credit, credit, pastDue)
    BY <1>2, ApplyToOpenBill
  <2>3. paid + credit \in 0 .. total
    BY <2>1
  <2> HIDE DEF credit
  <2>4. QED BY <2>2, <2>3, FinalizeBalances
<1>3. QED BY <1>1, <1>2

(* Paying an open bill in two positive parts leaves the same row as paying *)
(* their sum at once: how a resident splits a payment cannot matter.       *)
THEOREM PaymentsCompose ==
  ASSUME NEW total \in Nat \ {0}, NEW paid \in Nat, paid < total,
         NEW status \in {"PENDING", "PARTIALLY_PAID", "OVERDUE"},
         NEW first \in Nat \ {0}, NEW second \in Nat \ {0},
         NEW pastDue \in BOOLEAN
  PROVE  LET one == ApplyPayment(total, paid, status, first, pastDue)
             two == ApplyPayment(total, one.paidAmount, one.status, second, pastDue)
             both == ApplyPayment(total, paid, status, first + second, pastDue)
         IN  /\ two.paidAmount = both.paidAmount
             /\ two.outstandingAmount = both.outstandingAmount
             /\ two.status = both.status
<1> DEFINE one == ApplyPayment(total, paid, status, first, pastDue)
           two == ApplyPayment(total, one.paidAmount, one.status, second, pastDue)
           both == ApplyPayment(total, paid, status, first + second, pastDue)
           c1 == Credit(first, total - paid)
           cb == Credit(first + second, total - paid)
<1>1. c1 \in 0 .. total - paid /\ cb \in 0 .. total - paid
  <2>1. first \in Nat /\ first + second \in Nat /\ total - paid \in Nat
    OBVIOUS
  <2>2. QED BY <2>1, CreditBounds
<1>2. one = Finalize(total, paid + c1, c1, pastDue)
      /\ both = Finalize(total, paid + cb, cb, pastDue)
  <2>1. status # "CANCELLED" /\ status # "PAID" /\ paid <= total
    OBVIOUS
  <2>2. one = Finalize(total, paid + c1, c1, pastDue)
    BY <2>1, ApplyToOpenBill
  <2>3. first + second \in Nat
    OBVIOUS
  <2>4. both = Finalize(total, paid + cb, cb, pastDue)
    BY <2>1, <2>3, ApplyToOpenBill
  <2>5. QED BY <2>2, <2>4
<1>3. paid + c1 \in 0 .. total /\ paid + cb \in 0 .. total
  BY <1>1
<1>4. /\ one.paidAmount = paid + c1
      /\ one.status = IF paid + c1 = total THEN "PAID"
                      ELSE IF pastDue THEN "OVERDUE" ELSE "PARTIALLY_PAID"
  <2>1. c1 > 0
    BY DEF Credit, Lesser
  <2> HIDE DEF one, c1
  <2>2. QED BY <1>1, <1>2, <1>3, <2>1, FinalizeBalances
<1>5. CASE first < total - paid
  <2> DEFINE c2 == Credit(second, total - (paid + c1))
  <2>1. c1 = first
    BY <1>5 DEF Credit, Lesser
  <2>2. (paid + c1) + c2 = paid + cb
    BY <2>1, <1>5 DEF Credit, Lesser
  <2>3. one.status # "PAID" /\ one.status # "CANCELLED"
    BY <1>4, <1>5, <2>1
  <2>4. two = Finalize(total, (paid + c1) + c2, c2, pastDue)
    <3> HIDE DEF one, c1
    <3>1. paid + c1 \in Nat /\ paid + c1 <= total
      BY <1>3
    <3>2. QED BY <1>4, <2>3, <3>1, ApplyToOpenBill
  <2> HIDE DEF c1, c2, cb, one, two, both
  <2>5. QED BY <1>2, <1>3, <2>2, <2>4, FinalizeBalances DEF one, two, both
<1>6. CASE ~(first < total - paid)
  <2>1. paid + c1 = total /\ paid + cb = total
    BY <1>6 DEF Credit, Lesser
  <2>2. one.status = "PAID" /\ one.paidAmount = total
    BY <1>4, <2>1
  <2>3. /\ two.paidAmount = total
        /\ two.outstandingAmount = 0
        /\ two.status = "PAID"
    BY <2>2 DEF ApplyPayment
  <2>4. /\ both.paidAmount = total
        /\ both.outstandingAmount = 0
        /\ both.status = "PAID"
    <3> HIDE DEF both, cb
    <3>1. total - total = 0 /\ total > 0 /\ total \in 0 .. total
      OBVIOUS
    <3>2. QED BY <1>2, <2>1, <3>1, FinalizeBalances
  <2> HIDE DEF two, both
  <2>5. QED BY <2>3, <2>4 DEF two, both
<1>7. QED BY <1>5, <1>6

-----------------------------------------------------------------------------
(***************************************************************************)
(* What SumFunctionOnSet comes to.  It is a function defined by recursion  *)
(* on the subsets of a finite set, and what it is on each of them follows  *)
(* from the smallest subset on which it were not: FiniteSetTheorems has    *)
(* that the subsets of a finite set are well founded.                      *)
(***************************************************************************)
Pick(s) == CHOOSE x \in s : TRUE
SumOf(g, w, s) == IF s = {} THEN 0 ELSE w[Pick(s)] + g[s \ {Pick(s)}]
IsFold(g, w, S) == g = [s \in SUBSET S |-> SumOf(g, w, s)]
FoldAt(w, S) == (CHOOSE g : IsFold(g, w, S))[S]

LEMMA PickIn == \A s : s # {} => Pick(s) \in s
  BY DEF Pick

(* Of any subsets of a finite set, one has no other of them within it.     *)
LEMMA SmallestSet ==
  ASSUME NEW S, IsFiniteSet(S), NEW Bad \in SUBSET SUBSET S, Bad # {}
  PROVE  \E s \in Bad : \A t \in Bad : ~(t \subseteq s /\ t # s)
<1>1. FiniteSubsetsOf(S) = SUBSET S
  BY FS_FiniteSubsetsOfFinite
<1>2. IsWellFoundedOn(StrictSubsetOrdering(S), SUBSET S)
  BY <1>1, FS_StrictSubsetOrderingWellFounded
<1>3. PICK s \in Bad : \A t \in Bad : ~(<<t, s>> \in StrictSubsetOrdering(S))
  BY <1>2, WFMin, Zenon
<1>4. QED
  BY <1>3 DEF StrictSubsetOrdering

(* Two such functions agree where both are defined...                      *)
LEMMA FoldsAgree ==
  ASSUME NEW S, NEW T, IsFiniteSet(S), NEW w, NEW g, NEW h,
         IsFold(g, w, S), IsFold(h, w, T)
  PROVE  \A s \in SUBSET (S \cap T) : g[s] = h[s]
<1> DEFINE Bad == {s \in SUBSET (S \cap T) : g[s] # h[s]}
<1>1. SUFFICES ASSUME Bad # {} PROVE FALSE
  OBVIOUS
<1>2. PICK s \in Bad : \A t \in Bad : ~(t \subseteq s /\ t # s)
  <2>1. Bad \in SUBSET SUBSET S
    OBVIOUS
  <2> HIDE DEF Bad
  <2>2. QED
    BY <1>1, <2>1, SmallestSet
<1>3. s \in SUBSET S /\ s \in SUBSET T /\ g[s] # h[s]
  OBVIOUS
<1>4. g[s] = SumOf(g, w, s) /\ h[s] = SumOf(h, w, s)
  BY <1>3 DEF IsFold
<1>5. CASE s = {}
  BY <1>3, <1>4, <1>5 DEF SumOf
<1>6. CASE s # {}
  <2> DEFINE t == s \ {Pick(s)}
  <2>1. t \subseteq s /\ t # s /\ t \in SUBSET (S \cap T)
    BY <1>3, <1>6, PickIn
  <2>2. g[t] = h[t]
    BY <1>2, <2>1
  <2>3. QED
    BY <1>3, <1>4, <1>6, <2>2 DEF SumOf
<1>7. QED
  BY <1>5, <1>6

(* ...and there is one for each finite set.                                *)
LEMMA FoldExists ==
  ASSUME NEW S, IsFiniteSet(S), NEW w
  PROVE  \E g : IsFold(g, w, S)
<1> DEFINE Bad == {s \in SUBSET S : ~ \E g : IsFold(g, w, s)}
<1>1. SUFFICES ASSUME Bad # {} PROVE FALSE
  OBVIOUS
<1>2. PICK s \in Bad : \A t \in Bad : ~(t \subseteq s /\ t # s)
  <2>1. Bad \in SUBSET SUBSET S
    OBVIOUS
  <2> HIDE DEF Bad
  <2>2. QED
    BY <1>1, <2>1, SmallestSet
<1> DEFINE h(t) == CHOOSE g : IsFold(g, w, t)
           rest(t) == t \ {Pick(t)}
           g == [t \in SUBSET s |-> IF t = {} THEN 0 ELSE w[Pick(t)] + h(rest(t))[rest(t)]]
<1>3. ASSUME NEW t \in SUBSET s, t # s PROVE IsFold(h(t), w, t)
  <2>1. t \notin Bad
    BY <1>2, <1>3
  <2>2. \E k : IsFold(k, w, t)
    BY <2>1
  <2>3. QED
    BY <2>2
<1>4. ASSUME NEW t \in SUBSET s PROVE g[t] = SumOf(g, w, t)
  <2>1. CASE t = {}
    BY <2>1 DEF SumOf
  <2>2. CASE t # {}
    <3> DEFINE u == rest(t)
    <3>1. u \in SUBSET s /\ u # s /\ u \subseteq t
      BY <1>4, <2>2, PickIn
    <3>2. IsFold(h(u), w, u)
      BY <1>3, <3>1
    <3>3. h(u)[u] = SumOf(h(u), w, u)
      <4> HIDE DEF h, u
      <4> QED
      BY <3>2 DEF IsFold
    <3>4. g[u] = h(u)[u]
      <4>1. CASE u = {}
        BY <3>1, <3>3, <4>1 DEF SumOf
      <4>2. CASE u # {}
        <5> DEFINE v == rest(u)
        <5>1. v \in SUBSET s /\ v # s /\ v \subseteq u
          BY <3>1, <4>2, PickIn
        <5>2. IsFold(h(v), w, v)
          BY <1>3, <5>1
        <5>3. h(u)[v] = h(v)[v]
          <6>1. IsFiniteSet(u)
            BY <3>1, FS_Subset
          <6>2. v \in SUBSET (u \cap v)
            BY <5>1
          <6> HIDE DEF h, u, v
          <6>3. QED
            BY <3>2, <5>2, <6>1, <6>2, FoldsAgree
        <5>4. g[u] = w[Pick(u)] + h(v)[v]
          BY <3>1, <4>2
        <5>5. QED
          BY <5>3, <5>4, <3>3, <4>2 DEF SumOf
      <4>3. QED
        BY <4>1, <4>2
    <3>5. g[t] = w[Pick(t)] + h(u)[u]
      BY <2>2
    <3>6. QED
      BY <2>2, <3>4, <3>5 DEF SumOf
  <2>3. QED
    BY <2>1, <2>2
<1>5. IsFold(g, w, s)
  <2>1. g = [t \in SUBSET s |-> g[t]]
    OBVIOUS
  <2> HIDE DEF g
  <2>2. QED
    BY <1>4, <2>1 DEF IsFold
<1>6. QED
  BY <1>2, <1>5

LEMMA SumIsFold ==
  ASSUME NEW S, NEW w
  PROVE  SumFunctionOnSet(w, S) = FoldAt(w, S)
  BY DEF SumFunctionOnSet, FoldFunctionOnSet, MapThenFoldSet, FoldAt, IsFold, SumOf, Pick

LEMMA FoldOf ==
  ASSUME NEW S, IsFiniteSet(S), NEW w
  PROVE  IsFold(CHOOSE g : IsFold(g, w, S), w, S)
  BY FoldExists, Zenon

(* So the sum is taken element by element...                               *)
LEMMA SumStep ==
  ASSUME NEW S, IsFiniteSet(S), NEW w, S # {}
  PROVE  SumFunctionOnSet(w, S) = w[Pick(S)] + SumFunctionOnSet(w, S \ {Pick(S)})
<1> DEFINE T == S \ {Pick(S)}
           g == CHOOSE f : IsFold(f, w, S)
           h == CHOOSE f : IsFold(f, w, T)
<1>1. IsFiniteSet(T) /\ T \in SUBSET S
  BY FS_Subset
<1>2. IsFold(g, w, S) /\ IsFold(h, w, T)
  BY <1>1, FoldOf
<1>3. g[T] = h[T]
  <2> HIDE DEF g, h
  <2>1. T \in SUBSET (S \cap T)
    BY <1>1
  <2> HIDE DEF T
  <2>2. QED
    BY <1>2, <2>1, FoldsAgree
<1>4. g[S] = w[Pick(S)] + g[T]
  <2> HIDE DEF g
  <2>1. QED
    BY <1>2 DEF IsFold, SumOf
<1>5. QED
  BY <1>3, <1>4, SumIsFold DEF FoldAt

LEMMA SumEmpty ==
  ASSUME NEW w
  PROVE  SumFunctionOnSet(w, {}) = 0
<1> DEFINE g == CHOOSE f : IsFold(f, w, {})
<1>1. IsFold(g, w, {})
  BY FoldOf, FS_EmptySet
<1>2. g[{}] = 0
  <2> HIDE DEF g
  <2>1. QED
    BY <1>1 DEF IsFold, SumOf
<1>3. QED
  BY <1>2, SumIsFold DEF FoldAt

LEMMA SumIsNat ==
  ASSUME NEW S, IsFiniteSet(S), NEW w, \A x \in S : w[x] \in Nat
  PROVE  SumFunctionOnSet(w, S) \in Nat
<1> DEFINE Bad == {s \in SUBSET S : SumFunctionOnSet(w, s) \notin Nat}
<1>1. SUFFICES ASSUME Bad # {} PROVE FALSE
  OBVIOUS
<1>2. PICK s \in Bad : \A t \in Bad : ~(t \subseteq s /\ t # s)
  <2>1. Bad \in SUBSET SUBSET S
    OBVIOUS
  <2> HIDE DEF Bad
  <2>2. QED
    BY <1>1, <2>1, SmallestSet
<1>3. s # {} /\ IsFiniteSet(s)
  <2>1. s \in SUBSET S
    OBVIOUS
  <2>2. s # {}
    BY SumEmpty
  <2>3. QED
    BY <2>1, <2>2, FS_Subset
<1>4. SumFunctionOnSet(w, s) = w[Pick(s)] + SumFunctionOnSet(w, s \ {Pick(s)})
  BY <1>3, SumStep
<1>5. Pick(s) \in s /\ s \ {Pick(s)} \in SUBSET S
  BY <1>3, PickIn
<1>6. SumFunctionOnSet(w, s \ {Pick(s)}) \in Nat
  BY <1>2, <1>5
<1>7. QED
  BY <1>4, <1>5, <1>6

(* ...in any order.                                                        *)
LEMMA SumWithout ==
  ASSUME NEW S, IsFiniteSet(S), NEW w, \A y \in S : w[y] \in Nat, NEW x \in S
  PROVE  SumFunctionOnSet(w, S) = w[x] + SumFunctionOnSet(w, S \ {x})
<1> DEFINE Rest(s, y) == w[y] + SumFunctionOnSet(w, s \ {y})
           Bad == {s \in SUBSET S : \E y \in s : SumFunctionOnSet(w, s) # Rest(s, y)}
<1>1. SUFFICES ASSUME Bad # {} PROVE FALSE
  OBVIOUS
<1>2. PICK s \in Bad : \A t \in Bad : ~(t \subseteq s /\ t # s)
  <2>1. Bad \in SUBSET SUBSET S
    OBVIOUS
  <2> HIDE DEF Bad
  <2>2. QED
    BY <1>1, <2>1, SmallestSet
<1>3. PICK y \in s : SumFunctionOnSet(w, s) # Rest(s, y)
  OBVIOUS
<1> DEFINE z == Pick(s)
<1>4. IsFiniteSet(s) /\ s \in SUBSET S /\ z \in s
  BY PickIn, FS_Subset
<1>5. SumFunctionOnSet(w, s) = Rest(s, z)
  BY <1>4, SumStep
<1>6. y # z
  BY <1>3, <1>5
<1>7. SumFunctionOnSet(w, s \ {z}) = Rest(s \ {z}, y)
  <2> DEFINE t == s \ {z}
  <2>1. t \in SUBSET S /\ t \subseteq s /\ t # s /\ y \in t
    BY <1>4, <1>6
  <2>2. t \notin Bad
    BY <1>2, <2>1
  <2>3. QED
    BY <2>1, <2>2
<1>8. SumFunctionOnSet(w, s \ {y}) = Rest(s \ {y}, z)
  <2> DEFINE t == s \ {y}
  <2>1. t \in SUBSET S /\ t \subseteq s /\ t # s /\ z \in t
    BY <1>4, <1>6
  <2>2. t \notin Bad
    BY <1>2, <2>1
  <2>3. QED
    BY <2>1, <2>2
<1>9. (s \ {z}) \ {y} = (s \ {y}) \ {z}
  OBVIOUS
<1>10. SumFunctionOnSet(w, (s \ {y}) \ {z}) \in Nat
  BY <1>4, SumIsNat, FS_Subset
<1>11. w[y] \in Nat /\ w[z] \in Nat
  BY <1>4
<1>12. QED
  BY <1>3, <1>5, <1>7, <1>8, <1>9, <1>10, <1>11

LEMMA SumWith ==
  ASSUME NEW S, IsFiniteSet(S), NEW w, \A y \in S : w[y] \in Nat,
         NEW x, x \notin S, w[x] \in Nat
  PROVE  SumFunctionOnSet(w, S \cup {x}) = w[x] + SumFunctionOnSet(w, S)
<1>1. IsFiniteSet(S \cup {x}) /\ (S \cup {x}) \ {x} = S
  BY FS_AddElement
<1>2. \A y \in S \cup {x} : w[y] \in Nat
  OBVIOUS
<1>3. QED
  BY <1>1, <1>2, SumWithout

(* Smaller values add up to no more...                                     *)
LEMMA SumAtMost ==
  ASSUME NEW S, IsFiniteSet(S), NEW v, NEW w,
         \A x \in S : v[x] \in Nat /\ w[x] \in Nat /\ v[x] <= w[x]
  PROVE  SumFunctionOnSet(v, S) <= SumFunctionOnSet(w, S)
<1> DEFINE Bad == {s \in SUBSET S : ~(SumFunctionOnSet(v, s) <= SumFunctionOnSet(w, s))}
<1>1. SUFFICES ASSUME Bad # {} PROVE FALSE
  OBVIOUS
<1>2. PICK s \in Bad : \A t \in Bad : ~(t \subseteq s /\ t # s)
  <2>1. Bad \in SUBSET SUBSET S
    OBVIOUS
  <2> HIDE DEF Bad
  <2>2. QED
    BY <1>1, <2>1, SmallestSet
<1>3. s # {} /\ IsFiniteSet(s)
  <2>1. s \in SUBSET S
    OBVIOUS
  <2>2. s # {}
    BY SumEmpty
  <2>3. QED
    BY <2>1, <2>2, FS_Subset
<1> DEFINE x == Pick(s)
           t == s \ {x}
<1>4. x \in s /\ t \in SUBSET S /\ t \subseteq s /\ t # s /\ IsFiniteSet(t)
  BY <1>3, PickIn, FS_Subset
<1>5. SumFunctionOnSet(v, t) <= SumFunctionOnSet(w, t)
  BY <1>2, <1>4
<1>6. /\ SumFunctionOnSet(v, s) = v[x] + SumFunctionOnSet(v, t)
      /\ SumFunctionOnSet(w, s) = w[x] + SumFunctionOnSet(w, t)
  BY <1>3, SumStep
<1>7. SumFunctionOnSet(v, t) \in Nat /\ SumFunctionOnSet(w, t) \in Nat
  BY <1>4, SumIsNat
<1>8. v[x] \in Nat /\ w[x] \in Nat /\ v[x] <= w[x]
  BY <1>4
<1>9. ~(SumFunctionOnSet(v, s) <= SumFunctionOnSet(w, s))
  OBVIOUS
<1> HIDE DEF x, t
<1>10. QED
  BY <1>5, <1>6, <1>7, <1>8, <1>9

LEMMA SumSame ==
  ASSUME NEW S, IsFiniteSet(S), NEW v, NEW w,
         \A x \in S : w[x] \in Nat /\ v[x] = w[x]
  PROVE  SumFunctionOnSet(v, S) = SumFunctionOnSet(w, S)
<1>1. SumFunctionOnSet(v, S) <= SumFunctionOnSet(w, S)
  BY SumAtMost
<1>2. SumFunctionOnSet(w, S) <= SumFunctionOnSet(v, S)
  BY SumAtMost
<1>3. SumFunctionOnSet(v, S) \in Nat /\ SumFunctionOnSet(w, S) \in Nat
  BY SumIsNat
<1>4. QED
  BY <1>1, <1>2, <1>3

(* ...and so does a part of the values.                                    *)
LEMMA SumWithin ==
  ASSUME NEW S, IsFiniteSet(S), NEW w, \A x \in S : w[x] \in Nat,
         NEW T \in SUBSET S
  PROVE  SumFunctionOnSet(w, T) <= SumFunctionOnSet(w, S)
<1> DEFINE Bad == {s \in SUBSET S : ~(SumFunctionOnSet(w, s \cap T) <= SumFunctionOnSet(w, s))}
<1>1. ASSUME Bad # {} PROVE FALSE
  <2>1. PICK s \in Bad : \A t \in Bad : ~(t \subseteq s /\ t # s)
    <3>1. Bad \in SUBSET SUBSET S
      OBVIOUS
    <3> HIDE DEF Bad
    <3>2. QED
      BY <1>1, <3>1, SmallestSet
  <2>2. s # {} /\ IsFiniteSet(s) /\ s \in SUBSET S
    <3>1. SumFunctionOnSet(w, {}) <= SumFunctionOnSet(w, {})
      BY SumEmpty
    <3>2. s # {}
      <4>1. SUFFICES ASSUME s = {} PROVE FALSE
        OBVIOUS
      <4>2. s \cap T = {} /\ ~(SumFunctionOnSet(w, s \cap T) <= SumFunctionOnSet(w, s))
        BY <4>1
      <4>3. QED
        BY <3>1, <4>1, <4>2
    <3>3. s \in SUBSET S
      OBVIOUS
    <3>4. QED
      BY <3>2, <3>3, FS_Subset
  <2> DEFINE x == Pick(s)
             t == s \ {x}
  <2>3. x \in s /\ t \in SUBSET S /\ t \subseteq s /\ t # s /\ IsFiniteSet(t)
    BY <2>2, PickIn, FS_Subset
  <2>4. SumFunctionOnSet(w, t \cap T) <= SumFunctionOnSet(w, t)
    BY <2>1, <2>3
  <2>5. SumFunctionOnSet(w, s) = w[x] + SumFunctionOnSet(w, t)
    BY <2>2, SumStep
  <2>6. SumFunctionOnSet(w, s \cap T) \in {SumFunctionOnSet(w, t \cap T), w[x] + SumFunctionOnSet(w, t \cap T)}
    <3>1. CASE x \in T
      <4>1. IsFiniteSet(s \cap T) /\ x \in s \cap T /\ (s \cap T) \ {x} = t \cap T
        BY <2>2, <2>3, <3>1, FS_Subset
      <4>2. QED
        BY <4>1, SumWithout
    <3>2. CASE x \notin T
      <4>1. s \cap T = t \cap T
        BY <3>2
      <4>2. QED
        BY <4>1
    <3>3. QED
      BY <3>1, <3>2
  <2>7. SumFunctionOnSet(w, t \cap T) \in Nat /\ SumFunctionOnSet(w, t) \in Nat
    <3>1. IsFiniteSet(t \cap T) /\ t \cap T \subseteq S
      BY <2>3, FS_Subset
    <3>2. QED
      BY <2>3, <3>1, SumIsNat
  <2>8. w[x] \in Nat
    BY <2>3
  <2>9. ~(SumFunctionOnSet(w, s \cap T) <= SumFunctionOnSet(w, s))
    BY <2>1
  <2> HIDE DEF x, t
  <2>10. QED
    BY <2>4, <2>5, <2>6, <2>7, <2>8, <2>9
<1>2. S \notin Bad
  BY <1>1
<1>3. S \cap T = T
  OBVIOUS
<1>4. QED
  BY <1>2, <1>3
=============================================================================
