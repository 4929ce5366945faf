------------------------------ MODULE SettleUp ------------------------------
(***************************************************************************)
(* computeMinimumCashflow of settle-up.use-case.ts: the loop that pairs    *)
(* creditors with debtors, one iteration per step, for any list of         *)
(* balances. Amounts are integers (cents), as in the code.                 *)
(***************************************************************************)
EXTENDS Integers, FiniteSets, Sequences

CONSTANTS
    Member,     \* travellers with a balance
    MaxCents    \* bound on a balance

ASSUME MaxCentsAssumption == MaxCents \in Nat
ASSUME MemberAssumption == IsFiniteSet(Member)

VARIABLES
    owed,       \* the balances given: positive is owed, negative owes
    left,       \* cents still to settle, updated by the loop
    creditors,  \* members with a positive balance, largest first
    debtors,    \* members with a negative balance, largest debt first
    i, j,       \* the pair under consideration
    plan        \* transfers suggested so far

settleVars == <<owed, left, creditors, debtors, i, j, plan>>

(* Array.sort by the comparator given; equal keys in any order. *)
Sortings(S, Before(_, _)) ==
    {q \in [1 .. Cardinality(S) -> S] :
        \A m, n \in 1 .. Cardinality(S) :
            m < n => q[m] # q[n] /\ ~Before(q[n], q[m])}

SettleInit ==
    /\ owed \in [Member -> -MaxCents .. MaxCents]
    /\ left = owed
    /\ creditors \in Sortings({m \in Member : owed[m] > 0}, LAMBDA a, b : owed[a] > owed[b])
    /\ debtors \in Sortings({m \in Member : owed[m] < 0}, LAMBDA a, b : owed[a] < owed[b])
    /\ i = 1 /\ j = 1
    /\ plan = <<>>

Smaller(a, b) == IF a < b THEN a ELSE b

Transfer_Larger(c, d) == IF left[c] < -left[d] THEN -left[d] ELSE left[c]

Transfer_ByCent(c, d) == 1

Transfer(c, d) == Smaller(left[c], -left[d])

(* The index moves past a member with nothing left. *)
Advance(n, rest) == IF rest = 0 THEN n + 1 ELSE n

Pair ==
    LET c == creditors[i]  d == debtors[j]  t == Transfer(c, d)
    IN  /\ i <= Len(creditors) /\ j <= Len(debtors)
        /\ plan' = IF t > 0 THEN Append(plan, [from |-> d, to |-> c, cents |-> t]) ELSE plan
        /\ left' = [left EXCEPT ![c] = @ - t, ![d] = @ + t]
        /\ i' = Advance(i, left'[c])
        /\ j' = Advance(j, left'[d])
        /\ UNCHANGED <<owed, creditors, debtors>>

SettleNext == Pair

SettleSpec == SettleInit /\ [][SettleNext]_settleVars

Returned == i > Len(creditors) \/ j > Len(debtors)

SettleTypeOK ==
    /\ owed \in [Member -> Int] /\ left \in [Member -> Int]
    /\ creditors \in Seq(Member) /\ debtors \in Seq(Member)
    /\ i \in 1 .. Len(creditors) + 1 /\ j \in 1 .. Len(debtors) + 1
    /\ plan \in Seq([from : Member, to : Member, cents : Int])

(***************************************************************************)
(* Properties                                                              *)
(***************************************************************************)

(* The running totals of a sequence of amounts, starting from 0. *)
Totals(s) ==
    LET upTo[n \in 0 .. Len(s)] == IF n = 0 THEN 0 ELSE upTo[n - 1] + s[n]
    IN  upTo

Total(s) == Totals(s)[Len(s)]

(* What a member receives (+) or pays (-) when everyone follows the plan,  *)
(* seen from the balance it settles.                                       *)
Flow(m) ==
    [n \in 1 .. Len(plan) |-> IF plan[n].from = m THEN plan[n].cents
                              ELSE IF plan[n].to = m THEN -plan[n].cents ELSE 0]

Net(m) == Total(Flow(m))

(* The sum over the members with a balance. *)
Of(f, members) == [n \in 1 .. Len(members) |-> f[members[n]]]
Balance(f) == Total(Of(f, creditors)) + Total(Of(f, debtors))

(* Followed to the end, the plan leaves no debtor or no creditor, pays     *)
(* nobody past zero, and leaves nobody anything when the balances add up   *)
(* to zero; rounding of shares is what keeps them from it.                 *)
PlanSettles ==
    Returned =>
        /\ \A m \in Member : owed[m] >= 0 => owed[m] + Net(m) \in 0 .. owed[m]
        /\ \A m \in Member : owed[m] <= 0 => owed[m] + Net(m) \in owed[m] .. 0
        /\ \/ \A m \in Member : owed[m] > 0 => owed[m] + Net(m) = 0
           \/ \A m \in Member : owed[m] < 0 => owed[m] + Net(m) = 0
        /\ Balance(owed) = 0 => \A m \in Member : owed[m] + Net(m) = 0

(* K members with a balance need at most K - 1 transfers, also when the    *)
(* balances do not add up.                                                 *)
PlanIsShort ==
    creditors # <<>> \/ debtors # <<>>
        => Len(plan) <= Len(creditors) + Len(debtors) - 1
=============================================================================
