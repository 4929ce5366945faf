---------------------------- MODULE Subscription ----------------------------
(***************************************************************************)
(* Stripe webhooks, the Subscription rows of one user and the user's role. *)
(* Stripe delivers an event any number of times and in any order; each     *)
(* delivery is one transaction of SyncSubscriptionUseCase.                 *)
(***************************************************************************)
EXTENDS Naturals

CONSTANTS
    Sub,        \* Stripe subscriptions of the user
    Handler,    \* webhook requests
    MaxEvents   \* events Stripe emits for one subscription

ASSUME MaxEventsAssumption == MaxEvents \in Nat
ASSUME SubAssumption == Sub # {}

VARIABLES
    stripe,     \* what Stripe has emitted: a sequence number and the event
                \* under each number, per subscription
    row,        \* Subscription row: status and, for history, the number of
                \* the event it was last written from
    role,       \* User.role
    hook        \* webhook requests in progress

subscriptionVars == <<stripe, row, role, hook>>

StripeStatus == {"trialing", "active", "past_due", "canceled", "unpaid",
                 "incomplete", "incomplete_expired", "paused"}
PremiumStatuses == {"trialing", "active"}
Privileged == {"admin", "compliance", "sre"}
Role == {"user", "premium", "agent"} \cup Privileged

(* Every Stripe status the column has no value for is stored as canceled. *)
PrismaStatus(s) == IF s \in {"trialing", "active", "past_due"} THEN s ELSE "canceled"

Grants(s) == s \in PremiumStatuses
TargetRole(s) == IF Grants(s) THEN "premium" ELSE "user"

IdleHook == [pc |-> "idle", sub |-> CHOOSE s \in Sub : TRUE, number |-> 0,
         status |-> "canceled", role |-> "user"]

SubscriptionTypeOK ==
    /\ stripe \in [Sub -> [count : 0 .. MaxEvents,
                           event : [1 .. MaxEvents -> StripeStatus],
                           status : StripeStatus]]
    /\ row \in [Sub -> [status : {"none", "trialing", "active", "past_due", "canceled"},
                        number : 0 .. MaxEvents]]
    /\ role \in Role
    /\ hook \in [Handler -> [pc : {"idle", "upserted", "read"}, sub : Sub,
                             number : 0 .. MaxEvents, status : StripeStatus, role : Role]]

SubscriptionInit ==
    /\ stripe = [s \in Sub |-> [count |-> 0, event |-> [n \in 1 .. MaxEvents |-> "canceled"],
                                status |-> "incomplete"]]
    /\ row = [s \in Sub |-> [status |-> "none", number |-> 0]]
    /\ role \in {"user", "agent", "admin"}
    /\ hook = [h \in Handler |-> IdleHook]

(***************************************************************************)
(* Stripe                                                                  *)
(***************************************************************************)

Emit(s, new, shown) ==
    /\ stripe[s].count < MaxEvents
    /\ stripe' = [stripe EXCEPT ![s] = [count |-> @.count + 1,
                                        event |-> [@.event EXCEPT ![stripe[s].count + 1] = shown],
                                        status |-> new]]
    /\ UNCHANGED <<row, role, hook>>

(* customer.subscription.created, .updated and .deleted carry the status. *)
SubscriptionEvent(s) == \E new \in StripeStatus : Emit(s, new, new)

(* checkout.session.completed carries none; onCheckoutSessionCompleted     *)
(* takes it for active. A paid session begins a trial or a paid period.    *)
CheckoutEvent(s) == \E new \in PremiumStatuses : Emit(s, new, "active")

(***************************************************************************)
(* The transaction                                                         *)
(***************************************************************************)

Upsert_Unlocked(h, s, n) ==
    /\ hook[h].pc = "idle" /\ n <= stripe[s].count
    /\ hook' = [hook EXCEPT ![h] = [pc |-> "upserted", sub |-> s, number |-> n,
                                    status |-> stripe[s].event[n], role |-> "user"]]
    /\ UNCHANGED <<stripe, row, role>>

(* The upsert keeps the row locked until the transaction ends, so that     *)
(* another delivery for the same subscription waits here. What it writes   *)
(* is seen when the transaction commits.                                   *)
Upsert(h, s, n) ==
    /\ hook[h].pc = "idle" /\ n <= stripe[s].count
    /\ \A g \in Handler : hook[g].pc # "idle" => hook[g].sub # s
    /\ hook' = [hook EXCEPT ![h] = [pc |-> "upserted", sub |-> s, number |-> n,
                                    status |-> stripe[s].event[n], role |-> "user"]]
    /\ UNCHANGED <<stripe, row, role>>

ReadRole(h) ==
    /\ hook[h].pc = "upserted"
    /\ hook' = [hook EXCEPT ![h].pc = "read", ![h].role = role]
    /\ UNCHANGED <<stripe, row, role>>

(* The user exists: rows refer to it. Events without the identifiers of a  *)
(* user and a subscription are acknowledged and ignored, and left out.     *)
(* A privileged role is left alone; any other becomes what the status      *)
(* grants, if it is not that already.                                      *)
Commit(h) ==
    LET target == TargetRole(hook[h].status) IN
    /\ hook[h].pc = "read"
    /\ row' = [row EXCEPT ![hook[h].sub] =
           [status |-> PrismaStatus(hook[h].status), number |-> hook[h].number]]
    /\ role' = IF hook[h].role \in Privileged \cup {target} THEN role ELSE target
    /\ hook' = [hook EXCEPT ![h] = IdleHook]
    /\ UNCHANGED stripe

(* A failed statement or a crash; Stripe will deliver the event again. *)
Rollback(h) ==
    /\ hook[h].pc # "idle"
    /\ hook' = [hook EXCEPT ![h] = IdleHook]
    /\ UNCHANGED <<stripe, row, role>>

SubscriptionNext ==
    \/ \E s \in Sub : SubscriptionEvent(s) \/ CheckoutEvent(s)
    \/ \E h \in Handler :
          \/ \E s \in Sub, n \in 1 .. MaxEvents : Upsert(h, s, n)
          \/ ReadRole(h) \/ Commit(h) \/ Rollback(h)

SubscriptionSpec == SubscriptionInit /\ [][SubscriptionNext]_subscriptionVars

(***************************************************************************)
(* Properties                                                              *)
(***************************************************************************)

(* A user with one subscription, whose newest event was the last one       *)
(* written, is premium exactly when Stripe says so, whatever deliveries    *)
(* were repeated, reordered, overlapping or rolled back before.            *)
RoleFollowsStripe ==
    \A s \in Sub :
        /\ row[s].number > 0 /\ row[s].number = stripe[s].count
        /\ role \notin Privileged
        => (role = "premium" <=> Grants(stripe[s].status))
=============================================================================
