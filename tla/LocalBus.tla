------------------------------ MODULE LocalBus ------------------------------
(***************************************************************************)
(* InMemoryEventBus, the bus the API is wired with: one process, one event *)
(* name. Publishing hands the event to every subscription at once and      *)
(* waits for all of them; each retries its handler on its own. Nothing     *)
(* survives the process, so a crash is the end of the model.               *)
(***************************************************************************)
EXTENDS Naturals

CONSTANTS
    Message,        \* events that may be published
    Subscriber,     \* calls of subscribe; each is a subscription of its own,
                    \* whatever consumer group it names
    LocalAttempts   \* deadLetterAfterAttempts

ASSUME LocalAttemptsAssumption == LocalAttempts \in Nat \ {0}

VARIABLES
    subs,           \* "new", "on" (in the list of the event) or "off"
    closed,
    publishing,     \* publish calls: "absent", "waiting", "returned", "refused"
    dispatch,       \* what became of each event at each subscription
    attempt         \* the attempt its handler is at

localVars == <<subs, closed, publishing, dispatch, attempt>>

LocalTypeOK ==
    /\ subs \in [Subscriber -> {"new", "on", "off"}]
    /\ closed \in BOOLEAN
    /\ publishing \in [Message -> {"absent", "waiting", "returned", "refused"}]
    /\ dispatch \in [Message -> [Subscriber -> {"none", "running", "handled", "dead"}]]
    /\ attempt \in [Message -> [Subscriber -> 1 .. LocalAttempts]]

LocalInit ==
    /\ subs = [s \in Subscriber |-> "new"]
    /\ closed = FALSE
    /\ publishing = [m \in Message |-> "absent"]
    /\ dispatch = [m \in Message |-> [s \in Subscriber |-> "none"]]
    /\ attempt = [m \in Message |-> [s \in Subscriber |-> 1]]

SubscribeLocal(s) ==
    /\ ~closed /\ subs[s] = "new"
    /\ subs' = [subs EXCEPT ![s] = "on"]
    /\ UNCHANGED <<closed, publishing, dispatch, attempt>>

UnsubscribeLocal_Abrupt(s) ==
    /\ subs[s] = "on"
    /\ subs' = [subs EXCEPT ![s] = "off"]
    /\ dispatch' = [m \in Message |-> [dispatch[m] EXCEPT ![s] =
                       IF @ = "running" THEN "none" ELSE @]]
    /\ UNCHANGED <<closed, publishing, attempt>>

(* The list is replaced, not changed: a publish under way keeps the one it *)
(* began with.                                                             *)
UnsubscribeLocal(s) ==
    /\ subs[s] = "on"
    /\ subs' = [subs EXCEPT ![s] = "off"]
    /\ UNCHANGED <<closed, publishing, dispatch, attempt>>

(* close empties the lists and returns, with handlers still running. *)
CloseLocal ==
    /\ ~closed
    /\ closed' = TRUE
    /\ subs' = [s \in Subscriber |-> IF subs[s] = "on" THEN "off" ELSE subs[s]]
    /\ UNCHANGED <<publishing, dispatch, attempt>>

PublishLocal(m) ==
    LET heard == {s \in Subscriber : subs[s] = "on"} IN
    /\ publishing[m] = "absent"
    /\ publishing' = [publishing EXCEPT ![m] =
           IF closed THEN "refused" ELSE IF heard = {} THEN "returned" ELSE "waiting"]
    /\ dispatch' = [dispatch EXCEPT ![m] =
           [s \in Subscriber |-> IF s \in heard THEN "running" ELSE "none"]]
    /\ UNCHANGED <<subs, closed, attempt>>

HandlerResolves(m, s) ==
    /\ dispatch[m][s] = "running"
    /\ dispatch' = [dispatch EXCEPT ![m][s] = "handled"]
    /\ UNCHANGED <<subs, closed, publishing, attempt>>

(* Retried at once, and dead-lettered after the last attempt. *)
HandlerRejects(m, s) ==
    /\ dispatch[m][s] = "running"
    /\ IF attempt[m][s] < LocalAttempts
       THEN attempt' = [attempt EXCEPT ![m][s] = @ + 1] /\ UNCHANGED dispatch
       ELSE dispatch' = [dispatch EXCEPT ![m][s] = "dead"] /\ UNCHANGED attempt
    /\ UNCHANGED <<subs, closed, publishing>>

(* Promise.all over the subscriptions. *)
PublishReturns(m) ==
    /\ publishing[m] = "waiting"
    /\ \A s \in Subscriber : dispatch[m][s] # "running"
    /\ publishing' = [publishing EXCEPT ![m] = "returned"]
    /\ UNCHANGED <<subs, closed, dispatch, attempt>>

LocalNext ==
    \/ CloseLocal
    \/ \E s \in Subscriber : SubscribeLocal(s) \/ UnsubscribeLocal(s)
    \/ \E m \in Message :
          \/ PublishLocal(m) \/ PublishReturns(m)
          \/ \E s \in Subscriber : HandlerResolves(m, s) \/ HandlerRejects(m, s)

LocalSpec == LocalInit /\ [][LocalNext]_localVars

(***************************************************************************)
(* The port, for one subscription                                          *)
(***************************************************************************)

LocalFate(m, s) ==
    IF publishing[m] = "absent" THEN "absent"
    ELSE IF dispatch[m][s] = "none" THEN "missed"
    ELSE IF dispatch[m][s] = "running" THEN "due"
    ELSE dispatch[m][s]

Port(s) == INSTANCE GroupDelivery WITH
    Event <- Message,
    subscribed <- subs[s] = "on",
    fate <- [m \in Message |-> LocalFate(m, s)],
    mishaps <- 0

(* Every subscription sees the delivery protocol of GroupDelivery, which   *)
(* the Redis bus implements too: whatever is published while it lasts is   *)
(* due to it and stays due after unsubscribe and close, until its handler  *)
(* has succeeded or used up its attempts.  There is no acknowledgement to  *)
(* lose here, so no mishap, and every verdict is final.                    *)
LocalImplementsPort ==
    /\ \A s \in Subscriber : Port(s)!Init
    /\ [][\A s \in Subscriber : Port(s)!Next \/ UNCHANGED Port(s)!delivery]_localVars
=============================================================================
