---------------------------- MODULE GroupDelivery ---------------------------
(***************************************************************************)
(* What the EventBus port promises one consumer group whatever happens:    *)
(* while it is subscribed every event published is due to it, and once the *)
(* event is dead-lettered, dropped as unreadable or acknowledged as        *)
(* handled, nothing changes that verdict any more.  The one exception is   *)
(* the price of delivering at least once: when the acknowledgement of a    *)
(* handled event fails, the event is in doubt, and may be handled again    *)
(* or dead-lettered on top.  Each event put in doubt is charged to a       *)
(* mishap of its own.                                                      *)
(***************************************************************************)
EXTENDS Naturals

CONSTANT Event

VARIABLES
    subscribed,     \* the group is subscribed
    fate,           \* what became of each event
    mishaps         \* failed commands and crashes so far

delivery == <<subscribed, fate, mishaps>>

Settled == {"handled", "dead", "dropped"}

Init ==
    /\ subscribed = FALSE
    /\ fate = [e \in Event |-> "absent"]
    /\ mishaps = 0

Subscribe ==
    /\ ~subscribed
    /\ subscribed' = TRUE
    /\ UNCHANGED <<fate, mishaps>>

(* The end of a subscription takes back nothing that is due. *)
Unsubscribe ==
    /\ subscribed
    /\ subscribed' = FALSE
    /\ UNCHANGED <<fate, mishaps>>

(* Nobody is owed an event that was published outside the subscription. *)
Publish(e) ==
    /\ fate[e] = "absent"
    /\ fate' = [fate EXCEPT ![e] = IF subscribed THEN "due" ELSE "missed"]
    /\ UNCHANGED <<subscribed, mishaps>>

(* An event that cannot be read is dropped. *)
Settle(e) ==
    /\ fate[e] = "due"
    /\ \E end \in Settled : fate' = [fate EXCEPT ![e] = end]
    /\ UNCHANGED <<subscribed, mishaps>>

(* The acknowledgement of a handled event fails, or whoever has an event   *)
(* in doubt is lost and leaves it as it was; most mishaps do neither.      *)
Mishap ==
    /\ mishaps' = mishaps + 1
    /\ \/ UNCHANGED fate
       \/ \E e \in Event :
             \/ fate[e] = "handled" /\ fate' = [fate EXCEPT ![e] = "doubted"]
             \/ fate[e] = "doubted" /\ fate' = [fate EXCEPT ![e] = "handled"]
    /\ UNCHANGED subscribed

(* An event in doubt is handled once more, or dead-lettered although it    *)
(* was handled.                                                            *)
Repeat(e) ==
    /\ fate[e] = "doubted"
    /\ \E end \in {"handled", "both"} : fate' = [fate EXCEPT ![e] = end]
    /\ UNCHANGED <<subscribed, mishaps>>

Next ==
    \/ Subscribe \/ Unsubscribe \/ Mishap
    \/ \E e \in Event : Publish(e) \/ Settle(e) \/ Repeat(e)

Spec == Init /\ [][Next]_delivery
=============================================================================
