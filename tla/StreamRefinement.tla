-------------------------- MODULE StreamRefinement --------------------------
(***************************************************************************)
(* The Redis stream and its group read as the delivery port.               *)
(***************************************************************************)
EXTENDS EventStream

(* A loop is about to hand e to its handler, or to the dead letters.       *)
Retried(e) ==
    \E c \in Consumer : Pc(c) \in {"handle", "dead"} /\ Current(c) = e

(* What has become of an entry, read off the stream, its pending list, its *)
(* dead letters, the handler's record and the loops.                       *)
Fate(e) ==
    IF e > published THEN "absent"
    ELSE IF ~group \/ e <= start THEN "missed"
    ELSE IF handled[e] > 0 THEN
        IF dlq[e] > 0 THEN "both" ELSE IF Retried(e) THEN "doubted" ELSE "handled"
    ELSE IF dlq[e] > 0 THEN "dead"
    ELSE IF e <= cursor /\ e \in malformed \ pel THEN "dropped"
    ELSE "due"

Port == INSTANCE GroupDelivery WITH
    Event <- Entry,
    subscribed <- group,
    fate <- [e \in Entry |-> Fate(e)],
    mishaps <- faults

(* Crashes, lost acknowledgements and restarts included, the group sees    *)
(* the delivery protocol of GroupDelivery: no event published after the    *)
(* subscription is missed, and the verdict on an event is final unless its *)
(* acknowledgement fails.  A handled entry goes back to the handler, or to *)
(* the dead letters, only in the loop whose XACK rejected, once for each   *)
(* such failure; a dead-lettered or dropped one never does.                *)
ImplementsPort == Port!Spec
=============================================================================
