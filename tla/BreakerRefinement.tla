------------------------- MODULE BreakerRefinement --------------------------
(***************************************************************************)
(* The breaker read as the documented one.                                 *)
(***************************************************************************)
EXTENDS CircuitBreaker

CONSTANT None

ASSUME NoneAssumption == None \notin Call

Probe == IF probes = {} THEN None ELSE CHOOSE c \in probes : TRUE

Ideal == INSTANCE IdealBreaker WITH
    phase <- state,
    streak <- consecutiveFailures,
    age <- elapsed,
    probe <- Probe

(* However calls overlap, the breaker behaves as documented for as long as *)
(* no call outlives the circuit period it began in and no two share a      *)
(* half-open one: the half-open period admits one call, and every outcome  *)
(* is judged in the period in which its call began.                        *)
ImplementsIdeal ==
    /\ Ideal!Init
    /\ [][~mixed' => Ideal!Next \/ UNCHANGED Ideal!ideal]_vars
=============================================================================
