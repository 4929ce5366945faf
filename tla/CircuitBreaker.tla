--------------------------- MODULE CircuitBreaker ---------------------------
(***************************************************************************)
(* The circuit breaker every adapter of an external service shares among   *)
(* its concurrent calls (packages/resilience).                             *)
(*                                                                         *)
(* exec is asynchronous: its admission test is one step, and its outcome   *)
(* is recorded in a later step, when other calls and the clock may have    *)
(* moved the breaker on.  Time is the age of the last trip, counted up to  *)
(* OpenMs because the code only asks whether OpenMs has passed; the        *)
(* failure counter is counted up to Threshold for the same reason.         *)
(***************************************************************************)
EXTENDS Integers, FiniteSets

CONSTANTS
    Call,           \* calls that can be in flight at the same time
    Threshold,      \* failureThreshold
    OpenMs          \* openMs, in ticks of the model's clock

ASSUME BreakerAssumption ==
    /\ Threshold \in Nat \ {0}
    /\ OpenMs \in Nat \ {0}

VARIABLES
    state,                  \* the CircuitState
    consecutiveFailures,    \* the failure counter, up to Threshold
    elapsed,                \* now - openedAt, up to OpenMs
    running,                \* calls whose fn() has not settled
    probes,     \* history: running calls admitted in this half-open period
    recent,     \* history: failures since the last success, up to Threshold
    mixed       \* history: a call outlived the circuit period it began in,
                \* or a half-open period had a second call

vars == <<state, consecutiveFailures, elapsed, running, probes, recent, mixed>>

TypeOK ==
    /\ state \in {"closed", "open", "half-open"}
    /\ consecutiveFailures \in 0..Threshold
    /\ elapsed \in 0..OpenMs
    /\ running \in SUBSET Call
    /\ probes \in SUBSET running
    /\ recent \in 0..Threshold
    /\ mixed \in BOOLEAN

Init ==
    /\ state = "closed"
    /\ consecutiveFailures = 0
    /\ elapsed = OpenMs
    /\ running = {}
    /\ probes = {}
    /\ recent = 0
    /\ mixed = FALSE

UpTo(n, bound) == IF n > bound THEN bound ELSE n

(***************************************************************************)
(* Admission                                                               *)
(***************************************************************************)

(* maybeRecover: an open breaker becomes half-open when OpenMs has passed. *)
Recovered == state = "open" /\ elapsed >= OpenMs

StateNow == IF Recovered THEN "half-open" ELSE state

(* exec up to the call of fn; an open breaker throws and changes nothing. *)
Admit(c) ==
    /\ c \notin running
    /\ StateNow # "open"
    /\ state' = StateNow
    /\ running' = running \cup {c}
    /\ probes' = IF StateNow = "half-open" THEN probes \cup {c} ELSE probes
    /\ mixed' = (mixed \/ (StateNow = "half-open" /\ running # {}))
    /\ UNCHANGED <<consecutiveFailures, elapsed, recent>>

(* getState also moves an open breaker to half-open, without a call. *)
GetState ==
    /\ Recovered
    /\ state' = "half-open"
    /\ UNCHANGED <<consecutiveFailures, elapsed, running, probes, recent, mixed>>

(***************************************************************************)
(* Outcomes.  They do not depend on the state in which the call began.     *)
(***************************************************************************)

Ended(c) ==
    /\ c \in running
    /\ running' = running \ {c}

(* The calls of a half-open period that ends are probes no longer. *)
ProbesAfter(c) ==
    probes' = IF state = "half-open" /\ state' # "half-open"
              THEN {}
              ELSE probes \ {c}

(* Fault: the counter survives a successful probe. *)
RecordSuccess_KeepsCount ==
    /\ state' = IF state = "half-open" THEN "closed" ELSE state
    /\ consecutiveFailures' =
          IF state = "half-open" THEN consecutiveFailures ELSE 0

(* Fault: a success while closed does not end the streak. *)
RecordSuccess_OnlyProbes ==
    /\ state' = IF state = "half-open" THEN "closed" ELSE state
    /\ consecutiveFailures' =
          IF state = "half-open" THEN 0 ELSE consecutiveFailures

(* Fault: a success takes one failure back instead of all of them. *)
RecordSuccess_Decrements ==
    /\ state' = IF state = "half-open" THEN "closed" ELSE state
    /\ consecutiveFailures' = consecutiveFailures - 1

(* Fault: the breaker stays half-open. *)
RecordSuccess_StaysHalfOpen ==
    /\ state' = state
    /\ consecutiveFailures' = 0

RecordSuccess ==
    /\ state' = IF state = "half-open" THEN "closed" ELSE state
    /\ consecutiveFailures' = 0

Success(c) ==
    /\ Ended(c)
    /\ RecordSuccess
    /\ ProbesAfter(c)
    /\ recent' = 0
    /\ UNCHANGED <<elapsed, mixed>>

(* Fault: one failure too many is allowed. *)
RecordFailure_Lenient ==
    /\ consecutiveFailures' =
          IF state = "half-open"
          THEN consecutiveFailures
          ELSE UpTo(consecutiveFailures + 1, Threshold)
    /\ LET trips == state = "half-open" \/ consecutiveFailures >= Threshold
       IN /\ state' = IF trips THEN "open" ELSE state
          /\ elapsed' = IF trips THEN 0 ELSE elapsed

(* A failure trips the breaker when it is half-open or when the streak is  *)
(* long enough; a late failure of an open breaker restarts the cooldown.   *)
RecordFailure ==
    /\ consecutiveFailures' =
          IF state = "half-open"
          THEN consecutiveFailures
          ELSE UpTo(consecutiveFailures + 1, Threshold)
    /\ LET trips == state = "half-open" \/ consecutiveFailures + 1 >= Threshold
       IN /\ state' = IF trips THEN "open" ELSE state
          /\ elapsed' = IF trips THEN 0 ELSE elapsed

(* fn rejects, or withTimeout gives it up; the breaker counts both alike. *)
Failure(c) ==
    /\ Ended(c)
    /\ RecordFailure
    /\ ProbesAfter(c)
    /\ recent' = UpTo(recent + 1, Threshold)
    /\ mixed' = (mixed \/ (state' = "open" /\ running' # {}))

(* An error isFailure exempts leaves the breaker alone. *)
Exempt(c) ==
    /\ Ended(c)
    /\ UNCHANGED <<state, consecutiveFailures, elapsed, recent, mixed>>
    /\ ProbesAfter(c)

Tick ==
    /\ elapsed < OpenMs
    /\ elapsed' = elapsed + 1
    /\ UNCHANGED <<state, consecutiveFailures, running, probes, recent, mixed>>

Next ==
    \/ \E c \in Call : Admit(c) \/ Success(c) \/ Failure(c) \/ Exempt(c)
    \/ GetState
    \/ Tick

Spec == Init /\ [][Next]_vars

(* Calls settle (fetch and withTimeout bound them), time passes, and the   *)
(* callers do not stop calling: without a call nothing moves an open       *)
(* breaker.                                                                *)
Fairness ==
    /\ WF_vars(Tick)
    /\ WF_vars(\E c \in Call : Admit(c))
    /\ \A c \in Call : WF_vars(Success(c) \/ Failure(c) \/ Exempt(c))

FairSpec == Spec /\ Fairness

(***************************************************************************)
(* Properties                                                              *)
(***************************************************************************)

(* A closed breaker has not just seen Threshold failures in a row, however *)
(* the outcomes of overlapping calls arrive, late ones of an earlier       *)
(* period included.                                                        *)
ClosedMeansHealthy == state = "closed" => recent < Threshold

(* A closed breaker trips only when the last Threshold counted outcomes    *)
(* were failures: a success anywhere among them ends the streak.           *)
TripNeedsStreak ==
    [][state = "closed" /\ state' = "open" => recent' = Threshold]_vars

(* When every call that settles from some time on is a success, the        *)
(* breaker ends up closed for good.                                        *)
Recovers ==
    <>[][\A c \in Call : Failure(c) \/ Exempt(c) => Success(c)]_vars
        => <>[](state = "closed")

(* exec's comment: a half-open breaker allows exactly one call.            *)
OneProbe == Cardinality(probes) <= 1
=============================================================================
