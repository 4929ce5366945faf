---------------------------- MODULE IdealBreaker ----------------------------
(***************************************************************************)
(* What the comment on CircuitBreaker.exec promises: closed calls through, *)
(* open fails fast for OpenMs, half-open lets exactly one call through     *)
(* whose outcome decides.                                                  *)
(***************************************************************************)
EXTENDS Naturals

CONSTANTS Call, Threshold, OpenMs, None

VARIABLES
    phase,      \* closed, open or half-open
    streak,     \* failures in a row while closed
    age,        \* time since the breaker opened
    running,    \* calls in flight
    probe       \* the call that decides a half-open period

ideal == <<phase, streak, age, running, probe>>

Init ==
    /\ phase = "closed"
    /\ streak = 0
    /\ age = OpenMs
    /\ running = {}
    /\ probe = None

PassClosed(c) ==
    /\ phase = "closed"
    /\ c \notin running
    /\ running' = running \cup {c}
    /\ UNCHANGED <<phase, streak, age, probe>>

(* The first call after the cooldown is the probe. *)
PassProbe(c) ==
    /\ \/ phase = "open" /\ age = OpenMs
       \/ phase = "half-open" /\ probe = None
    /\ c \notin running
    /\ phase' = "half-open"
    /\ probe' = c
    /\ running' = running \cup {c}
    /\ UNCHANGED <<streak, age>>

CoolDown ==
    /\ phase = "open"
    /\ age = OpenMs
    /\ phase' = "half-open"
    /\ UNCHANGED <<streak, age, running, probe>>

(* The outcome of the probe. *)
ProbeSucceeds(c) ==
    /\ phase = "half-open" /\ probe = c
    /\ phase' = "closed"
    /\ streak' = 0
    /\ probe' = None
    /\ running' = running \ {c}
    /\ UNCHANGED age

ProbeFails(c) ==
    /\ phase = "half-open" /\ probe = c
    /\ phase' = "open"
    /\ age' = 0
    /\ probe' = None
    /\ running' = running \ {c}
    /\ UNCHANGED streak

(* An exempt error frees the place of the probe. *)
ProbeUndecided(c) ==
    /\ phase = "half-open" /\ probe = c
    /\ probe' = None
    /\ running' = running \ {c}
    /\ UNCHANGED <<phase, streak, age>>

(* The outcome of a call that passed while the breaker was closed. *)
Succeeds(c) ==
    /\ c \in running /\ phase = "closed"
    /\ streak' = 0
    /\ running' = running \ {c}
    /\ UNCHANGED <<phase, age, probe>>

Fails(c) ==
    /\ c \in running /\ phase = "closed"
    /\ \/ /\ streak + 1 < Threshold
          /\ UNCHANGED <<phase, age>>
       \/ /\ streak + 1 = Threshold
          /\ phase' = "open"
          /\ age' = 0
    /\ streak' = streak + 1
    /\ running' = running \ {c}
    /\ UNCHANGED probe

(* A late outcome of a call other than the probe, and an exempt error,     *)
(* decide nothing.                                                         *)
Ignored(c) ==
    /\ c \in running /\ c # probe
    /\ running' = running \ {c}
    /\ UNCHANGED <<phase, streak, age, probe>>

TimePasses ==
    /\ age < OpenMs
    /\ age' = age + 1
    /\ UNCHANGED <<phase, streak, running, probe>>

Next ==
    \/ \E c \in Call :
          \/ PassClosed(c) \/ PassProbe(c)
          \/ ProbeSucceeds(c) \/ ProbeFails(c) \/ ProbeUndecided(c)
          \/ Succeeds(c) \/ Fails(c) \/ Ignored(c)
    \/ CoolDown
    \/ TimePasses

Spec == Init /\ [][Next]_ideal
=============================================================================
