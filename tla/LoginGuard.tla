----------------------------- MODULE LoginGuard -----------------------------
(***************************************************************************)
(* Password sign-in for one e-mail address and the counter in Redis that   *)
(* locks it out. LoginUseCase reads the counter first and increments it    *)
(* last, after the account was looked up and the password verified; in     *)
(* between others do the same.                                             *)
(***************************************************************************)
EXTENDS Naturals, FiniteSets

CONSTANTS
    Attempt,            \* login requests in progress at the same time
    MaxFailedAttempts,  \* MAX_FAILED_LOGIN_ATTEMPTS
    MaxLost             \* bound: increments that fail

ASSUME AttemptAssumption == IsFiniteSet(Attempt)
ASSUME MaxFailedAttemptsAssumption == MaxFailedAttempts \in Nat \ {0}
ASSUME MaxLostAssumption == MaxLost \in Nat

VARIABLES
    failures,   \* the counter; 0 if the key does not exist
    backup,     \* the user's backup code was used
    login,      \* what each request does next
    guesses,    \* history: wrong guesses since the counter was last cleared
    lost        \* history: increments that failed

guardVars == <<failures, backup, login, guesses, lost>>

\* counted: to increment; cleared: to reset and then refuse; accepted: to
\* reset and then issue a session
LoginTypeOK ==
    /\ failures \in Nat /\ guesses \in Nat
    /\ lost \in 0 .. MaxLost
    /\ backup \in BOOLEAN
    /\ login \in [Attempt -> {"idle", "admitted", "factor", "counted", "cleared", "accepted"}]

LoginInit ==
    /\ failures = 0
    /\ backup = FALSE
    /\ login = [a \in Attempt |-> "idle"]
    /\ guesses = 0 /\ lost = 0

Then(a, pc) == login' = [login EXCEPT ![a] = pc]

Gate_OneTooMany(a) ==
    /\ login[a] = "idle" /\ failures <= MaxFailedAttempts
    /\ Then(a, "admitted")
    /\ UNCHANGED <<failures, backup, guesses, lost>>

(* A locked address is refused here. *)
Gate(a) ==
    /\ login[a] = "idle" /\ failures < MaxFailedAttempts
    /\ Then(a, "admitted")
    /\ UNCHANGED <<failures, backup, guesses, lost>>

(* A wrong password, or any for an address without one. *)
WrongPassword(a) ==
    /\ login[a] = "admitted"
    /\ guesses' = guesses + 1
    /\ Then(a, "counted")
    /\ UNCHANGED <<failures, backup, lost>>

(* The right password: of a banned account or one whose deletion can be    *)
(* undone (cleared), of one past its retention (counted, though no guess), *)
(* with a second factor or without. A code that is missing ends the        *)
(* request with the counter as it is.                                      *)
RightPassword(a) ==
    /\ login[a] = "admitted"
    /\ \E pc \in {"cleared", "counted", "idle", "factor", "accepted"} : Then(a, pc)
    /\ UNCHANGED <<failures, backup, guesses, lost>>

WrongCode(a) ==
    /\ login[a] = "factor"
    /\ guesses' = guesses + 1
    /\ Then(a, "counted")
    /\ UNCHANGED <<failures, backup, lost>>

TotpCode(a) ==
    /\ login[a] = "factor"
    /\ Then(a, "accepted")
    /\ UNCHANGED <<failures, backup, guesses, lost>>

(* consume: one conditional UPDATE. A code used before is a wrong one. *)
BackupCode(a) ==
    /\ login[a] = "factor" /\ ~backup
    /\ backup' = TRUE
    /\ Then(a, "accepted")
    /\ UNCHANGED <<failures, guesses, lost>>

(* INCR, and a time to live for a new key only. *)
Increment(a) ==
    /\ login[a] = "counted"
    /\ failures' = failures + 1
    /\ Then(a, "idle")
    /\ UNCHANGED <<backup, guesses, lost>>

(* Redis refuses, or the process dies: the guess was made all the same. *)
IncrementFails(a) ==
    /\ login[a] = "counted" /\ lost < MaxLost
    /\ lost' = lost + 1
    /\ Then(a, "idle")
    /\ UNCHANGED <<failures, backup, guesses>>

(* DEL. What follows, a refusal or the issue of a session, is not about    *)
(* the counter.                                                            *)
Clear(a) ==
    /\ login[a] \in {"cleared", "accepted"}
    /\ failures' = 0 /\ guesses' = 0
    /\ Then(a, "idle")
    /\ UNCHANGED <<backup, lost>>

(* The lookup, the verification or the reset throws. *)
LoginFails(a) ==
    /\ login[a] \in {"admitted", "factor", "cleared", "accepted"}
    /\ Then(a, "idle")
    /\ UNCHANGED <<failures, backup, guesses, lost>>

(* The fixed window of 15 minutes, which begins with the first failure. *)
WindowEnds ==
    /\ failures > 0
    /\ failures' = 0 /\ guesses' = 0
    /\ UNCHANGED <<backup, login, lost>>

LoginNext ==
    \/ \E a \in Attempt :
          \/ Gate(a) \/ WrongPassword(a) \/ RightPassword(a) \/ WrongCode(a)
          \/ TotpCode(a) \/ BackupCode(a) \/ Increment(a) \/ IncrementFails(a)
          \/ Clear(a) \/ LoginFails(a)
    \/ WindowEnds

LoginSpec == LoginInit /\ [][LoginNext]_guardVars

(***************************************************************************)
(* Properties                                                              *)
(***************************************************************************)

(* Between two moments at which the counter is cleared an address takes at *)
(* most the documented number of wrong guesses, plus one for every other   *)
(* request that may overlap the last one admitted, plus one for every      *)
(* increment that was lost.                                                *)
GuessesAreBounded ==
    guesses <= MaxFailedAttempts + Cardinality(Attempt) - 1 + lost
=============================================================================
