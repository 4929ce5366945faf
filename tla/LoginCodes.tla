----------------------------- MODULE LoginCodes -----------------------------
(***************************************************************************)
(* One-time sign-in codes of one destination (an e-mail address or a phone *)
(* number): requesting one, and trying one. Codes are the rows 1, 2, ...   *)
(* in the order of createdAt.                                              *)
(***************************************************************************)
EXTENDS Naturals, FiniteSets, FiniteSetsExt

CONSTANTS
    Requester,      \* requests for a code in progress at the same time
    Consumer,       \* requests that try a code
    MaxCodes,       \* bound: rows ever created
    RateLimitMax,   \* RATE_LIMIT_MAX
    MaxAttempts,    \* MAX_ATTEMPTS
    MaxUnregistered \* bound: wrong tries whose registration fails

ASSUME LoginCodesAssumption ==
    /\ MaxCodes \in Nat \ {0} /\ RateLimitMax \in Nat \ {0}
    /\ MaxAttempts \in Nat \ {0} /\ MaxUnregistered \in Nat
    /\ IsFiniteSet(Requester) /\ IsFiniteSet(Consumer)

VARIABLES
    code,       \* LoginCode rows
    requester,  \* RequestLoginCodeUseCase: "idle" or "allowed"
    consumer,   \* ConsumeLoginCodeUseCase: what it does next, to which row
    wrong,      \* history: wrong codes compared with each row
    unregistered, \* history: how many of them failed to be registered
    signIns     \* history: sign-ins each code gave

codeVars == <<code, requester, consumer, wrong, unregistered, signIns>>

CodeRow == 1 .. MaxCodes

(* "valid" for ten minutes, then "expired", and "old" once it has left the *)
(* window of 15 minutes in which countRecent counts.                       *)
CodesTypeOK ==
    /\ code \in [CodeRow -> [age : {"none", "valid", "expired", "old"},
                             consumed : BOOLEAN, attempts : Nat]]
    /\ requester \in [Requester -> {"idle", "allowed"}]
    /\ consumer \in [Consumer -> [pc : {"idle", "wrong", "right"}, row : CodeRow]]
    /\ unregistered \in 0 .. MaxUnregistered
    /\ wrong \in [CodeRow -> Nat] /\ signIns \in [CodeRow -> Nat]

CodesInit ==
    /\ code = [k \in CodeRow |-> [age |-> "none", consumed |-> FALSE, attempts |-> 0]]
    /\ requester = [r \in Requester |-> "idle"]
    /\ consumer = [c \in Consumer |-> [pc |-> "idle", row |-> 1]]
    /\ wrong = [k \in CodeRow |-> 0] /\ unregistered = 0
    /\ signIns = [k \in CodeRow |-> 0]

Recent == {k \in CodeRow : code[k].age \in {"valid", "expired"}}
Usable(k) == code[k].age = "valid" /\ ~code[k].consumed

(***************************************************************************)
(* Requesting                                                              *)
(***************************************************************************)

CountRecent_OneTooMany(r) ==
    /\ requester[r] = "idle" /\ Cardinality(Recent) <= RateLimitMax
    /\ requester' = [requester EXCEPT ![r] = "allowed"]
    /\ UNCHANGED <<code, consumer, wrong, unregistered, signIns>>

(* Above the limit the request ends in silence. *)
CountRecent(r) ==
    /\ requester[r] = "idle" /\ Cardinality(Recent) < RateLimitMax
    /\ requester' = [requester EXCEPT ![r] = "allowed"]
    /\ UNCHANGED <<code, consumer, wrong, unregistered, signIns>>

(* A new code takes none of the earlier ones out of use. *)
CreateCode(r) ==
    /\ requester[r] = "allowed"
    /\ \E k \in CodeRow :
          /\ code[k].age = "none"
          /\ \A l \in CodeRow : l < k => code[l].age # "none"
          /\ code' = [code EXCEPT ![k].age = "valid"]
    /\ requester' = [requester EXCEPT ![r] = "idle"]
    /\ UNCHANGED <<consumer, wrong, unregistered, signIns>>

(* Rows age in the order of their creation. *)
Ages(k) ==
    LET next == IF code[k].age = "valid" THEN "expired" ELSE "old" IN
    /\ k \in Recent
    /\ \A l \in CodeRow : l < k => code[l].age \in {next, "old"}
    /\ code' = [code EXCEPT ![k].age = next]
    /\ UNCHANGED <<requester, consumer, wrong, unregistered, signIns>>

(***************************************************************************)
(* Trying                                                                  *)
(***************************************************************************)

(* findActive returns the newest row that can be used, or the request is   *)
(* refused; so it is if that row has no attempts left, though an older     *)
(* code may have. The code given is compared with this row only. The one   *)
(* destination here has one channel, so that its check is left out.        *)
FindActive(c, matches) ==
    /\ consumer[c].pc = "idle"
    /\ \E k \in CodeRow : Usable(k)
    /\ LET newest == Max({k \in CodeRow : Usable(k)}) IN
          /\ code[newest].attempts < MaxAttempts
          /\ consumer' = [consumer EXCEPT ![c] =
                 [pc |-> IF matches THEN "right" ELSE "wrong", row |-> newest]]
          /\ wrong' = IF matches THEN wrong ELSE [wrong EXCEPT ![newest] = @ + 1]
    /\ UNCHANGED <<code, requester, unregistered, signIns>>

RegisterFailedAttempt(c) ==
    /\ consumer[c].pc = "wrong"
    /\ code' = [code EXCEPT ![consumer[c].row].attempts = @ + 1]
    /\ consumer' = [consumer EXCEPT ![c].pc = "idle"]
    /\ UNCHANGED <<requester, wrong, unregistered, signIns>>

ConsumeCode_Unchecked(c) ==
    LET k == consumer[c].row IN
    /\ consumer[c].pc = "right"
    /\ code' = [code EXCEPT ![k].consumed = TRUE]
    /\ signIns' = [signIns EXCEPT ![k] = @ + 1]
    /\ consumer' = [consumer EXCEPT ![c].pc = "idle"]
    /\ UNCHANGED <<requester, wrong, unregistered>>

(* One conditional UPDATE decides; the loser is refused. The winner's      *)
(* account is found or created and a session issued (see Sessions).        *)
ConsumeCode(c) ==
    LET k == consumer[c].row  won == Usable(k) IN
    /\ consumer[c].pc = "right"
    /\ code' = [code EXCEPT ![k].consumed = @ \/ won]
    /\ signIns' = IF won THEN [signIns EXCEPT ![k] = @ + 1] ELSE signIns
    /\ consumer' = [consumer EXCEPT ![c].pc = "idle"]
    /\ UNCHANGED <<requester, wrong, unregistered>>

(* A statement that fails, or a crash, of either kind of request. *)
RequestFails(r) ==
    /\ requester[r] = "allowed"
    /\ requester' = [requester EXCEPT ![r] = "idle"]
    /\ UNCHANGED <<code, consumer, wrong, unregistered, signIns>>

TryFails(c) ==
    /\ consumer[c].pc # "idle"
    /\ consumer[c].pc = "wrong" => unregistered < MaxUnregistered
    /\ unregistered' = unregistered + (IF consumer[c].pc = "wrong" THEN 1 ELSE 0)
    /\ consumer' = [consumer EXCEPT ![c].pc = "idle"]
    /\ UNCHANGED <<code, requester, wrong, signIns>>

CodesNext ==
    \/ \E r \in Requester : CountRecent(r) \/ CreateCode(r) \/ RequestFails(r)
    \/ \E k \in CodeRow : Ages(k)
    \/ \E c \in Consumer :
          \/ \E matches \in BOOLEAN : FindActive(c, matches)
          \/ RegisterFailedAttempt(c) \/ ConsumeCode(c) \/ TryFails(c)

CodesSpec == CodesInit /\ [][CodesNext]_codeVars

(***************************************************************************)
(* Properties                                                              *)
(***************************************************************************)

(* Requests that overlap, for codes and with codes, exceed the documented  *)
(* limits by at most one for each that may overlap another: of the codes   *)
(* in one window, and of the wrong tries each of them takes (and one more  *)
(* for each that failed to be registered). Whatever overlaps, a code signs *)
(* in at most once.                                                        *)
CodesAreBounded ==
    /\ Cardinality(Recent) <= RateLimitMax + Cardinality(Requester) - 1
    /\ \A k \in CodeRow : wrong[k] <= MaxAttempts + Cardinality(Consumer) - 1 + unregistered
    /\ \A k \in CodeRow : signIns[k] <= 1
=============================================================================
