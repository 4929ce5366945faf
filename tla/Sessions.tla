------------------------------ MODULE Sessions ------------------------------
(***************************************************************************)
(* Refresh-token sessions of the identity module and the account           *)
(* operations that revoke them.                                            *)
(*                                                                         *)
(* Every request is handled by an asynchronous function that awaits one    *)
(* database statement after another; two requests of one user interleave   *)
(* between any two awaits.  A process of Proc is one request being         *)
(* handled: an action is one awaited statement (or one transaction) with   *)
(* the synchronous code up to the next await.                              *)
(*                                                                         *)
(* A session id stands for the row and for the refresh token whose hash    *)
(* the row stores; ids are handed out in the order of issuedAt.            *)
(***************************************************************************)
EXTENDS Naturals, FiniteSets

CONSTANTS
    User,           \* users that have registered
    Proc,           \* requests that can be in flight at the same time
    None,           \* no user
    MaxPerUser,     \* MAX_SESSIONS_PER_USER
    MaxSession,     \* bound: rows ever created
    MaxEra          \* bound: soft deletions of one user

ASSUME NoneAssumption == None \notin User
ASSUME BoundAssumption ==
    /\ MaxPerUser \in Nat \ {0}
    /\ MaxSession \in Nat
    /\ MaxEra \in Nat

VARIABLES
    session,    \* the Session table
    issued,     \* how many rows were ever created
    status,     \* the User row: active, soft-deleted, or purged
    banned,     \* the User row: bannedAt is set
    op,         \* the local state of the request each process handles
    era         \* history: how often the user was soft-deleted

vars == <<session, issued, status, banned, op, era>>

Sid == 1..MaxSession

(* "gone" is a row removed by the cascade of a purge. *)
RowStatus == {"none", "live", "revoked", "gone"}

(* parent: the session this one was rotated from, 0 for a sign-in.         *)
(* era: the user's era when the request that created the row checked the   *)
(* account; a history field no code reads.                                 *)
Row == [user: User \cup {None}, status: RowStatus, expired: BOOLEAN,
        parent: 0..MaxSession, era: 0..MaxEra]

NoRow == [user |-> None, status |-> "none", expired |-> FALSE,
          parent |-> 0, era |-> 0]

Op == [pc: {"idle", "create", "list", "evict",
            "findUser", "rotate", "revokeOne", "revokeAll"},
       user: User \cup {None}, sid: 0..MaxSession, era: 0..MaxEra,
       evict: SUBSET Sid]

Request(pc, u, s, e, evict) ==
    [pc |-> pc, user |-> u, sid |-> s, era |-> e, evict |-> evict]

IdleOp == Request("idle", None, 0, 0, {})

(* A request that has begun works for a user.  A row that exists has one,   *)
(* and descends from an older row, if from any.                            *)
TypeOK ==
    /\ session \in [Sid -> Row]
    /\ issued \in 0..MaxSession
    /\ status \in [User -> {"active", "deleted", "purged"}]
    /\ banned \in [User -> BOOLEAN]
    /\ op \in [Proc -> Op]
    /\ era \in [User -> 0..MaxEra]
    /\ \A p \in Proc : op[p].pc # "idle" => op[p].user \in User
    /\ \A s \in Sid : session[s].status # "none"
                        => session[s].user \in User /\ session[s].parent < s

Init ==
    /\ session = [s \in Sid |-> NoRow]
    /\ issued = 0
    /\ status = [u \in User |-> "active"]
    /\ banned = [u \in User |-> FALSE]
    /\ op = [p \in Proc |-> IdleOp]
    /\ era = [u \in User |-> 0]

(***************************************************************************)
(* The statements of the session repository                                *)
(***************************************************************************)

Live(s) == session[s].status = "live"

(* The rows of listActiveForUser. *)
ActiveOf(u) ==
    {s \in Sid : Live(s) /\ session[s].user = u /\ ~session[s].expired}

(* revoke and revokeAllForUser: only rows whose revokedAt is null change. *)
RevokedIn(S) ==
    [s \in Sid |-> IF s \in S /\ Live(s)
                   THEN [session[s] EXCEPT !.status = "revoked"]
                   ELSE session[s]]

RowsOf(u) == {s \in Sid : session[s].user = u}

NewRow(u, parent, e) ==
    [user |-> u, status |-> "live", expired |-> FALSE,
     parent |-> parent, era |-> e]

Become(p, request) == op' = [op EXCEPT ![p] = request]
Finish(p) == Become(p, IdleOp)

(* A request that may insert a row starts only while the bound MaxSession   *)
(* leaves room for it.                                                     *)
Room == issued + Cardinality({p \in Proc :
            op[p].pc \in {"create", "findUser", "rotate"}}) < MaxSession

(***************************************************************************)
(* Sign-in: the account check, then IssueSessionUseCase                    *)
(***************************************************************************)

(* Fault: the account check finds soft-deleted users too. *)
SignInAllowed_Deleted(u, how) ==
    /\ status[u] # "purged"
    /\ how = "password" => ~banned[u]

(* Password login refuses a banned account; the passwordless paths (magic  *)
(* link, login code, OAuth) do not read bannedAt.                          *)
SignInAllowed(u, how) ==
    /\ status[u] = "active"
    /\ how = "password" => ~banned[u]

(* A magic link or a login code is claimed by one updateMany before the    *)
(* account is read; such a claim only keeps requests from getting here, so *)
(* it is left out, and so is the creation of the account at the first link:*)
(* an account that is new has no sessions and no other request.            *)
CheckAccount(p, u, how) ==
    /\ op[p].pc = "idle"
    /\ SignInAllowed(u, how)
    /\ Room
    /\ Become(p, Request("create", u, 0, era[u], {}))
    /\ UNCHANGED <<session, issued, status, banned, era>>

(* The insert fails on the foreign key when the user row is gone. *)
CreateSession(p) ==
    /\ op[p].pc = "create"
    /\ \/ /\ status[op[p].user] # "purged"
          /\ issued < MaxSession
          /\ issued' = issued + 1
          /\ session' = [session EXCEPT
                ![issued + 1] = NewRow(op[p].user, 0, op[p].era)]
          /\ Become(p, Request("list", op[p].user, issued + 1, 0, {}))
       \/ /\ status[op[p].user] = "purged"
          /\ Finish(p)
          /\ UNCHANGED <<session, issued>>
    /\ UNCHANGED <<status, banned, era>>

(* Faults: only the oldest session makes way, as if the list could exceed   *)
(* the cap by no more than one; or the slice of the list is one too short. *)
Surplus_Oldest(active) ==
    {s \in active : /\ Cardinality({t \in active : t > s}) >= MaxPerUser
                    /\ \A t \in active : s <= t}
Surplus_OneTooFew(active) ==
    {s \in active : Cardinality({t \in active : t > s}) > MaxPerUser}

(* The active sessions, oldest first, without the newest MaxPerUser. *)
Surplus(active) ==
    {s \in active : Cardinality({t \in active : t > s}) >= MaxPerUser}

ListActive(p) ==
    /\ op[p].pc = "list"
    /\ LET surplus == Surplus(ActiveOf(op[p].user))
       IN IF surplus = {}
          THEN Finish(p)
          ELSE Become(p, Request("evict", op[p].user, op[p].sid, 0, surplus))
    /\ UNCHANGED <<session, issued, status, banned, era>>

EvictOldest(p) ==
    /\ op[p].pc = "evict"
    /\ \E s \in op[p].evict :
          /\ \A t \in op[p].evict : s <= t
          /\ session' = RevokedIn({s})
          /\ IF op[p].evict = {s}
             THEN Finish(p)
             ELSE Become(p, Request("evict", op[p].user, op[p].sid, 0,
                                    op[p].evict \ {s}))
    /\ UNCHANGED <<issued, status, banned, era>>

(***************************************************************************)
(* RefreshSessionUseCase and RevokeSessionUseCase                          *)
(***************************************************************************)

(* A client holds a token once the request that issued it has answered. *)
Delivered(s) ==
    \A p \in Proc : op[p].pc \in {"list", "evict"} => op[p].sid # s

(* Fault: the lookup does not read revokedAt. *)
NextAfterLookup_IgnoresRevoked(s, sameDevice) ==
    CASE session[s].expired -> "revokeOne"
      [] ~session[s].expired /\ ~sameDevice -> "revokeAll"
      [] OTHER -> "findUser"

(* What the checks on the row that was found lead to.  The signature and   *)
(* expiry of the token itself are verified before the lookup: an expired   *)
(* row is seen only when its expiry passes in between.  sameDevice: the    *)
(* presented fingerprint equals the stored one.                            *)
NextAfterLookup(s, sameDevice) ==
    CASE session[s].status = "revoked" -> "revokeAll"
      [] session[s].status = "live" /\ session[s].expired -> "revokeOne"
      [] Live(s) /\ ~session[s].expired /\ ~sameDevice -> "revokeAll"
      [] OTHER -> "findUser"

FindByRefreshHash(p, s, sameDevice) ==
    /\ op[p].pc = "idle"
    /\ session[s].status \in {"live", "revoked"}
    /\ Delivered(s)
    /\ NextAfterLookup(s, sameDevice) = "findUser" => Room
    /\ Become(p, Request(NextAfterLookup(s, sameDevice),
                         session[s].user, s, 0, {}))
    /\ UNCHANGED <<session, issued, status, banned, era>>

(* users.findById hides soft-deleted rows and does not look at bannedAt. *)
FindUser(p) ==
    /\ op[p].pc = "findUser"
    /\ IF status[op[p].user] = "active"
       THEN Become(p, Request("rotate", op[p].user, op[p].sid,
                              era[op[p].user], {}))
       ELSE Become(p, Request("revokeOne", op[p].user, op[p].sid, 0, {}))
    /\ UNCHANGED <<session, issued, status, banned, era>>

(* Fault: the old row is left as it is. *)
Rotate_KeepsOldRow(p) ==
    /\ op[p].pc = "rotate"
    /\ session[op[p].sid].status # "gone"
    /\ issued < MaxSession
    /\ issued' = issued + 1
    /\ session' = [session EXCEPT
          ![issued + 1] = NewRow(op[p].user, op[p].sid, op[p].era)]
    /\ Finish(p)
    /\ UNCHANGED <<status, banned, era>>

(* Fault: the new token is stored in the old row, which succeeds itself. *)
Rotate_InPlace(p) ==
    /\ op[p].pc = "rotate"
    /\ session[op[p].sid].status # "gone"
    /\ session' = [session EXCEPT ![op[p].sid].parent = op[p].sid]
    /\ Finish(p)
    /\ UNCHANGED <<issued, status, banned, era>>

(* One transaction; the old row is updated by id, whatever its revokedAt   *)
(* has become.  Updating a row that is gone fails the transaction.         *)
Rotate(p) ==
    /\ op[p].pc = "rotate"
    /\ \/ /\ session[op[p].sid].status # "gone"
          /\ issued < MaxSession
          /\ issued' = issued + 1
          /\ session' = [session EXCEPT
                ![op[p].sid].status = "revoked",
                ![issued + 1] = NewRow(op[p].user, op[p].sid, op[p].era)]
       \/ /\ session[op[p].sid].status = "gone"
          /\ UNCHANGED <<session, issued>>
    /\ Finish(p)
    /\ UNCHANGED <<status, banned, era>>

RevokeOne(p) ==
    /\ op[p].pc = "revokeOne"
    /\ session' = RevokedIn({op[p].sid})
    /\ Finish(p)
    /\ UNCHANGED <<issued, status, banned, era>>

RevokeAll(p) ==
    /\ op[p].pc = "revokeAll"
    /\ session' = RevokedIn(RowsOf(op[p].user))
    /\ Finish(p)
    /\ UNCHANGED <<issued, status, banned, era>>

Logout(p, s) ==
    /\ op[p].pc = "idle"
    /\ Live(s)
    /\ Delivered(s)
    /\ Become(p, Request("revokeOne", session[s].user, s, 0, {}))
    /\ UNCHANGED <<session, issued, status, banned, era>>

(* A statement fails, or the process dies: the rest of the handler is lost. *)
Abort(p) ==
    /\ op[p].pc # "idle"
    /\ Finish(p)
    /\ UNCHANGED <<session, issued, status, banned, era>>

(***************************************************************************)
(* The account operations, each one transaction, and the passing of time   *)
(***************************************************************************)

(* The sessions are revoked even when the user update matched no row. *)
SoftDelete(u) ==
    /\ status[u] # "purged"
    /\ IF status[u] = "active"
       THEN /\ era[u] < MaxEra
            /\ status' = [status EXCEPT ![u] = "deleted"]
            /\ era' = [era EXCEPT ![u] = @ + 1]
       ELSE UNCHANGED <<status, era>>
    /\ session' = RevokedIn(RowsOf(u))
    /\ UNCHANGED <<issued, banned, op>>

Restore(u) ==
    /\ status[u] = "deleted"
    /\ status' = [status EXCEPT ![u] = "active"]
    /\ UNCHANGED <<session, issued, banned, op, era>>

Ban(u) ==
    /\ status[u] # "purged"
    /\ banned' = [banned EXCEPT ![u] = TRUE]
    /\ session' = RevokedIn(RowsOf(u))
    /\ UNCHANGED <<issued, status, op, era>>

Unban(u) ==
    /\ status[u] # "purged"
    /\ banned[u]
    /\ banned' = [banned EXCEPT ![u] = FALSE]
    /\ UNCHANGED <<session, issued, status, op, era>>

(* Fault: the foreign key does not cascade. *)
Purge_NoCascade(u) ==
    /\ status[u] = "deleted"
    /\ status' = [status EXCEPT ![u] = "purged"]
    /\ UNCHANGED <<session, issued, banned, op, era>>

(* deleteMany on the user; the foreign key cascades to its sessions. *)
Purge(u) ==
    /\ status[u] = "deleted"
    /\ status' = [status EXCEPT ![u] = "purged"]
    /\ session' = [s \in Sid |-> IF session[s].user = u
                                 THEN [session[s] EXCEPT !.status = "gone"]
                                 ELSE session[s]]
    /\ UNCHANGED <<issued, banned, op, era>>

(* expiresAt passes. *)
Expire(s) ==
    /\ Live(s)
    /\ ~session[s].expired
    /\ session' = [session EXCEPT ![s].expired = TRUE]
    /\ UNCHANGED <<issued, status, banned, op, era>>

(***************************************************************************)
(* The specification                                                       *)
(***************************************************************************)

(* The steps of a request once it has begun. *)
Continue(p) ==
    \/ CreateSession(p) \/ ListActive(p) \/ EvictOldest(p)
    \/ FindUser(p) \/ Rotate(p) \/ RevokeOne(p) \/ RevokeAll(p)

Begin(p) ==
    \/ \E u \in User, how \in {"password", "passwordless"} :
          CheckAccount(p, u, how)
    \/ \E s \in Sid :
          \/ \E sameDevice \in BOOLEAN : FindByRefreshHash(p, s, sameDevice)
          \/ Logout(p, s)

AccountStep(u) ==
    SoftDelete(u) \/ Restore(u) \/ Ban(u) \/ Unban(u) \/ Purge(u)

Next ==
    \/ \E p \in Proc : Begin(p) \/ Continue(p) \/ Abort(p)
    \/ \E u \in User : AccountStep(u)
    \/ \E s \in Sid : Expire(s)

Spec == Init /\ [][Next]_vars

(***************************************************************************)
(* Properties that hold of every interleaving                              *)
(***************************************************************************)

(* A refresh token that was exchanged for a new one is never live again,   *)
(* so presenting it triggers the cascade of RefreshSessionUseCase.         *)
RotatedIsRevoked ==
    \A s \in Sid : session[s].parent # 0 =>
        session[session[s].parent].status \in {"revoked", "gone"}

(* A session that is live on a soft-deleted account was issued by a        *)
(* request that had read the account before the deletion: no request that  *)
(* starts on a deleted account ends with a session.                        *)
LiveOfDeletedIsLate ==
    \A s \in Sid :
        Live(s) /\ status[session[s].user] # "active"
            => session[s].era < era[session[s].user]

(* The purge leaves no session behind, and no request in flight across it  *)
(* brings one back.                                                        *)
PurgedHasNoSession ==
    \A s \in Sid : session[s].status \in {"live", "revoked"}
        => status[session[s].user] # "purged"

(* However sign-ins and refreshes overlap, abort or are revoked meanwhile, *)
(* a sign-in that runs to its end leaves at most MaxPerUser active         *)
(* sessions among those as old as its own: what overlap or a failed        *)
(* sign-in left over the cap, "the next login trims".  Younger ones are    *)
(* for the requests that inserted them after its row.                      *)
SignInEnforcesCap ==
    [][\A p \in Proc, u \in User :
          /\ ListActive(p) \/ EvictOldest(p)
          /\ op[p].user = u /\ op'[p].pc = "idle"
          => Cardinality({s \in ActiveOf(u)' : s <= op[p].sid}) <= MaxPerUser]_vars

(* Revocation is final: no step of any request makes a row live again. *)
RevocationIsFinal ==
    [][\A s \in Sid : session[s].status \in {"revoked", "gone"}
            => session'[s].status \in {"revoked", "gone"}]_vars

(***************************************************************************)
(* Properties of requests that do not overlap                              *)
(***************************************************************************)

(* A refresh token is exchanged at most once. *)
TokenIsSingleUse ==
    \A s, t \in Sid :
        session[s].parent # 0 /\ session[s].parent = session[t].parent => s = t

(* A sign-in that runs to its end leaves at most MaxPerUser sessions. *)
CapAfterSignIn ==
    [][\A p \in Proc, u \in User :
          /\ ListActive(p) \/ EvictOldest(p)
          /\ op[p].user = u /\ op'[p].pc = "idle"
          => Cardinality(ActiveOf(u)') <= MaxPerUser]_vars
=============================================================================
