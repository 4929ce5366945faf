--------------------------- MODULE SessionsProofs ---------------------------
(***************************************************************************)
(* Proofs that the session invariants of Sessions hold for every number of *)
(* users, overlapping requests and sessions.                               *)
(***************************************************************************)
EXTENDS Sessions, NaturalLemmas

USE NoneAssumption, BoundAssumption

(* The sets the variables range over: TypeOK without its last two parts,   *)
(* which follow from the two invariants below.                             *)
Types ==
    /\ session \in [Sid -> Row]
    /\ issued \in 0..MaxSession
    /\ status \in [User -> {"active", "deleted", "purged"}]
    /\ banned \in [User -> BOOLEAN]
    /\ op \in [Proc -> Op]
    /\ era \in [User -> 0..MaxEra]

(***************************************************************************)
(* What a step does to the variables, one helper at a time                 *)
(***************************************************************************)

LEMMA BecomeOp ==
    ASSUME Types, NEW p \in Proc, NEW r \in Op, Become(p, r)
    PROVE  /\ op' \in [Proc -> Op]
           /\ op'[p] = r
           /\ \A q \in Proc : q # p => op'[q] = op[q]
  BY DEF Become, Types

LEMMA RequestOp ==
    ASSUME NEW pc \in {"idle", "create", "list", "evict",
                       "findUser", "rotate", "revokeOne", "revokeAll"},
           NEW u \in User \cup {None}, NEW s \in 0..MaxSession,
           NEW e \in 0..MaxEra, NEW ev \in SUBSET Sid
    PROVE  Request(pc, u, s, e, ev) \in Op
  BY DEF Request, Op

LEMMA FinishOp ==
    ASSUME Types, NEW p \in Proc, Finish(p)
    PROVE  /\ op' \in [Proc -> Op]
           /\ op'[p] = IdleOp
           /\ op'[p].pc = "idle"
           /\ op'[p].evict = {}
           /\ \A q \in Proc : q # p => op'[q] = op[q]
<1>1. IdleOp \in Op
  BY RequestOp DEF IdleOp
<1>2. QED
  BY <1>1, BecomeOp DEF Finish, IdleOp, Request

LEMMA RevokedInRows ==
    ASSUME Types, NEW S, session' = RevokedIn(S)
    PROVE  /\ session' \in [Sid -> Row]
           /\ \A s \in Sid :
                 /\ session'[s].user = session[s].user
                 /\ session'[s].parent = session[s].parent
                 /\ session'[s].era = session[s].era
                 /\ session'[s].expired = session[s].expired
                 /\ session'[s].status =
                       IF s \in S /\ session[s].status = "live"
                       THEN "revoked" ELSE session[s].status
  BY DEF RevokedIn, Types, Row, RowStatus, Live

LEMMA NewRowType ==
    ASSUME NEW u \in User, NEW parent \in 0..MaxSession, NEW e \in 0..MaxEra
    PROVE  NewRow(u, parent, e) \in Row
  BY DEF NewRow, Row, RowStatus
(***************************************************************************)
(* The type invariant                                                      *)
(***************************************************************************)

(* A request past its first lookup works for a user; one that will touch a *)
(* single row has found it, and the row still has its user.                *)
RequestOwned ==
    \A p \in Proc :
        /\ op[p].pc # "idle" => op[p].user \in User
        /\ op[p].pc \in {"findUser", "rotate", "revokeOne"} =>
              /\ op[p].sid \in 1..issued
              /\ session[op[p].sid].user = op[p].user

(* The rows that exist are those up to issued; each has a user and was     *)
(* rotated from an earlier one, if from any.                               *)
RowsExist ==
    \A s \in Sid :
        IF s <= issued
        THEN /\ session[s].status # "none"
             /\ session[s].user \in User
             /\ session[s].parent < s
        ELSE /\ session[s].status = "none"
             /\ session[s].user = None
             /\ session[s].parent = 0

TInv == Types /\ RequestOwned /\ RowsExist

LEMMA TypeInit == Init => TInv
<1> SUFFICES ASSUME Init PROVE TInv
  OBVIOUS
<1>1. IdleOp \in Op /\ IdleOp.pc = "idle"
  BY RequestOp DEF IdleOp, Request
<1>2. NoRow \in Row /\ NoRow.status = "none" /\ NoRow.user = None
      /\ NoRow.parent = 0
  BY DEF NoRow, Row, RowStatus
<1>3. Types
  BY <1>1, <1>2 DEF Init, Types
<1>4. RequestOwned
  BY <1>1 DEF Init, RequestOwned
<1>5. RowsExist
  BY <1>2 DEF Init, RowsExist, Sid
<1>6. QED  BY <1>3, <1>4, <1>5 DEF TInv

LEMMA SidRange == ASSUME Types PROVE 1..issued \subseteq Sid
  BY DEF Types, Sid

(* A step that only starts, redirects or ends a request. *)
LEMMA RequestStep ==
    ASSUME TInv, NEW p \in Proc, NEW r \in Op, Become(p, r),
           UNCHANGED <<session, issued, status, banned, era>>,
           r.pc # "idle" => r.user \in User,
           r.pc \in {"findUser", "rotate", "revokeOne"} =>
              r.sid \in 1..issued /\ session[r.sid].user = r.user
    PROVE  TInv'
<1>1. Types'
  BY BecomeOp DEF TInv, Types
<1>2. RequestOwned'
  <2> SUFFICES ASSUME NEW q \in Proc
               PROVE  /\ op'[q].pc # "idle" => op'[q].user \in User
                      /\ op'[q].pc \in {"findUser", "rotate", "revokeOne"} =>
                            /\ op'[q].sid \in 1..issued
                            /\ session[op'[q].sid].user = op'[q].user
    BY DEF RequestOwned
  <2>1. op'[q] = r \/ op'[q] = op[q]
    BY BecomeOp DEF TInv
  <2>2. QED  BY <2>1 DEF TInv, RequestOwned
<1>3. RowsExist'
  BY DEF TInv, RowsExist
<1>4. QED  BY <1>1, <1>2, <1>3 DEF TInv

(* A step that revokes rows and may end requests. *)
LEMMA RevokeStep ==
    ASSUME TInv, NEW S, session' = RevokedIn(S), UNCHANGED issued,
           op' \in [Proc -> Op],
           \A q \in Proc : op'[q] = op[q] \/ op'[q].pc = "idle",
           status' \in [User -> {"active", "deleted", "purged"}],
           banned' \in [User -> BOOLEAN],
           era' \in [User -> 0..MaxEra]
    PROVE  TInv'
<1>1. Types'
  BY RevokedInRows DEF TInv, Types
<1>2. \A s \in Sid : /\ session'[s].user = session[s].user
                     /\ session'[s].parent = session[s].parent
                     /\ session'[s].status = "none"
                            <=> session[s].status = "none"
  BY RevokedInRows DEF TInv
<1>3. RequestOwned'
  BY <1>2, SidRange DEF TInv, RequestOwned
<1>4. RowsExist'
  BY <1>2 DEF TInv, RowsExist
<1>5. QED  BY <1>1, <1>3, <1>4 DEF TInv

(* A step that inserts the next row, and may revoke rows of S. *)
Inserts(row, S) ==
    /\ issued < MaxSession
    /\ issued' = issued + 1
    /\ session' \in [Sid -> Row]
    /\ session'[issued + 1] = row
    /\ \A s \in Sid : s # issued + 1 =>
          /\ session'[s].user = session[s].user
          /\ session'[s].parent = session[s].parent
          /\ session'[s].era = session[s].era
          /\ session'[s].expired = session[s].expired
          /\ session'[s].status = IF s \in S THEN "revoked"
                                  ELSE session[s].status

LEMMA InsertStep ==
    ASSUME TInv, NEW S, NEW row \in Row, Inserts(row, S),
           \A s \in S : s <= issued,
           row.user \in User, row.status = "live", row.parent <= issued,
           op' \in [Proc -> Op],
           \A q \in Proc :
              \/ op'[q] = op[q]
              \/ op'[q].pc = "idle"
              \/ op'[q].pc = "list" /\ op'[q].user \in User,
           UNCHANGED <<status, banned, era>>
    PROVE  TInv'
<1>1. Types'
  BY DEF Inserts, TInv, Types
<1>2. RequestOwned'
  <2> SUFFICES ASSUME NEW q \in Proc, op'[q] = op[q]
               PROVE  /\ op[q].pc # "idle" => op[q].user \in User
                      /\ op[q].pc \in {"findUser", "rotate", "revokeOne"} =>
                            /\ op[q].sid \in 1..issued'
                            /\ session'[op[q].sid].user = op[q].user
    BY DEF RequestOwned
  <2>1. 1..issued \subseteq 1..issued' /\ issued + 1 \notin 1..issued
    BY DEF Inserts, TInv, Types
  <2>2. QED  BY <2>1, SidRange DEF Inserts, TInv, RequestOwned
<1>3. RowsExist'
  <2> SUFFICES ASSUME NEW s \in Sid
               PROVE  IF s <= issued'
                      THEN /\ session'[s].status # "none"
                           /\ session'[s].user \in User
                           /\ session'[s].parent < s
                      ELSE /\ session'[s].status = "none"
                           /\ session'[s].user = None
                           /\ session'[s].parent = 0
    BY DEF RowsExist
  <2>1. CASE s = issued + 1
    <3>1. session'[s] = row /\ issued' = s /\ issued < s
      BY <2>1 DEF Inserts, TInv, Types
    <3>2. row.parent < s
      BY <3>1 DEF TInv, Types, Row, Sid
    <3>3. s <= issued'
      BY <3>1 DEF Sid
    <3>4. QED  BY <3>1, <3>2, <3>3
  <2>2. CASE s # issued + 1
    <3>1. s <= issued' <=> s <= issued
      BY <2>2 DEF Inserts, TInv, Types, Sid
    <3>2. s \in S => s <= issued
      OBVIOUS
    <3>3. QED  BY <2>2, <3>1, <3>2 DEF Inserts, TInv, RowsExist
  <2>3. QED  BY <2>1, <2>2
<1>4. QED  BY <1>1, <1>2, <1>3 DEF TInv

(* What CreateSession and Rotate do when they insert a row. *)
CreateInserts(p) ==
    /\ op[p].pc = "create"
    /\ op[p].user \in User /\ op[p].era \in 0..MaxEra
    /\ status[op[p].user] # "purged"
    /\ NewRow(op[p].user, 0, op[p].era) \in Row
    /\ Inserts(NewRow(op[p].user, 0, op[p].era), {})
    /\ op' \in [Proc -> Op]
    /\ \A q \in Proc :
          \/ op'[q] = op[q]
          \/ op'[q].pc = "list" /\ op'[q].user \in User
    /\ UNCHANGED <<status, banned, era>>

RotateInserts(p) ==
    /\ op[p].pc = "rotate"
    /\ op[p].user \in User /\ op[p].era \in 0..MaxEra
    /\ op[p].sid \in 1..issued /\ op[p].sid \in Sid
    /\ session[op[p].sid].user = op[p].user
    /\ session[op[p].sid].status \in {"live", "revoked"}
    /\ NewRow(op[p].user, op[p].sid, op[p].era) \in Row
    /\ Inserts(NewRow(op[p].user, op[p].sid, op[p].era), {op[p].sid})
    /\ op' \in [Proc -> Op]
    /\ \A q \in Proc : op'[q] = op[q] \/ op'[q].pc = "idle"
    /\ UNCHANGED <<status, banned, era>>

LEMMA CreateStep ==
    ASSUME TInv, NEW p \in Proc, CreateSession(p)
    PROVE  CreateInserts(p) \/ (Finish(p) /\ UNCHANGED <<session, issued>>)
<1> USE DEF TInv
<1>1. op[p] \in Op /\ op[p].user \in User /\ op[p].era \in 0..MaxEra
  BY DEF CreateSession, RequestOwned, Types, Op
<1> DEFINE row == NewRow(op[p].user, 0, op[p].era)
           r   == Request("list", op[p].user, issued + 1, 0, {})
<1>2. CASE issued < MaxSession /\ issued' = issued + 1 /\ Become(p, r)
           /\ session' = [session EXCEPT ![issued + 1] = row]
           /\ status[op[p].user] # "purged"
  <2>1. row \in Row
    BY <1>1, NewRowType
  <2>2. Inserts(row, {})
    <3>1. issued + 1 \in Sid
      BY <1>2 DEF Types, Sid
    <3> HIDE DEF row
    <3>2. QED  BY <1>2, <2>1, <3>1 DEF Inserts, Types
  <2>3. r \in Op
    <3>1. issued + 1 \in 0..MaxSession
      BY <1>2 DEF Types
    <3>2. QED  BY <1>1, <3>1, RequestOp
  <2>4. /\ op' \in [Proc -> Op]
        /\ \A q \in Proc :
              \/ op'[q] = op[q]
              \/ op'[q].pc = "list" /\ op'[q].user \in User
    <3>1. r.pc = "list" /\ r.user \in User
      BY <1>1 DEF Request
    <3> HIDE DEF r
    <3>2. QED  BY <1>2, <2>3, <3>1, BecomeOp
  <2> HIDE DEF row, r
  <2>5. QED  BY <1>1, <1>2, <2>1, <2>2, <2>4 DEF CreateInserts, CreateSession, row
<1>3. QED  BY <1>2 DEF CreateSession

LEMMA RotateStep ==
    ASSUME TInv, NEW p \in Proc, Rotate(p)
    PROVE  RotateInserts(p) \/ UNCHANGED <<session, issued>>
<1> USE DEF TInv
<1>1. op[p] \in Op /\ op[p].user \in User /\ op[p].era \in 0..MaxEra
      /\ op[p].sid \in 1..issued /\ session[op[p].sid].user = op[p].user
  BY DEF Rotate, RequestOwned, Types, Op
<1> DEFINE row == NewRow(op[p].user, op[p].sid, op[p].era)
<1>2. CASE /\ session[op[p].sid].status # "gone"
           /\ issued < MaxSession
           /\ issued' = issued + 1
           /\ session' = [session EXCEPT ![op[p].sid].status = "revoked",
                                         ![issued + 1] = row]
  <2>1. row \in Row
    BY <1>1, NewRowType DEF Types
  <2>2. issued + 1 \in Sid /\ op[p].sid \in Sid /\ op[p].sid # issued + 1
    BY <1>1, <1>2 DEF Types, Sid
  <2>3. Inserts(row, {op[p].sid})
    <3> HIDE DEF row
    <3> DEFINE old == [session EXCEPT ![op[p].sid].status = "revoked"]
    <3>1. /\ old \in [Sid -> Row]
          /\ \A s \in Sid :
                /\ old[s].user = session[s].user
                /\ old[s].parent = session[s].parent
                /\ old[s].era = session[s].era
                /\ old[s].expired = session[s].expired
                /\ old[s].status = IF s = op[p].sid THEN "revoked"
                                   ELSE session[s].status
      BY <2>2 DEF Types, Row, RowStatus
    <3>2. session' = [old EXCEPT ![issued + 1] = row]
      BY <1>2
    <3> HIDE DEF old
    <3>3. QED  BY <1>2, <2>1, <2>2, <3>1, <3>2 DEF Inserts
  <2>4. session[op[p].sid].status \in {"live", "revoked"}
    BY <1>1, <1>2, <2>2 DEF RowsExist, Types, Row, RowStatus
  <2>5. /\ op' \in [Proc -> Op]
        /\ \A q \in Proc : op'[q] = op[q] \/ op'[q].pc = "idle"
    BY FinishOp DEF Rotate
  <2> HIDE DEF row
  <2>6. QED
    BY <1>1, <2>1, <2>2, <2>3, <2>4, <2>5 DEF RotateInserts, Rotate, row
<1>3. QED  BY <1>2 DEF Rotate

LEMMA TypeNext == TInv /\ [Next]_vars => TInv'
<1> SUFFICES ASSUME TInv, [Next]_vars
             PROVE  TInv'
  OBVIOUS
<1> USE DEF TInv
<1>1. ASSUME NEW p \in Proc, NEW u \in User, NEW how, CheckAccount(p, u, how)
      PROVE  TInv'
  <2>1. Request("create", u, 0, era[u], {}) \in Op
    BY RequestOp DEF Types
  <2>2. QED
    BY <1>1, <2>1, RequestStep DEF CheckAccount, Request
<1>2. ASSUME NEW p \in Proc, CreateSession(p)
      PROVE  TInv'
  <2>1. CASE Finish(p) /\ UNCHANGED <<session, issued>>
    BY <1>2, <2>1, RequestStep, RequestOp
    DEF CreateSession, Finish, IdleOp, Request
  <2>2. CASE CreateInserts(p)
    <3> DEFINE row == NewRow(op[p].user, 0, op[p].era)
    <3>1. /\ row \in Row /\ row.user \in User /\ row.status = "live"
          /\ row.parent <= issued
      BY <2>2 DEF CreateInserts, NewRow, Types
    <3> HIDE DEF row
    <3>2. QED  BY <2>2, <3>1, InsertStep DEF CreateInserts, row
  <2>3. QED  BY <1>2, <2>1, <2>2, CreateStep
<1>3. ASSUME NEW p \in Proc, ListActive(p)
      PROVE  TInv'
  <2> DEFINE surplus == Surplus(ActiveOf(op[p].user))
             r == Request("evict", op[p].user, op[p].sid, 0, surplus)
  <2>1. surplus \in SUBSET Sid
    BY DEF Surplus, ActiveOf
  <2>2. op[p] \in Op /\ op[p].user \in User /\ op[p].sid \in 0..MaxSession
    BY <1>3 DEF ListActive, RequestOwned, Types, Op
  <2>3. r \in Op /\ r.pc = "evict" /\ r.user = op[p].user
    BY <2>1, <2>2, RequestOp DEF Request
  <2>4. IdleOp \in Op /\ IdleOp.pc = "idle"
    BY RequestOp DEF IdleOp, Request
  <2>5. Become(p, IdleOp) \/ Become(p, r)
    BY <1>3 DEF ListActive, Finish
  <2>6. UNCHANGED <<session, issued, status, banned, era>>
    BY <1>3 DEF ListActive
  <2> HIDE DEF r
  <2>7. QED
    BY <2>2, <2>3, <2>4, <2>5, <2>6, RequestStep
<1>4. ASSUME NEW p \in Proc, EvictOldest(p)
      PROVE  TInv'
  <2>1. PICK s \in op[p].evict :
           /\ session' = RevokedIn({s})
           /\ \/ Finish(p)
              \/ Become(p, Request("evict", op[p].user, op[p].sid, 0,
                                   op[p].evict \ {s}))
    BY <1>4 DEF EvictOldest
  <2>2. op[p] \in Op /\ op[p].user \in User /\ op[p].sid \in 0..MaxSession
        /\ op[p].evict \in SUBSET Sid
    BY <1>4 DEF EvictOldest, RequestOwned, Types, Op
  <2> DEFINE r == Request("evict", op[p].user, op[p].sid, 0, op[p].evict \ {s})
  <2>3. r \in Op /\ r.pc = "evict" /\ r.user = op[p].user
    BY <2>2, RequestOp DEF Request
  <2>4. CASE Finish(p)
    BY <1>4, <2>1, <2>4, FinishOp, RevokeStep DEF EvictOldest, Types
  <2>5. CASE Become(p, r)
    <3>1. /\ op' \in [Proc -> Op]
          /\ op'[p] = r
          /\ \A q \in Proc : q # p => op'[q] = op[q]
      BY <2>3, <2>5, BecomeOp
    <3>2. RequestOwned'
      <4> SUFFICES ASSUME NEW q \in Proc
                   PROVE
              /\ op'[q].pc # "idle" => op'[q].user \in User
              /\ op'[q].pc \in {"findUser", "rotate", "revokeOne"} =>
                    /\ op'[q].sid \in 1..issued'
                    /\ session'[op'[q].sid].user = op'[q].user
        BY DEF RequestOwned
      <4>1. CASE q = p
        BY <2>2, <2>3, <3>1, <4>1
      <4>2. CASE q # p
        <5>1. \A t \in Sid : session'[t].user = session[t].user
          BY <2>1, RevokedInRows
        <5>2. op'[q] = op[q] /\ issued' = issued
          BY <1>4, <3>1, <4>2 DEF EvictOldest
        <5>3. QED  BY <5>1, <5>2, SidRange DEF RequestOwned
      <4>3. QED  BY <4>1, <4>2
    <3>3. RowsExist'
      BY <1>4, <2>1, RevokedInRows, ZenonT(60) DEF EvictOldest, RowsExist
    <3>4. Types'
      BY <1>4, <2>1, <3>1, RevokedInRows DEF EvictOldest, Types
    <3>5. QED  BY <3>2, <3>3, <3>4
  <2>6. QED  BY <2>1, <2>4, <2>5
<1>5. ASSUME NEW p \in Proc, NEW s \in Sid, NEW pc,
             pc \in {"findUser", "revokeOne", "revokeAll"},
             session[s].status \in {"live", "revoked"},
             Become(p, Request(pc, session[s].user, s, 0, {})),
             UNCHANGED <<session, issued, status, banned, era>>
      PROVE  TInv'
  <2>1. s \in 1..issued /\ session[s].user \in User
    BY <1>5 DEF RowsExist, Types, Sid
  <2> DEFINE r == Request(pc, session[s].user, s, 0, {})
  <2>2. r \in Op /\ r.user = session[s].user /\ r.sid = s
    BY <1>5, <2>1, RequestOp DEF Request, Sid
  <2> HIDE DEF r
  <2>3. QED  BY <1>5, <2>1, <2>2, RequestStep DEF r
<1>6. ASSUME NEW p \in Proc, NEW s \in Sid, NEW d \in BOOLEAN,
             FindByRefreshHash(p, s, d) \/ Logout(p, s)
      PROVE  TInv'
  <2>1. NextAfterLookup(s, d) \in {"revokeAll", "revokeOne", "findUser"}
    BY DEF NextAfterLookup
  <2>2. QED
    BY <1>5, <1>6, <2>1 DEF FindByRefreshHash, Logout, Live
<1>7. ASSUME NEW p \in Proc, FindUser(p)
      PROVE  TInv'
  <2>1. op[p] \in Op /\ op[p].user \in User /\ op[p].sid \in 1..issued
        /\ op[p].sid \in 0..MaxSession
        /\ session[op[p].sid].user = op[p].user
    BY <1>7 DEF FindUser, RequestOwned, Types, Op
  <2>2. PICK pc \in {"rotate", "revokeOne"}, e \in 0..MaxEra :
           Become(p, Request(pc, op[p].user, op[p].sid, e, {}))
    BY <1>7, <2>1 DEF FindUser, Types
  <2> DEFINE r == Request(pc, op[p].user, op[p].sid, e, {})
  <2>3. r \in Op /\ r.user = op[p].user /\ r.sid = op[p].sid
    BY <2>1, RequestOp DEF Request
  <2>4. UNCHANGED <<session, issued, status, banned, era>>
    BY <1>7 DEF FindUser
  <2> HIDE DEF r
  <2>5. QED  BY <2>1, <2>2, <2>3, <2>4, RequestStep DEF r
<1>8. ASSUME NEW p \in Proc, Rotate(p)
      PROVE  TInv'
  <2>1. CASE UNCHANGED <<session, issued>>
    BY <1>8, <2>1, RequestStep, RequestOp DEF Rotate, Finish, IdleOp, Request
  <2>2. CASE RotateInserts(p)
    <3> DEFINE row == NewRow(op[p].user, op[p].sid, op[p].era)
    <3>1. /\ row \in Row /\ row.user \in User /\ row.status = "live"
          /\ row.parent <= issued
          /\ \A s \in {op[p].sid} : s <= issued
      BY <2>2 DEF RotateInserts, NewRow, Types
    <3> HIDE DEF row
    <3>2. QED  BY <2>2, <3>1, InsertStep DEF RotateInserts, row
  <2>3. QED  BY <1>8, <2>1, <2>2, RotateStep
<1>9. ASSUME NEW p \in Proc, RevokeOne(p) \/ RevokeAll(p)
      PROVE  TInv'
  BY <1>9, FinishOp, RevokeStep DEF RevokeOne, RevokeAll, Types
<1>10. ASSUME NEW p \in Proc, Abort(p)
       PROVE  TInv'
  BY <1>10, RequestStep, RequestOp DEF Abort, Finish, IdleOp, Request
<1>11. ASSUME NEW u \in User, SoftDelete(u) \/ Ban(u)
       PROVE  TInv'
  <2>1. CASE SoftDelete(u)
    <3>1. era[u] \in 0..MaxEra
      BY DEF Types
    <3>2. era[u] < MaxEra => era[u] + 1 \in 0..MaxEra
      BY <3>1
    <3>3. /\ status' \in [User -> {"active", "deleted", "purged"}]
          /\ era' \in [User -> 0..MaxEra]
      BY <2>1, <3>2 DEF SoftDelete, Types
    <3>4. QED  BY <2>1, <3>3, RevokeStep DEF SoftDelete, Types
  <2>2. CASE Ban(u)
    <3>1. banned' \in [User -> BOOLEAN]
      BY <2>2, Zenon DEF Ban, Types
    <3>2. QED  BY <2>2, <3>1, RevokeStep DEF Ban, Types
  <2>3. QED  BY <1>11, <2>1, <2>2
<1>12. ASSUME NEW u \in User, Restore(u) \/ Unban(u)
       PROVE  TInv'
  <2>1. status' \in [User -> {"active", "deleted", "purged"}]
        /\ banned' \in [User -> BOOLEAN]
    <3>1. CASE Restore(u)
      BY <3>1 DEF Restore, Types
    <3>2. CASE Unban(u)
      BY <3>2, Zenon DEF Unban, Types
    <3>3. QED  BY <1>12, <3>1, <3>2
  <2>2. UNCHANGED <<session, issued, op, era>>
    BY <1>12 DEF Restore, Unban
  <2>3. QED  BY <2>1, <2>2 DEF Types, RequestOwned, RowsExist
<1>13. ASSUME session' \in [Sid -> Row], UNCHANGED <<issued, banned, op, era>>,
              status' \in [User -> {"active", "deleted", "purged"}],
              \A s \in Sid : /\ session'[s].user = session[s].user
                             /\ session'[s].parent = session[s].parent
                             /\ session'[s].status = "none"
                                    <=> session[s].status = "none"
       PROVE  TInv'
  <2>1. Types'
    BY <1>13 DEF Types
  <2>2. RequestOwned'
    BY <1>13, SidRange DEF RequestOwned
  <2>3. RowsExist'
    BY <1>13 DEF RowsExist
  <2>4. QED  BY <2>1, <2>2, <2>3
<1>14. ASSUME NEW u \in User, Purge(u)
       PROVE  TInv'
  <2>1. \A s \in Sid : session[s].user = u => session[s].status # "none"
    BY DEF RowsExist, Types
  <2>2. QED  BY <1>13, <1>14, <2>1 DEF Purge, Types, Row, RowStatus
<1>15. ASSUME NEW s \in Sid, Expire(s)
       PROVE  TInv'
  BY <1>13, <1>15, ZenonT(60) DEF Expire, Live, Types, Row
<1>16. CASE UNCHANGED vars
  BY <1>16 DEF vars, Types, RequestOwned, RowsExist
<1>17. QED
  BY <1>1, <1>2, <1>3, <1>4, <1>6, <1>7, <1>8, <1>9, <1>10, <1>11, <1>12,
     <1>14, <1>15, <1>16
  DEF Next, Begin, Continue, AccountStep

(***************************************************************************)
(* What any step does to one row, one request and one account              *)
(***************************************************************************)

RowKept(s) ==
    /\ session'[s].user = session[s].user
    /\ session'[s].parent = session[s].parent
    /\ session'[s].era = session[s].era
    /\ session[s].expired => session'[s].expired
    /\ \/ session'[s].status = session[s].status
       \/ session'[s].status = "revoked" /\ session[s].status = "live"
       \/ session'[s].status = "gone" /\ session[s].status # "none"

(* A row inserted by a request p that read the account before. *)
RowInserted(s, p) ==
    /\ session[s].status = "none"
    /\ session'[s].user = op[p].user /\ op[p].user \in User
    /\ session'[s].era = op[p].era
    /\ UNCHANGED <<status, era>>
    /\ \/ /\ op[p].pc = "create"
          /\ session'[s].parent = 0
          /\ status[op[p].user] # "purged"
       \/ /\ op[p].pc = "rotate"
          /\ op[p].sid \in Sid
          /\ session'[s].parent = op[p].sid
          /\ session'[op[p].sid].status = "revoked"
          /\ session[op[p].sid].user = op[p].user
          /\ session[op[p].sid].status \in {"live", "revoked"}

RequestChange(p) ==
    \/ op'[p] = op[p]
    \/ op'[p].pc \notin {"create", "rotate"}
    \/ /\ op'[p].user \in User
       /\ status[op'[p].user] = "active"
       /\ op'[p].era = era[op'[p].user]
       /\ UNCHANGED <<session, status, era>>

AccountChange(u) ==
    \/ status'[u] = status[u] /\ era'[u] = era[u]
    \/ /\ status[u] = "active" /\ status'[u] = "deleted"
       /\ era'[u] = era[u] + 1
       /\ \A s \in Sid : session'[s].user = u => session'[s].status # "live"
    \/ status[u] = "deleted" /\ status'[u] = "active" /\ era'[u] = era[u]
    \/ /\ status[u] = "deleted" /\ status'[u] = "purged" /\ era'[u] = era[u]
       /\ \A s \in Sid : session'[s].user = u => session'[s].status = "gone"

StepFacts ==
    /\ \A s \in Sid : RowKept(s) \/ \E p \in Proc : RowInserted(s, p)
    /\ \A p \in Proc : RequestChange(p)
    /\ \A u \in User : AccountChange(u)

LEMMA InsertFacts ==
    ASSUME TInv, NEW p \in Proc, CreateInserts(p) \/ RotateInserts(p)
    PROVE  \A s \in Sid : RowKept(s) \/ RowInserted(s, p)
<1> SUFFICES ASSUME NEW s \in Sid
             PROVE  RowKept(s) \/ RowInserted(s, p)
  OBVIOUS
<1>1. CASE s # issued + 1
  <2>1. CASE CreateInserts(p)
    BY <1>1, <2>1 DEF CreateInserts, Inserts, RowKept
  <2>2. CASE RotateInserts(p)
    BY <1>1, <2>2 DEF RotateInserts, Inserts, RowKept
  <2>3. QED  BY <2>1, <2>2
<1>2. CASE s = issued + 1
  <2>1. session[s].status = "none"
    BY <1>2 DEF TInv, Types, RowsExist
  <2>2. CASE CreateInserts(p)
    BY <1>2, <2>1, <2>2 DEF CreateInserts, Inserts, RowInserted, NewRow
  <2>3. CASE RotateInserts(p)
    <3>1. op[p].sid # issued + 1
      BY <2>3 DEF RotateInserts, TInv, Types
    <3>2. session'[op[p].sid].status = "revoked"
      BY <2>3, <3>1 DEF RotateInserts, Inserts
    <3>3. QED
      BY <1>2, <2>1, <2>3, <3>2 DEF RotateInserts, Inserts, RowInserted, NewRow
  <2>4. QED  BY <2>2, <2>3
<1>3. QED  BY <1>1, <1>2

(* A step that leaves the accounts alone and revokes rows at most. *)
LEMMA RevokeFacts ==
    ASSUME TInv, NEW S, session' = RevokedIn(S)
    PROVE  \A s \in Sid : RowKept(s)
  BY RevokedInRows DEF RowKept, TInv

LEMMA AllStepFacts == TInv /\ [Next]_vars => StepFacts
<1> SUFFICES ASSUME TInv, [Next]_vars
             PROVE  StepFacts
  OBVIOUS
<1>1. ASSUME NEW p \in Proc, NEW r, r \in Op, Become(p, r),
             UNCHANGED <<session, status, era>>,
             r.pc \in {"create", "rotate"} =>
                r.user \in User /\ status[r.user] = "active"
                                /\ r.era = era[r.user]
      PROVE  StepFacts
  <2>1. \A q \in Proc : op'[q] = op[q] \/ op'[q] = r
    BY <1>1, BecomeOp DEF TInv
  <2>2. \A q \in Proc : RequestChange(q)
    BY <1>1, <2>1 DEF RequestChange
  <2>3. QED  BY <1>1, <2>2 DEF StepFacts, RowKept, AccountChange
<1>2. ASSUME UNCHANGED <<status, era>>,
             \A s \in Sid : RowKept(s) \/ \E p \in Proc : RowInserted(s, p),
             \A q \in Proc : op'[q] = op[q] \/ op'[q].pc \notin {"create", "rotate"}
      PROVE  StepFacts
  BY <1>2 DEF StepFacts, RequestChange, AccountChange
<1>3. ASSUME NEW p \in Proc, NEW u \in User, NEW how, CheckAccount(p, u, how)
      PROVE  StepFacts
  <2> DEFINE r == Request("create", u, 0, era[u], {})
  <2>1. r \in Op
    BY RequestOp DEF TInv, Types
  <2>2. r.user = u /\ r.era = era[u] /\ status[u] = "active"
    BY <1>3 DEF Request, CheckAccount, SignInAllowed
  <2>3. Become(p, r) /\ UNCHANGED <<session, status, era>>
    BY <1>3 DEF CheckAccount
  <2> HIDE DEF r
  <2>4. QED  BY <1>1, <2>1, <2>2, <2>3
<1>4. ASSUME NEW p \in Proc, CreateSession(p)
      PROVE  StepFacts
  <2>1. CASE CreateInserts(p)
    BY <1>2, <2>1, InsertFacts DEF CreateInserts
  <2>2. CASE Finish(p) /\ UNCHANGED <<session, issued>>
    BY <1>2, <1>4, <2>2, FinishOp DEF CreateSession, RowKept, TInv
  <2>3. QED  BY <1>4, <2>1, <2>2, CreateStep
<1>5. ASSUME NEW p \in Proc, Rotate(p)
      PROVE  StepFacts
  <2>1. CASE RotateInserts(p)
    BY <1>2, <2>1, InsertFacts DEF RotateInserts
  <2>2. CASE UNCHANGED <<session, issued>>
    BY <1>2, <1>5, <2>2, FinishOp DEF Rotate, RowKept, TInv
  <2>3. QED  BY <1>5, <2>1, <2>2, RotateStep
<1>6. ASSUME NEW p \in Proc, ListActive(p)
      PROVE  StepFacts
  <2> DEFINE surplus == Surplus(ActiveOf(op[p].user))
             r == Request("evict", op[p].user, op[p].sid, 0, surplus)
  <2>1. surplus \in SUBSET Sid
    BY DEF Surplus, ActiveOf
  <2>2. op[p].user \in User \cup {None} /\ op[p].sid \in 0..MaxSession
    BY DEF TInv, Types, Op
  <2>3. r \in Op /\ r.pc = "evict"
    BY <2>1, <2>2, RequestOp DEF Request
  <2>4. IdleOp \in Op /\ IdleOp.pc = "idle"
    BY RequestOp DEF IdleOp, Request
  <2>5. Become(p, IdleOp) \/ Become(p, r)
    BY <1>6 DEF ListActive, Finish
  <2>6. UNCHANGED <<session, status, era>>
    BY <1>6 DEF ListActive
  <2> HIDE DEF r
  <2>7. QED  BY <1>1, <2>3, <2>4, <2>5, <2>6
<1>7. ASSUME NEW p \in Proc, EvictOldest(p)
      PROVE  StepFacts
  <2>1. PICK s \in op[p].evict :
           /\ session' = RevokedIn({s})
           /\ \/ Finish(p)
              \/ Become(p, Request("evict", op[p].user, op[p].sid, 0,
                                   op[p].evict \ {s}))
    BY <1>7 DEF EvictOldest
  <2> DEFINE r == Request("evict", op[p].user, op[p].sid, 0, op[p].evict \ {s})
  <2>2. op[p].user \in User \cup {None} /\ op[p].sid \in 0..MaxSession
        /\ op[p].evict \in SUBSET Sid
    BY DEF TInv, Types, Op
  <2>3. r \in Op /\ r.pc = "evict"
    BY <2>2, RequestOp DEF Request
  <2>4. IdleOp \in Op /\ IdleOp.pc = "idle"
    BY RequestOp DEF IdleOp, Request
  <2>5. Become(p, IdleOp) \/ Become(p, r)
    BY <2>1 DEF Finish
  <2> HIDE DEF r
  <2>6. \A q \in Proc : op'[q] = op[q] \/ op'[q].pc \notin {"create", "rotate"}
    BY <2>3, <2>4, <2>5, BecomeOp DEF TInv
  <2>7. QED  BY <1>2, <1>7, <2>1, <2>6, RevokeFacts DEF EvictOldest
<1>8. ASSUME NEW p \in Proc, NEW s \in Sid, NEW pc,
             pc \in {"findUser", "revokeOne", "revokeAll"},
             Become(p, Request(pc, session[s].user, s, 0, {})),
             UNCHANGED <<session, status, era>>
      PROVE  StepFacts
  <2> DEFINE r == Request(pc, session[s].user, s, 0, {})
  <2>1. session[s].user \in User \cup {None} /\ s \in 0..MaxSession
    BY DEF TInv, Types, Row, Sid
  <2>2. r \in Op /\ r.pc = pc
    BY <1>8, <2>1, RequestOp DEF Request
  <2> HIDE DEF r
  <2>3. QED  BY <1>1, <1>8, <2>2 DEF r
<1>9. ASSUME NEW p \in Proc, NEW s \in Sid, NEW d \in BOOLEAN,
             FindByRefreshHash(p, s, d) \/ Logout(p, s)
      PROVE  StepFacts
  <2>1. NextAfterLookup(s, d) \in {"revokeAll", "revokeOne", "findUser"}
    BY DEF NextAfterLookup
  <2>2. QED  BY <1>8, <1>9, <2>1 DEF FindByRefreshHash, Logout
<1>10. ASSUME NEW p \in Proc, FindUser(p)
       PROVE  StepFacts
  <2> DEFINE u == op[p].user
             r == Request("rotate", u, op[p].sid, era[u], {})
             x == Request("revokeOne", u, op[p].sid, 0, {})
  <2>1. u \in User /\ op[p].sid \in 0..MaxSession /\ era[u] \in 0..MaxEra
    BY <1>10 DEF FindUser, TInv, RequestOwned, Types, Op
  <2>2. /\ r \in Op /\ r.user = u /\ r.era = era[u]
        /\ x \in Op /\ x.pc = "revokeOne"
    BY <2>1, RequestOp DEF Request
  <2>3. \/ status[u] = "active" /\ Become(p, r)
        \/ Become(p, x)
    BY <1>10 DEF FindUser
  <2>4. UNCHANGED <<session, status, era>>
    BY <1>10 DEF FindUser
  <2> HIDE DEF r, x
  <2>5. QED  BY <1>1, <2>1, <2>2, <2>3, <2>4
<1>11. ASSUME NEW p \in Proc, RevokeOne(p) \/ RevokeAll(p)
       PROVE  StepFacts
  BY <1>2, <1>11, FinishOp, RevokeFacts DEF RevokeOne, RevokeAll, TInv
<1>12. ASSUME NEW p \in Proc, Abort(p)
       PROVE  StepFacts
  BY <1>2, <1>12, FinishOp DEF Abort, RowKept, TInv
<1>13. ASSUME NEW u \in User, SoftDelete(u)
       PROVE  StepFacts
  <2>1. \A s \in Sid : RowKept(s)
    BY <1>13, RevokeFacts DEF SoftDelete
  <2>2. \A s \in Sid : session'[s].user = u => session'[s].status # "live"
    BY <1>13, RevokedInRows DEF SoftDelete, RowsOf, TInv
  <2>3. \A v \in User : AccountChange(v)
    BY <1>13, <2>2 DEF SoftDelete, AccountChange, TInv, Types
  <2>4. QED  BY <1>13, <2>1, <2>3 DEF SoftDelete, StepFacts, RequestChange
<1>14. ASSUME NEW u \in User, Ban(u)
       PROVE  StepFacts
  BY <1>2, <1>14, RevokeFacts DEF Ban
<1>15. ASSUME NEW u \in User, Restore(u)
       PROVE  StepFacts
  BY <1>15 DEF Restore, StepFacts, RowKept, RequestChange, AccountChange,
               TInv, Types
<1>16. ASSUME NEW u \in User, Unban(u)
       PROVE  StepFacts
  BY <1>2, <1>16 DEF Unban, RowKept
<1>17. ASSUME NEW u \in User, Purge(u)
       PROVE  StepFacts
  <2>1. \A s \in Sid : RowKept(s)
    <3>1. \A s \in Sid : session[s].user = u => session[s].status # "none"
      BY DEF TInv, Types, RowsExist
    <3>2. QED  BY <1>17, <3>1 DEF Purge, RowKept, TInv, Types, Row
  <2>2. \A s \in Sid : session'[s].user = u => session'[s].status = "gone"
    BY <1>17 DEF Purge, TInv, Types, Row
  <2>3. \A v \in User : AccountChange(v)
    BY <1>17, <2>2 DEF Purge, AccountChange, TInv, Types
  <2>4. QED  BY <1>17, <2>1, <2>3 DEF Purge, StepFacts, RequestChange
<1>18. ASSUME NEW s \in Sid, Expire(s)
       PROVE  StepFacts
  <2>1. \A t \in Sid : RowKept(t)
    BY <1>18 DEF Expire, Live, RowKept, TInv, Types, Row
  <2>2. QED  BY <1>2, <1>18, <2>1 DEF Expire
<1>19. CASE UNCHANGED vars
  BY <1>2, <1>19 DEF vars, RowKept
<1>20. QED
  BY <1>3, <1>4, <1>5, <1>6, <1>7, <1>9, <1>10, <1>11, <1>12, <1>13, <1>14,
     <1>15, <1>16, <1>17, <1>18, <1>19
  DEF Next, Begin, Continue, AccountStep

(***************************************************************************)
(* The one row a step may insert, and the moves of a request               *)
(***************************************************************************)

(* A step either inserts no row or exactly the next one, for a request     *)
(* that has then nothing left to insert.                                   *)
RowsChange ==
    \/ \A s \in Sid : RowKept(s)
    \/ \E p \in Proc :
          /\ op'[p].pc \in {"list", "idle"}
          /\ issued + 1 \in Sid /\ RowInserted(issued + 1, p)
          /\ \A s \in Sid : s # issued + 1 => RowKept(s)

LEMMA OneRowPerStep == TInv /\ TInv' /\ [Next]_vars => RowsChange
<1> SUFFICES ASSUME TInv, TInv', [Next]_vars
             PROVE  RowsChange
  OBVIOUS
<1>1. CASE issued' = issued
  <2>1. ASSUME NEW s \in Sid, NEW p \in Proc, RowInserted(s, p)
        PROVE  FALSE
    <3>1. ~(s <= issued)
      BY <2>1 DEF RowInserted, TInv, RowsExist
    <3>2. session'[s].user = None
      BY <1>1, <3>1 DEF TInv, RowsExist
    <3>3. QED  BY <2>1, <3>2 DEF RowInserted
  <2>2. QED  BY <2>1, AllStepFacts DEF StepFacts, RowsChange
<1>2. ASSUME NEW p \in Proc, CreateInserts(p) \/ RotateInserts(p),
             op'[p].pc \in {"list", "idle"}
      PROVE  RowsChange
  <2>1. issued \in Nat /\ issued + 1 \in Sid
    BY <1>2 DEF CreateInserts, RotateInserts, Inserts, TInv, Types, Sid
  <2>2. ASSUME NEW s \in Sid, s # issued + 1
        PROVE  RowKept(s)
    <3>1. CASE CreateInserts(p)
      BY <2>2, <3>1 DEF CreateInserts, Inserts, RowKept
    <3>2. CASE RotateInserts(p)
      BY <2>2, <3>2 DEF RotateInserts, Inserts, RowKept
    <3>3. QED  BY <1>2, <3>1, <3>2
  <2>3. RowInserted(issued + 1, p)
    <3>1. ~RowKept(issued + 1)
      <4>1. session[issued + 1].user = None
        BY <2>1 DEF TInv, RowsExist
      <4>2. session'[issued + 1].user \in User
        BY <1>2 DEF CreateInserts, RotateInserts, Inserts, NewRow
      <4>3. QED  BY <4>1, <4>2 DEF RowKept
    <3>2. QED  BY <1>2, <2>1, <3>1, InsertFacts
  <2>4. QED  BY <1>2, <2>1, <2>2, <2>3 DEF RowsChange
<1>3. CASE issued' # issued
  <2>1. PICK p \in Proc : CreateSession(p) \/ Rotate(p)
    BY <1>3 DEF Next, vars, Begin, Continue, AccountStep, CheckAccount,
                FindByRefreshHash, Logout, ListActive, EvictOldest, FindUser,
                RevokeOne, RevokeAll, Abort, SoftDelete, Restore, Ban, Unban,
                Purge, Expire
  <2>2. CASE CreateSession(p)
    <3>1. Become(p, Request("list", op[p].user, issued + 1, 0, {}))
      BY <1>3, <2>2 DEF CreateSession
    <3>2. op'[p].pc = "list"
      BY <3>1 DEF Become, Request, TInv, Types
    <3>3. QED  BY <1>2, <1>3, <2>2, <3>2, CreateStep
  <2>3. CASE Rotate(p)
    <3>1. op'[p].pc = "idle"
      BY <2>3, FinishOp DEF Rotate, TInv
    <3>2. QED  BY <1>2, <1>3, <2>3, <3>1, RotateStep
  <2>4. QED  BY <2>1, <2>2, <2>3
<1>4. QED  BY <1>1, <1>3

(* How a request comes to hold what it will act on: a token of a row that  *)
(* was live when it was looked up, or a list of sessions to evict.         *)
RequestMove(p) ==
    \/ op'[p] = op[p]
    \/ /\ op'[p].pc \notin {"evict", "findUser", "rotate"} /\ op'[p].evict = {}
       /\ op'[p].pc = "list" => op'[p].sid \in Sid /\ op'[p].sid = issued'
    \/ /\ op'[p].pc = "findUser" /\ op'[p].evict = {}
       /\ op'[p].sid \in Sid /\ Live(op'[p].sid)
       /\ UNCHANGED session
    \/ /\ op'[p].pc = "rotate" /\ op'[p].evict = {}
       /\ op[p].pc = "findUser" /\ op'[p].sid = op[p].sid
       /\ UNCHANGED session
    \/ /\ op'[p].pc = "evict" /\ op[p].pc = "list"
       /\ op'[p].user = op[p].user /\ op'[p].sid = op[p].sid
       /\ op'[p].evict = Surplus(ActiveOf(op[p].user))
       /\ UNCHANGED session
    \/ /\ op'[p].pc = "evict" /\ op[p].pc = "evict"
       /\ op'[p].user = op[p].user /\ op'[p].sid = op[p].sid
       /\ \E s \in op[p].evict :
             /\ op'[p].evict = op[p].evict \ {s}
             /\ session' = RevokedIn({s})

LEMMA RequestMoves ==
    TInv /\ [Next]_vars => \A p \in Proc : RequestMove(p)
<1> SUFFICES ASSUME TInv, [Next]_vars
             PROVE  \A p \in Proc : RequestMove(p)
  OBVIOUS
<1>1. ASSUME NEW p \in Proc, NEW r \in Op, Become(p, r),
             op'[p] = r => RequestMove(p)
      PROVE  \A q \in Proc : RequestMove(q)
  BY <1>1, BecomeOp DEF TInv, RequestMove
<1>2. ASSUME NEW p \in Proc, Finish(p)
      PROVE  \A q \in Proc : RequestMove(q)
  BY <1>2, FinishOp DEF TInv, RequestMove
<1>3. ASSUME UNCHANGED op
      PROVE  \A q \in Proc : RequestMove(q)
  BY <1>3 DEF RequestMove
<1>4. ASSUME NEW p \in Proc, NEW u \in User, NEW how, CheckAccount(p, u, how)
      PROVE  \A q \in Proc : RequestMove(q)
  <2> DEFINE r == Request("create", u, 0, era[u], {})
  <2>1. r \in Op /\ r.pc = "create" /\ r.evict = {}
    BY RequestOp DEF TInv, Types, Request
  <2>2. Become(p, r)
    BY <1>4 DEF CheckAccount
  <2> HIDE DEF r
  <2>3. QED  BY <1>1, <2>1, <2>2 DEF RequestMove
<1>5. ASSUME NEW p \in Proc, CreateSession(p)
      PROVE  \A q \in Proc : RequestMove(q)
  <2> DEFINE r == Request("list", op[p].user, issued + 1, 0, {})
  <2>1. CASE Become(p, r) /\ issued < MaxSession /\ issued' = issued + 1
    <3>1. op[p].user \in User /\ issued + 1 \in 0..MaxSession /\ issued' \in Sid
      BY <1>5, <2>1 DEF CreateSession, TInv, Types, RequestOwned, Sid
    <3>2. r \in Op /\ r.pc = "list" /\ r.evict = {} /\ r.sid = issued'
      BY <2>1, <3>1, RequestOp DEF Request
    <3> HIDE DEF r
    <3>3. QED  BY <1>1, <2>1, <3>1, <3>2 DEF RequestMove
  <2>2. QED  BY <1>2, <1>5, <2>1 DEF CreateSession
<1>6. ASSUME NEW p \in Proc, ListActive(p)
      PROVE  \A q \in Proc : RequestMove(q)
  <2> DEFINE surplus == Surplus(ActiveOf(op[p].user))
             r == Request("evict", op[p].user, op[p].sid, 0, surplus)
  <2>1. CASE Become(p, r)
    <3>1. surplus \in SUBSET Sid
      BY DEF Surplus, ActiveOf
    <3>2. op[p].user \in User /\ op[p].sid \in 0..MaxSession
      BY <1>6 DEF ListActive, TInv, Types, RequestOwned, Op
    <3>3. r \in Op /\ r.pc = "evict" /\ r.user = op[p].user
          /\ r.sid = op[p].sid /\ r.evict = surplus
      BY <3>1, <3>2, RequestOp DEF Request
    <3>4. op[p].pc = "list" /\ UNCHANGED session
      BY <1>6 DEF ListActive
    <3> HIDE DEF r
    <3>5. QED  BY <1>1, <2>1, <3>3, <3>4 DEF RequestMove
  <2>2. QED  BY <1>2, <1>6, <2>1 DEF ListActive
<1>7. ASSUME NEW p \in Proc, EvictOldest(p)
      PROVE  \A q \in Proc : RequestMove(q)
  <2>1. PICK s \in op[p].evict :
           /\ session' = RevokedIn({s})
           /\ \/ Finish(p)
              \/ Become(p, Request("evict", op[p].user, op[p].sid, 0,
                                   op[p].evict \ {s}))
    BY <1>7 DEF EvictOldest
  <2> DEFINE r == Request("evict", op[p].user, op[p].sid, 0, op[p].evict \ {s})
  <2>2. CASE Become(p, r)
    <3>1. op[p].user \in User /\ op[p].sid \in 0..MaxSession
          /\ op[p].evict \in SUBSET Sid /\ op[p].pc = "evict"
      BY <1>7 DEF EvictOldest, TInv, Types, RequestOwned, Op
    <3>2. r \in Op /\ r.pc = "evict" /\ r.user = op[p].user
          /\ r.sid = op[p].sid /\ r.evict = op[p].evict \ {s}
      BY <3>1, RequestOp DEF Request
    <3> HIDE DEF r
    <3>3. QED  BY <1>1, <2>1, <2>2, <3>1, <3>2 DEF RequestMove
  <2>3. QED  BY <1>2, <2>1, <2>2
<1>8. ASSUME NEW p \in Proc, NEW s \in Sid, NEW pc,
             pc \in {"findUser", "revokeOne", "revokeAll"},
             pc = "findUser" => Live(s),
             Become(p, Request(pc, session[s].user, s, 0, {})),
             UNCHANGED session
      PROVE  \A q \in Proc : RequestMove(q)
  <2> DEFINE r == Request(pc, session[s].user, s, 0, {})
  <2>1. session[s].user \in User \cup {None} /\ s \in 0..MaxSession
    BY DEF TInv, Types, Row, Sid
  <2>2. r \in Op /\ r.pc = pc /\ r.sid = s /\ r.evict = {}
    BY <1>8, <2>1, RequestOp DEF Request
  <2>3. Become(p, r) /\ UNCHANGED session
    BY <1>8
  <2> HIDE DEF r
  <2>4. QED  BY <1>1, <1>8, <2>2, <2>3 DEF RequestMove
<1>9. ASSUME NEW p \in Proc, NEW s \in Sid, NEW d \in BOOLEAN,
             FindByRefreshHash(p, s, d) \/ Logout(p, s)
      PROVE  \A q \in Proc : RequestMove(q)
  <2>1. CASE FindByRefreshHash(p, s, d)
    <3>1. /\ NextAfterLookup(s, d) \in {"revokeAll", "revokeOne", "findUser"}
          /\ session[s].status \in {"live", "revoked"} =>
                (NextAfterLookup(s, d) = "findUser" => Live(s))
      BY DEF NextAfterLookup, Live
    <3>2. QED  BY <1>8, <2>1, <3>1 DEF FindByRefreshHash
  <2>2. CASE Logout(p, s)
    BY <1>8, <2>2 DEF Logout
  <2>3. QED  BY <1>9, <2>1, <2>2
<1>10. ASSUME NEW p \in Proc, FindUser(p)
       PROVE  \A q \in Proc : RequestMove(q)
  <2> DEFINE u == op[p].user
             r == Request("rotate", u, op[p].sid, era[u], {})
             x == Request("revokeOne", u, op[p].sid, 0, {})
  <2>1. u \in User /\ op[p].sid \in 0..MaxSession /\ era[u] \in 0..MaxEra
    BY <1>10 DEF FindUser, TInv, RequestOwned, Types, Op
  <2>2. /\ r \in Op /\ r.pc = "rotate" /\ r.sid = op[p].sid /\ r.evict = {}
        /\ x \in Op /\ x.pc = "revokeOne" /\ x.evict = {}
    BY <2>1, RequestOp DEF Request
  <2>3. Become(p, r) \/ Become(p, x)
    BY <1>10 DEF FindUser
  <2>4. op[p].pc = "findUser" /\ UNCHANGED session
    BY <1>10 DEF FindUser
  <2> HIDE DEF r, x
  <2>5. QED  BY <1>1, <2>2, <2>3, <2>4 DEF RequestMove
<1>11. ASSUME NEW p \in Proc,
              Rotate(p) \/ RevokeOne(p) \/ RevokeAll(p) \/ Abort(p)
       PROVE  \A q \in Proc : RequestMove(q)
  BY <1>2, <1>11 DEF Rotate, RevokeOne, RevokeAll, Abort
<1>12. ASSUME NEW u \in User, AccountStep(u)
       PROVE  \A q \in Proc : RequestMove(q)
  BY <1>3, <1>12 DEF AccountStep, SoftDelete, Restore, Ban, Unban, Purge
<1>13. ASSUME NEW s \in Sid, Expire(s)
       PROVE  \A q \in Proc : RequestMove(q)
  BY <1>3, <1>13 DEF Expire
<1>14. CASE UNCHANGED vars
  BY <1>3, <1>14 DEF vars
<1>15. QED
  BY <1>4, <1>5, <1>6, <1>7, <1>9, <1>10, <1>11, <1>12, <1>13, <1>14
  DEF Next, Begin, Continue

(***************************************************************************)
(* The theorems                                                            *)
(***************************************************************************)

(* Every variable keeps its type, every request and every row its user,    *)
(* and the rows are exactly those issued: no handler of the identity or    *)
(* the account module stores anything else.                                *)
THEOREM TypeCorrect == Spec => []TInv
  BY TypeInit, TypeNext, PTL DEF Spec

(* The type invariant that the runs check: whatever was purged or revoked  *)
(* meanwhile, no request loses its user and no row its own; rotations lead *)
(* from older rows to newer ones.                                          *)
THEOREM TypeOKHolds == Spec => []TypeOK
<1>1. TInv => TypeOK
  <2> SUFFICES ASSUME TInv PROVE TypeOK
    OBVIOUS
  <2>1. \A s \in Sid : session[s].status # "none"
                        => session[s].user \in User /\ session[s].parent < s
    BY DEF TInv, RowsExist
  <2>2. \A p \in Proc : op[p].pc # "idle" => op[p].user \in User
    BY DEF TInv, RequestOwned
  <2>3. QED  BY <2>1, <2>2 DEF TInv, Types, TypeOK
<1>2. QED  BY <1>1, TypeCorrect, PTL

(* Revocation is final: no interleaving of logout, refresh, eviction,      *)
(* cascade and account operations makes a revoked row live again.          *)
THEOREM RevocationFinal == Spec => RevocationIsFinal
<1>1. TInv /\ [Next]_vars =>
         [\A s \in Sid : session[s].status \in {"revoked", "gone"}
              => session'[s].status \in {"revoked", "gone"}]_vars
  <2> SUFFICES ASSUME TInv, [Next]_vars, NEW s \in Sid,
                      session[s].status \in {"revoked", "gone"}
               PROVE  session'[s].status \in {"revoked", "gone"}
    OBVIOUS
  <2>1. RowKept(s)
    BY AllStepFacts DEF StepFacts, RowInserted
  <2>2. QED  BY <2>1 DEF RowKept
<1>2. QED  BY <1>1, TypeCorrect, PTL DEF Spec, RevocationIsFinal

(* A refresh token that was exchanged is never live again, however many    *)
(* refreshes of it overlap.                                                *)
THEOREM RotationRevokes == Spec => []RotatedIsRevoked
<1>1. Init => RotatedIsRevoked
  BY DEF Init, RotatedIsRevoked, NoRow, Sid
<1>2. TInv /\ RotatedIsRevoked /\ [Next]_vars => RotatedIsRevoked'
  <2> SUFFICES ASSUME TInv, RotatedIsRevoked, StepFacts,
                      NEW s \in Sid, session'[s].parent # 0
               PROVE  session'[session'[s].parent].status \in {"revoked", "gone"}
    BY AllStepFacts DEF RotatedIsRevoked
  <2>1. CASE RowKept(s)
    <3> DEFINE t == session[s].parent
    <3>1. session'[s].parent = t /\ t # 0 /\ session[t].status \in {"revoked", "gone"}
      BY <2>1 DEF RowKept, RotatedIsRevoked
    <3>2. t \in Sid
      BY <3>1 DEF TInv, Types, Row, Sid
    <3> HIDE DEF t
    <3>3. RowKept(t)
      BY <3>1, <3>2 DEF StepFacts, RowInserted
    <3>4. QED  BY <3>1, <3>3 DEF RowKept
  <2>2. CASE \E p \in Proc : RowInserted(s, p)
    BY <2>2 DEF RowInserted
  <2>3. QED  BY <2>1, <2>2 DEF StepFacts
<1>3. QED  BY <1>1, <1>2, TypeCorrect, PTL DEF Spec

(* What makes LiveOfDeletedIsLate inductive: a request that will insert a  *)
(* row has an era no later than its user's, and an earlier one when the    *)
(* account was deleted since it read it; the row takes that era over.      *)
Late(u, e) == e <= era[u] /\ (status[u] # "active" => e < era[u])

EraInv ==
    /\ \A p \in Proc : op[p].pc \in {"create", "rotate"} =>
            Late(op[p].user, op[p].era)
    /\ \A s \in Sid : session[s].status = "live" =>
            Late(session[s].user, session[s].era)

LEMMA LateStep ==
    ASSUME TInv, StepFacts, NEW u \in User, NEW e \in 0..MaxEra, Late(u, e)
    PROVE  Late(u, e)'
<1>1. AccountChange(u) /\ era[u] \in Nat /\ e \in Nat
  BY DEF StepFacts, TInv, Types
<1>2. QED  BY <1>1 DEF AccountChange, Late

(* No request that begins on a soft-deleted account ends with a live       *)
(* session: one that is live there was issued by a request that had read   *)
(* the account before the deletion.                                        *)
THEOREM LateSessionsOnly == Spec => []LiveOfDeletedIsLate
<1>1. Init => EraInv
  BY DEF Init, EraInv, NoRow, IdleOp, Request
<1>2. TInv /\ TInv' /\ EraInv /\ [Next]_vars => EraInv'
  <2> SUFFICES ASSUME TInv, TInv', EraInv, StepFacts
               PROVE  EraInv'
    BY AllStepFacts
  <2>1. ASSUME NEW p \in Proc, op'[p].pc \in {"create", "rotate"}
        PROVE  Late(op[p].user, op[p].era)'
    <3>1. CASE op'[p] = op[p]
      <4>1. op[p].user \in User /\ op[p].era \in 0..MaxEra
        BY <2>1, <3>1 DEF TInv, Types, RequestOwned, Op
      <4>2. Late(op[p].user, op[p].era)
        BY <2>1, <3>1 DEF EraInv
      <4>3. QED  BY <3>1, <4>1, <4>2, LateStep DEF Late
    <3>2. CASE op'[p] # op[p]
      <4>1. /\ op'[p].user \in User
            /\ status[op'[p].user] = "active"
            /\ op'[p].era = era[op'[p].user]
            /\ UNCHANGED <<status, era>>
        BY <2>1, <3>2 DEF StepFacts, RequestChange
      <4>2. op'[p].era \in 0..MaxEra
        BY <2>1 DEF TInv, Types, Op
      <4>3. QED  BY <4>1, <4>2 DEF Late
    <3>3. QED  BY <3>1, <3>2
  <2>2. ASSUME NEW s \in Sid, session'[s].status = "live"
        PROVE  Late(session[s].user, session[s].era)'
    <3>1. CASE RowKept(s)
      <4>1. session[s].status = "live"
        BY <2>2, <3>1 DEF RowKept
      <4>2. session[s].user \in User /\ session[s].era \in 0..MaxEra
        BY <4>1 DEF TInv, Types, RowsExist, Row
      <4>3. Late(session[s].user, session[s].era)
        BY <4>1 DEF EraInv
      <4>4. QED
        BY <3>1, <4>2, <4>3, LateStep DEF RowKept, Late
    <3>2. ASSUME NEW p \in Proc, RowInserted(s, p)
          PROVE  Late(session[s].user, session[s].era)'
      BY <3>2 DEF RowInserted, EraInv, Late
    <3>3. QED  BY <3>1, <3>2 DEF StepFacts
  <2>3. QED  BY <2>1, <2>2 DEF EraInv
<1>3. TInv /\ EraInv => LiveOfDeletedIsLate
  BY DEF EraInv, Late, LiveOfDeletedIsLate, Live
<1>4. QED  BY <1>1, <1>2, <1>3, TypeCorrect, PTL DEF Spec

(* A purge leaves no session behind, and no request that is in flight      *)
(* across it brings one back.                                              *)
THEOREM PurgeIsComplete == Spec => []PurgedHasNoSession
<1>1. Init => PurgedHasNoSession
  BY DEF Init, PurgedHasNoSession, NoRow
<1>2. TInv /\ PurgedHasNoSession /\ [Next]_vars => PurgedHasNoSession'
  <2> SUFFICES ASSUME TInv, PurgedHasNoSession, StepFacts, NEW s \in Sid,
                      session'[s].status \in {"live", "revoked"}
               PROVE  status'[session'[s].user] # "purged"
    BY AllStepFacts DEF PurgedHasNoSession
  <2>1. CASE RowKept(s) /\ session[s].status # "none"
    <3> DEFINE u == session[s].user
    <3>1. u \in User /\ status[u] # "purged" /\ session'[s].user = u
      BY <2>1 DEF RowKept, PurgedHasNoSession, TInv, Types, RowsExist, Row, RowStatus
    <3> HIDE DEF u
    <3>2. AccountChange(u)
      BY <3>1 DEF StepFacts
    <3>3. QED  BY <3>1, <3>2 DEF AccountChange
  <2>2. CASE \E p \in Proc : RowInserted(s, p)
    BY <2>2 DEF RowInserted, PurgedHasNoSession
  <2>3. CASE RowKept(s) /\ session[s].status = "none"
    BY <2>3 DEF RowKept
  <2>4. QED  BY <2>1, <2>2, <2>3 DEF StepFacts
<1>3. QED  BY <1>1, <1>2, TypeCorrect, PTL DEF Spec

(***************************************************************************)
(* What holds when no two requests of one user overlap                     *)
(***************************************************************************)

NoOverlap ==
    \A p, q \in Proc :
        /\ op[p].pc # "idle" /\ op[q].pc # "idle"
        /\ op[p].user = op[q].user
        => p = q

(* A step that inserts a row for one request leaves the others, and the    *)
(* rows of their users, alone.                                             *)
LEMMA OthersStay ==
    ASSUME TInv, NEW p \in Proc, RowInserted(issued + 1, p),
           issued + 1 \in Sid, NEW q \in Proc, RequestMove(q),
           op'[q].pc \in {"evict", "findUser", "rotate"}
    PROVE  op'[q] = op[q]
<1>1. session'[issued + 1].user \in User
  BY DEF RowInserted
<1>2. session[issued + 1].user = None
  BY DEF TInv, Types, RowsExist
<1>3. \A S : session' # RevokedIn(S)
  BY <1>1, <1>2, RevokedInRows DEF TInv
<1>4. QED  BY <1>1, <1>2, <1>3 DEF RequestMove

(* Without overlap, no session has been rotated from the one that a        *)
(* request is about to rotate.                                             *)
Untouched(sid) == \A t \in Sid : session[t].parent # sid

SingleUseInv ==
    /\ TokenIsSingleUse
    /\ \A p \in Proc : op[p].pc \in {"findUser", "rotate"} =>
            op[p].sid \in Sid /\ Untouched(op[p].sid)

(* A refresh token is exchanged at most once as long as no two requests of *)
(* one user overlap: only a live row gets past the lookup, and a row that  *)
(* was rotated is not live. (The run sessions_token_race shows that        *)
(* overlap breaks it.)                                                     *)
THEOREM SingleUseWithoutOverlap ==
    Spec /\ []NoOverlap => []TokenIsSingleUse
<1>1. Init => SingleUseInv
  BY DEF Init, SingleUseInv, TokenIsSingleUse, IdleOp, Request, NoRow
<1>2. TInv /\ TInv' /\ RotatedIsRevoked /\ NoOverlap
         /\ SingleUseInv /\ [Next]_vars => SingleUseInv'
  <2> SUFFICES ASSUME TInv, TInv', RotatedIsRevoked, NoOverlap, SingleUseInv,
                      RowsChange, \A p \in Proc : RequestMove(p)
               PROVE  SingleUseInv'
    BY OneRowPerStep, RequestMoves
  <2>1. CASE \A s \in Sid : RowKept(s)
    <3>1. \A s \in Sid : session'[s].parent = session[s].parent
      BY <2>1 DEF RowKept
    <3>2. TokenIsSingleUse'
      BY <3>1 DEF SingleUseInv, TokenIsSingleUse
    <3>3. ASSUME NEW p \in Proc, op'[p].pc \in {"findUser", "rotate"}
          PROVE  op'[p].sid \in Sid /\ Untouched(op'[p].sid)
      <4>1. ASSUME NEW sid \in Sid, Live(sid)
            PROVE  Untouched(sid)
        BY <4>1 DEF Untouched, RotatedIsRevoked, Live, Sid
      <4>2. QED  BY <3>3, <4>1 DEF RequestMove, SingleUseInv
    <3>4. QED  BY <3>1, <3>2, <3>3 DEF SingleUseInv, Untouched
  <2>2. ASSUME NEW p \in Proc, op'[p].pc \in {"list", "idle"},
               issued + 1 \in Sid, RowInserted(issued + 1, p),
               \A s \in Sid : s # issued + 1 => RowKept(s)
        PROVE  SingleUseInv'
    <3> DEFINE n == issued + 1
    <3>1. \A s \in Sid : s # n => session'[s].parent = session[s].parent
      BY <2>2 DEF RowKept
    <3>2. ASSUME NEW q \in Proc, op'[q].pc \in {"findUser", "rotate"},
                 NEW sid, sid = op'[q].sid
          PROVE  sid \in Sid /\ Untouched(sid)'
      <4>1. op'[q] = op[q]
        BY <2>2, <3>2, OthersStay
      <4>2. op[q].sid \in Sid /\ Untouched(op[q].sid)
        BY <3>2, <4>1 DEF SingleUseInv
      <4>3. op[p].pc # "idle" /\ p # q
        BY <2>2, <3>2 DEF RowInserted
      <4>4. op[q].user # op[p].user
        BY <3>2, <4>1, <4>3 DEF NoOverlap
      <4>5. session'[n].parent # op[q].sid
        BY <2>2, <3>2, <4>1, <4>2, <4>4 DEF RowInserted, TInv, RequestOwned, Sid
      <4>6. QED  BY <3>1, <3>2, <4>1, <4>2, <4>5 DEF Untouched
    <3>3. \A s \in Sid : s # n /\ session'[n].parent # 0
             => session'[s].parent # session'[n].parent
      BY <2>2, <3>1 DEF RowInserted, SingleUseInv, Untouched
    <3>4. TokenIsSingleUse'
      BY <3>1, <3>3 DEF TokenIsSingleUse, SingleUseInv
    <3>5. QED  BY <3>2, <3>4 DEF SingleUseInv, Untouched
  <2>3. QED  BY <2>1, <2>2 DEF RowsChange
<1>3. QED
  BY <1>1, <1>2, TypeCorrect, RotationRevokes, PTL DEF Spec, SingleUseInv

(***************************************************************************)
(* Requests that do overlap: how far the exchange of a token can go wrong  *)
(***************************************************************************)

Successors(s) == {t \in Sid : session[t].parent = s}

(* The requests past the lookup of s, about to exchange it.                *)
Exchanging(s) ==
    {p \in Proc : op[p].pc \in {"findUser", "rotate"} /\ op[p].sid = s}

(* A refresh token is exchanged at most as often as requests overlap.      *)
FewSuccessors == \A s \in Sid : Cardinality(Successors(s)) <= Cardinality(Proc)

(* An exchange under way counts like one that is done.                     *)
ReuseInv ==
    \A s \in Sid :
        Cardinality(Successors(s)) + Cardinality(Exchanging(s)) <= Cardinality(Proc)

LEMMA ReuseCounts ==
    ASSUME IsFiniteSet(Proc), NEW s
    PROVE  /\ IsFiniteSet(Successors(s)) /\ Cardinality(Successors(s)) \in Nat
           /\ IsFiniteSet(Successors(s))' /\ Cardinality(Successors(s))' \in Nat
           /\ IsFiniteSet(Exchanging(s)) /\ Cardinality(Exchanging(s)) \in Nat
           /\ IsFiniteSet(Exchanging(s))' /\ Cardinality(Exchanging(s))' \in Nat
           /\ Cardinality(Exchanging(s))' <= Cardinality(Proc)
           /\ Cardinality(Proc) \in Nat
<1>1. MaxSession \in Nat /\ Successors(s) \in SUBSET (1..MaxSession)
      /\ Successors(s)' \in SUBSET (1..MaxSession)
  BY DEF Successors, Sid
<1>2. Exchanging(s) \in SUBSET Proc /\ Exchanging(s)' \in SUBSET Proc
  BY DEF Exchanging
<1> HIDE DEF Successors, Exchanging
<1>3. QED  BY <1>1, <1>2, PartOfInterval, FS_Subset, FS_CardinalityType

LEMMA ReuseStep ==
    ASSUME IsFiniteSet(Proc), TInv, TInv', RotatedIsRevoked, ReuseInv, RowsChange,
           \A p \in Proc : RequestMove(p)
    PROVE  ReuseInv'
<1> SUFFICES ASSUME NEW s \in Sid
             PROVE  Cardinality(Successors(s))' + Cardinality(Exchanging(s))'
                       <= Cardinality(Proc)
  BY DEF ReuseInv
<1>1. Cardinality(Successors(s)) + Cardinality(Exchanging(s)) <= Cardinality(Proc)
  BY DEF ReuseInv
<1>2. CASE \A t \in Sid : RowKept(t)
  <2>1. Successors(s)' = Successors(s)
    BY <1>2 DEF Successors, RowKept
  <2>2. CASE Live(s)
    <3>1. Successors(s) = {}
      BY <2>2 DEF Successors, RotatedIsRevoked, Live, Sid
    <3>2. Cardinality(Successors(s))' = 0
      BY <2>1, <3>1, FS_EmptySet
    <3>3. QED  BY <3>2, ReuseCounts
  <2>3. CASE ~Live(s)
    <3>1. Exchanging(s)' \subseteq Exchanging(s)
      BY <2>3 DEF Exchanging, RequestMove
    <3>2. Cardinality(Exchanging(s))' <= Cardinality(Exchanging(s))
      BY <3>1, ReuseCounts, FS_Subset
    <3>3. QED  BY <1>1, <2>1, <3>2, ReuseCounts
  <2>4. QED  BY <2>2, <2>3
<1>3. ASSUME NEW p \in Proc, op'[p].pc \in {"list", "idle"},
             issued + 1 \in Sid, RowInserted(issued + 1, p),
             \A t \in Sid : t # issued + 1 => RowKept(t)
      PROVE  Cardinality(Successors(s))' + Cardinality(Exchanging(s))'
                <= Cardinality(Proc)
  <2> DEFINE n == issued + 1
  <2>1. Exchanging(s)' \subseteq Exchanging(s) \ {p}
    <3>1. ASSUME NEW q \in Proc, op'[q].pc \in {"findUser", "rotate"}
          PROVE  op'[q] = op[q] /\ q # p
      BY <1>3, <3>1, OthersStay
    <3>2. QED  BY <3>1 DEF Exchanging
  <2>2. \A t \in Sid : t # n => session'[t].parent = session[t].parent
    BY <1>3 DEF RowKept
  <2>3. session[n].parent = 0
    BY <1>3 DEF TInv, Types, RowsExist
  <2>4. CASE session'[n].parent = s
    <3>1. p \in Exchanging(s)
      BY <1>3, <2>4 DEF RowInserted, Exchanging, Sid
    <3>2. Successors(s)' = Successors(s) \cup {n} /\ n \notin Successors(s)
      BY <1>3, <2>2, <2>3, <2>4 DEF Successors, Sid
    <3>3. Cardinality(Successors(s))' = Cardinality(Successors(s)) + 1
      BY <3>2, ReuseCounts, FS_AddElement
    <3>4. Cardinality(Exchanging(s) \ {p}) = Cardinality(Exchanging(s)) - 1
          /\ IsFiniteSet(Exchanging(s) \ {p})
      BY <3>1, ReuseCounts, FS_RemoveElement
    <3>5. Cardinality(Exchanging(s))' <= Cardinality(Exchanging(s)) - 1
      BY <2>1, <3>4, FS_Subset
    <3>6. QED  BY <1>1, <3>3, <3>5, ReuseCounts
  <2>5. CASE session'[n].parent # s
    <3>1. Successors(s)' = Successors(s)
      BY <1>3, <2>2, <2>3, <2>5 DEF Successors, Sid
    <3>2. Cardinality(Exchanging(s))' <= Cardinality(Exchanging(s))
      <4>1. Exchanging(s)' \subseteq Exchanging(s)
        BY <2>1
      <4>2. QED  BY <4>1, ReuseCounts, FS_Subset
    <3>3. QED  BY <1>1, <3>1, <3>2, ReuseCounts
  <2>6. QED  BY <2>4, <2>5
<1>4. QED  BY <1>2, <1>3 DEF RowsChange

(* However refreshes of it overlap, a refresh token has at most as many    *)
(* successors as requests can be in progress together: whoever comes later *)
(* finds it revoked.                                                       *)
THEOREM OverlapBoundsReuse ==
    ASSUME IsFiniteSet(Proc)
    PROVE  Spec => []FewSuccessors
<1>1. Init => ReuseInv
  <2> SUFFICES ASSUME Init, NEW s \in Sid
               PROVE  Cardinality(Successors(s)) + Cardinality(Exchanging(s))
                         <= Cardinality(Proc)
    BY DEF ReuseInv
  <2>1. Successors(s) = {} /\ Exchanging(s) = {}
    BY DEF Init, Successors, Exchanging, NoRow, IdleOp, Request, Sid
  <2>2. QED  BY <2>1, FS_EmptySet, ReuseCounts
<1>2. TInv /\ TInv' /\ RotatedIsRevoked /\ ReuseInv /\ [Next]_vars => ReuseInv'
  BY OneRowPerStep, RequestMoves, ReuseStep
<1>3. ReuseInv => FewSuccessors
  BY ReuseCounts DEF ReuseInv, FewSuccessors
<1>4. QED
  BY <1>1, <1>2, <1>3, TypeCorrect, RotationRevokes, PTL DEF Spec

(* What is left of a list of sessions without its surplus fits the cap.    *)
LEMMA SurplusLeavesTheCap ==
    ASSUME NEW A \in SUBSET Sid
    PROVE  Cardinality(A \ Surplus(A)) <= MaxPerUser
<1> DEFINE K == A \ Surplus(A)
<1>1. MaxSession \in Nat /\ MaxPerUser \in Nat \ {0}
      /\ A \in SUBSET (1..MaxSession) /\ K \in SUBSET A
  BY DEF Sid
<1>2. CASE K = {}
  <2>1. Cardinality(K) = 0
    BY <1>2, FS_EmptySet
  <2>2. QED  BY <1>1, <2>1
<1>3. CASE K # {}
  <2>1. PICK m \in K : \A t \in K : m <= t
    <3> HIDE DEF K
    <3>1. K \in SUBSET Nat
      BY <1>1
    <3>2. QED  BY <1>3, <3>1, LeastElement
  <2> DEFINE newer == {t \in A : t > m}
  <2>2. newer \in SUBSET (1..MaxSession) /\ K \ {m} \in SUBSET newer
    <3>1. \A t \in K \ {m} : t \in A /\ t > m
      <4> HIDE DEF K
      <4>1. QED  BY <1>1, <2>1
    <3>2. QED  BY <1>1, <3>1
  <2>3. ~(Cardinality(newer) >= MaxPerUser)
    BY <2>1 DEF Surplus
  <2> HIDE DEF newer
  <2>4. /\ Cardinality(newer) \in Nat /\ Cardinality(K \ {m}) \in Nat
        /\ Cardinality(K \ {m}) <= Cardinality(newer)
    BY <1>1, <2>2, PartOfInterval
  <2>5. IsFiniteSet(K) /\ Cardinality(K) \in Nat
    <3> HIDE DEF K
    <3>1. QED  BY <1>1, PartOfInterval
  <2>6. Cardinality(K \ {m}) = Cardinality(K) - 1
    BY <2>1, <2>5, FS_RemoveElement
  <2> HIDE DEF K
  <2>7. Cardinality(K) <= MaxPerUser
    BY <1>1, <2>3, <2>4, <2>5, <2>6
  <2>8. QED  BY <2>7 DEF K
<1>4. QED  BY <1>2, <1>3

(* The active sessions of u that are as old as the row n. *)
UpTo(u, n) == {s \in ActiveOf(u) : s <= n}

LEMMA FewerUpTo ==
    ASSUME TInv, NEW u \in User, NEW n \in Sid, NEW S, NEW T,
           UpTo(u, n)' \ T \subseteq UpTo(u, n) \ S,
           Cardinality(UpTo(u, n) \ S) <= MaxPerUser
    PROVE  Cardinality(UpTo(u, n)' \ T) <= MaxPerUser
<1> DEFINE before == UpTo(u, n) \ S
           after  == UpTo(u, n)' \ T
<1>1. MaxSession \in Nat /\ before \in SUBSET (1..MaxSession)
      /\ after \in SUBSET before
  BY DEF UpTo, ActiveOf, Sid
<1> HIDE DEF before, after
<1>2. /\ Cardinality(before) \in Nat /\ Cardinality(after) \in Nat
      /\ Cardinality(after) <= Cardinality(before)
  BY <1>1, PartOfInterval
<1>3. QED  BY <1>2 DEF before, after

(* No step of any request brings an old session back: what it inserts is   *)
(* younger than every row there is.                                        *)
LEMMA UpToShrinks ==
    ASSUME TInv, RowsChange, NEW u \in User, NEW n \in Sid,
           session[n].status # "none"
    PROVE  UpTo(u, n)' \subseteq UpTo(u, n) /\ session'[n].status # "none"
<1>1. ASSUME NEW s \in Sid, s <= n PROVE RowKept(s)
  <2>1. n <= issued
    BY DEF TInv, RowsExist
  <2>2. s # issued + 1
    BY <1>1, <2>1 DEF TInv, Types, Sid
  <2>3. QED  BY <2>2 DEF RowsChange
<1>2. ASSUME NEW s \in Sid, s <= n, session'[s].status = "live",
             session'[s].user = u, ~session'[s].expired
      PROVE  s \in ActiveOf(u)
  <2>1. RowKept(s)
    BY <1>1, <1>2
  <2>2. QED  BY <1>2, <2>1 DEF RowKept, ActiveOf, Live, TInv, Types, Row
<1>3. RowKept(n)
  BY <1>1 DEF Sid
<1>4. QED  BY <1>2, <1>3 DEF UpTo, ActiveOf, Live, RowKept

LEMMA EvictShrinks ==
    ASSUME TInv, NEW u \in User, NEW n \in Sid, NEW s \in Sid,
           session' = RevokedIn({s})
    PROVE  UpTo(u, n)' \subseteq UpTo(u, n) \ {s}
<1>1. \A t \in Sid :
        /\ session'[t].user = session[t].user
        /\ session'[t].expired = session[t].expired
        /\ session'[t].status = IF t \in {s} /\ session[t].status = "live"
                                THEN "revoked" ELSE session[t].status
  BY RevokedInRows DEF TInv
<1>2. QED  BY <1>1 DEF UpTo, ActiveOf, Live

(* Whoever has its row has it for good, and what it has not yet evicted of *)
(* the sessions up to that row fits the cap.                               *)
EnforceInv ==
    \A p \in Proc :
        /\ op[p].pc \in {"list", "evict"} =>
              op[p].sid \in Sid /\ session[op[p].sid].status # "none"
        /\ op[p].pc = "evict" =>
              Cardinality(UpTo(op[p].user, op[p].sid) \ op[p].evict) <= MaxPerUser

LEMMA ListedUpTo ==
    ASSUME NEW u \in User, NEW n \in Sid
    PROVE  Cardinality(UpTo(u, n) \ Surplus(ActiveOf(u))) <= MaxPerUser
<1> DEFINE left == ActiveOf(u) \ Surplus(ActiveOf(u))
           part == UpTo(u, n) \ Surplus(ActiveOf(u))
<1>1. Cardinality(left) <= MaxPerUser
  <2>1. ActiveOf(u) \in SUBSET Sid
    BY DEF ActiveOf
  <2>2. QED  BY <2>1, SurplusLeavesTheCap
<1>2. MaxSession \in Nat /\ left \in SUBSET (1..MaxSession) /\ part \in SUBSET left
  BY DEF UpTo, ActiveOf, Sid
<1> HIDE DEF left, part
<1>3. Cardinality(left) \in Nat /\ Cardinality(part) \in Nat
      /\ Cardinality(part) <= Cardinality(left)
  BY <1>2, PartOfInterval
<1>4. QED  BY <1>1, <1>3 DEF part

LEMMA EnforceStep ==
    ASSUME TInv, TInv', EnforceInv, RowsChange, NEW p \in Proc, RequestMove(p)
    PROVE  /\ op'[p].pc \in {"list", "evict"} =>
                 op'[p].sid \in Sid /\ session'[op'[p].sid].status # "none"
           /\ \A u, n : u = op'[p].user /\ n = op'[p].sid /\ op'[p].pc = "evict"
                 => Cardinality(UpTo(u, n)' \ op'[p].evict) <= MaxPerUser
<1>1. CASE op'[p].pc \notin {"list", "evict"}
  BY <1>1
<1>2. CASE op'[p].pc = "list" /\ op'[p] # op[p]
  <2>1. op'[p].sid \in Sid /\ op'[p].sid = issued'
    BY <1>2 DEF RequestMove
  <2>2. session'[op'[p].sid].status # "none"
    <3>1. op'[p].sid <= issued'
      BY <2>1 DEF Sid
    <3>2. QED  BY <2>1, <3>1 DEF TInv, RowsExist
  <2>3. QED  BY <1>2, <2>1, <2>2
<1>3. ASSUME NEW u, NEW n, u = op[p].user, n = op[p].sid,
             op[p].pc \in {"list", "evict"},
             op'[p].user = u, op'[p].sid = n,
             op'[p].pc \in {"list", "evict"},
             op'[p].pc = "evict" =>
                 Cardinality(UpTo(u, n)' \ op'[p].evict) <= MaxPerUser
      PROVE  /\ op'[p].pc \in {"list", "evict"} =>
                   op'[p].sid \in Sid /\ session'[op'[p].sid].status # "none"
             /\ \A v, m : v = op'[p].user /\ m = op'[p].sid /\ op'[p].pc = "evict"
                   => Cardinality(UpTo(v, m)' \ op'[p].evict) <= MaxPerUser
  <2>1. u \in User /\ n \in Sid /\ session[n].status # "none"
    BY <1>3 DEF EnforceInv, TInv, RequestOwned
  <2>2. session'[n].status # "none"
    BY <2>1, UpToShrinks
  <2>3. QED  BY <1>3, <2>1, <2>2
<1>4. ASSUME NEW u, NEW n, u = op[p].user, n = op[p].sid,
             op[p].pc \in {"list", "evict"}
      PROVE  /\ u \in User /\ n \in Sid
             /\ UpTo(u, n)' \subseteq UpTo(u, n)
             /\ op[p].pc = "evict" =>
                    Cardinality(UpTo(u, n) \ op[p].evict) <= MaxPerUser
  <2>1. u \in User /\ n \in Sid /\ session[n].status # "none"
    BY <1>4 DEF EnforceInv, TInv, RequestOwned
  <2>2. UpTo(u, n)' \subseteq UpTo(u, n)
    BY <2>1, UpToShrinks
  <2>3. QED  BY <1>4, <2>1, <2>2 DEF EnforceInv
<1>5. CASE op'[p] = op[p] /\ op[p].pc \in {"list", "evict"}
  <2>1. PICK u, n : u = op[p].user /\ n = op[p].sid
    OBVIOUS
  <2>2. op[p].pc = "evict" => Cardinality(UpTo(u, n)' \ op[p].evict) <= MaxPerUser
    <3> SUFFICES ASSUME op[p].pc = "evict"
                 PROVE  Cardinality(UpTo(u, n)' \ op[p].evict) <= MaxPerUser
      OBVIOUS
    <3>1. UpTo(u, n)' \ op[p].evict \subseteq UpTo(u, n) \ op[p].evict
      BY <1>4, <2>1
    <3>2. QED  BY <1>4, <2>1, <3>1, FewerUpTo
  <2>3. QED  BY <1>3, <1>5, <2>1, <2>2
<1>6. CASE /\ op'[p].pc = "evict" /\ op[p].pc = "list"
           /\ op'[p].user = op[p].user /\ op'[p].sid = op[p].sid
           /\ op'[p].evict = Surplus(ActiveOf(op[p].user))
  <2>1. PICK u, n : u = op[p].user /\ n = op[p].sid
    OBVIOUS
  <2>2. Cardinality(UpTo(u, n)' \ op'[p].evict) <= MaxPerUser
    <3>1. UpTo(u, n)' \ op'[p].evict \subseteq UpTo(u, n) \ Surplus(ActiveOf(u))
      BY <1>4, <1>6, <2>1
    <3>2. u \in User /\ n \in Sid
      BY <1>4, <1>6, <2>1
    <3>3. QED  BY <3>1, <3>2, ListedUpTo, FewerUpTo
  <2>3. QED  BY <1>3, <1>6, <2>1, <2>2
<1>7. CASE /\ op'[p].pc = "evict" /\ op[p].pc = "evict"
           /\ op'[p].user = op[p].user /\ op'[p].sid = op[p].sid
           /\ \E s \in op[p].evict :
                 /\ op'[p].evict = op[p].evict \ {s}
                 /\ session' = RevokedIn({s})
  <2>1. PICK u, n : u = op[p].user /\ n = op[p].sid
    OBVIOUS
  <2>2. PICK s \in op[p].evict : op'[p].evict = op[p].evict \ {s}
                                 /\ session' = RevokedIn({s})
    BY <1>7
  <2>3. s \in Sid /\ u \in User /\ n \in Sid
    BY <1>4, <1>7, <2>1 DEF TInv, Types, Op
  <2>4. UpTo(u, n)' \ op'[p].evict \subseteq UpTo(u, n) \ op[p].evict
    BY <2>2, <2>3, EvictShrinks
  <2>5. Cardinality(UpTo(u, n)' \ op'[p].evict) <= MaxPerUser
    <3>1. Cardinality(UpTo(u, n) \ op[p].evict) <= MaxPerUser
      BY <1>4, <1>7, <2>1
    <3>2. QED  BY <2>3, <2>4, <3>1, FewerUpTo
  <2>6. QED  BY <1>3, <1>7, <2>1, <2>5
<1>8. QED  BY <1>1, <1>2, <1>5, <1>6, <1>7 DEF RequestMove

(* However requests overlap, abort, rotate and revoke, a sign-in that runs *)
(* to its end leaves at most MaxPerUser active sessions up to its own: the *)
(* list it works off may be stale, but no step brings an old session back, *)
(* and all it inserts is younger.                                          *)
THEOREM CapIsEnforced == Spec => SignInEnforcesCap
<1> DEFINE EnforceCap ==
        \A p \in Proc, u \in User :
            /\ ListActive(p) \/ EvictOldest(p)
            /\ op[p].user = u /\ op'[p].pc = "idle"
            => Cardinality({s \in ActiveOf(u)' : s <= op[p].sid}) <= MaxPerUser
<1>1. Init => EnforceInv
  BY DEF Init, EnforceInv, IdleOp, Request
<1>2. TInv /\ TInv' /\ EnforceInv /\ [Next]_vars => EnforceInv'
  <2> SUFFICES ASSUME TInv, TInv', EnforceInv, [Next]_vars, NEW p \in Proc
               PROVE  /\ op'[p].pc \in {"list", "evict"} =>
                            op'[p].sid \in Sid /\ session'[op'[p].sid].status # "none"
                      /\ op'[p].pc = "evict" =>
                            Cardinality(UpTo(op[p].user, op[p].sid)' \ op'[p].evict)
                               <= MaxPerUser
    BY DEF EnforceInv
  <2>1. PICK u, n : u = op'[p].user /\ n = op'[p].sid
    OBVIOUS
  <2>2. UpTo(op[p].user, op[p].sid)' = UpTo(u, n)'
    BY <2>1 DEF UpTo, ActiveOf, Live
  <2>3. RowsChange /\ RequestMove(p)
    BY OneRowPerStep, RequestMoves
  <2>4. QED  BY <2>1, <2>2, <2>3, EnforceStep
<1>3. TInv /\ EnforceInv /\ [Next]_vars => [EnforceCap]_vars
  <2> SUFFICES ASSUME TInv, EnforceInv, NEW p \in Proc, NEW u \in User,
                      ListActive(p) \/ EvictOldest(p),
                      op[p].user = u, op'[p].pc = "idle"
               PROVE  Cardinality({s \in ActiveOf(u)' : s <= op[p].sid}) <= MaxPerUser
    OBVIOUS
  <2>0. PICK n \in Sid : n = op[p].sid
    BY DEF ListActive, EvictOldest, EnforceInv
  <2>1. CASE ListActive(p)
    <3> DEFINE r == Request("evict", u, op[p].sid, 0, Surplus(ActiveOf(u)))
    <3>1. ~Become(p, r)
      BY DEF Become, Request, TInv, Types
    <3>2. Surplus(ActiveOf(u)) = {} /\ session' = session
      BY <2>1, <3>1 DEF ListActive
    <3>3. {s \in ActiveOf(u)' : s <= n} = UpTo(u, n) \ Surplus(ActiveOf(u))
      BY <3>2 DEF UpTo, ActiveOf, Live
    <3>4. QED  BY <2>0, <3>3, ListedUpTo
  <2>2. CASE EvictOldest(p)
    <3>1. PICK s \in op[p].evict :
             /\ session' = RevokedIn({s})
             /\ IF op[p].evict = {s} THEN Finish(p)
                ELSE Become(p, Request("evict", op[p].user, op[p].sid, 0,
                                       op[p].evict \ {s}))
      BY <2>2 DEF EvictOldest
    <3>2. op[p].evict = {s} /\ s \in Sid /\ op[p].pc = "evict"
      BY <2>2, <3>1 DEF EvictOldest, Become, Request, TInv, Types, Op
    <3>3. UpTo(u, n)' \ {} \subseteq UpTo(u, n) \ op[p].evict
      BY <3>1, <3>2, EvictShrinks
    <3>4. Cardinality(UpTo(u, n) \ op[p].evict) <= MaxPerUser
      BY <2>0, <3>2 DEF EnforceInv
    <3>5. Cardinality(UpTo(u, n)' \ {}) <= MaxPerUser
      BY <3>3, <3>4, FewerUpTo
    <3>6. UpTo(u, n)' \ {} = {s_1 \in ActiveOf(u)' : s_1 <= op[p].sid}
      BY <2>0 DEF UpTo
    <3>7. QED  BY <3>5, <3>6
  <2>3. QED  BY <2>1, <2>2
<1>4. QED
  BY <1>1, <1>2, <1>3, TypeCorrect, PTL DEF Spec, SignInEnforcesCap

LEMMA FewerActive ==
    ASSUME TInv, NEW u \in User, NEW S, NEW T,
           ActiveOf(u)' \ T \subseteq ActiveOf(u) \ S,
           Cardinality(ActiveOf(u) \ S) <= MaxPerUser
    PROVE  Cardinality(ActiveOf(u)' \ T) <= MaxPerUser
<1> DEFINE before == ActiveOf(u) \ S
           after  == ActiveOf(u)' \ T
<1>1. MaxSession \in Nat /\ before \in SUBSET (1..MaxSession)
      /\ after \in SUBSET before
  BY DEF ActiveOf, Sid
<1> HIDE DEF before, after
<1>2. /\ Cardinality(before) \in Nat /\ Cardinality(after) \in Nat
      /\ Cardinality(after) <= Cardinality(before)
  BY <1>1, PartOfInterval
<1>3. QED  BY <1>2 DEF before, after

(* Without overlap, the cap holds once the listed sessions are evicted.    *)
CapInv ==
    \A p \in Proc : op[p].pc = "evict" =>
        Cardinality(ActiveOf(op[p].user) \ op[p].evict) <= MaxPerUser

(* A sign-in that runs to its end leaves at most MaxPerUser active         *)
(* sessions as long as no two requests of one user overlap.                *)
THEOREM CapWithoutOverlap ==
    Spec /\ []NoOverlap => CapAfterSignIn
<1> DEFINE CapStep ==
        \A p \in Proc, u \in User :
            /\ ListActive(p) \/ EvictOldest(p)
            /\ op[p].user = u /\ op'[p].pc = "idle"
            => Cardinality(ActiveOf(u)') <= MaxPerUser
<1>1. Init => CapInv
  BY DEF Init, CapInv, IdleOp, Request
<1>2. ASSUME TInv, NEW u \in User,
             \A s \in Sid : RowKept(s) \/ session'[s].user # u
      PROVE  ActiveOf(u)' \subseteq ActiveOf(u)
  <2> SUFFICES ASSUME NEW s \in Sid, session'[s].status = "live",
                      session'[s].user = u, ~session'[s].expired
               PROVE  s \in ActiveOf(u)
    BY DEF ActiveOf, Live
  <2>1. RowKept(s)
    BY <1>2, Zenon
  <2>2. QED  BY <2>1 DEF RowKept, ActiveOf, Live, TInv, Types, Row
<1>3. ASSUME TInv, NEW u \in User, NEW s \in Sid, session' = RevokedIn({s})
      PROVE  ActiveOf(u)' \subseteq ActiveOf(u) \ {s}
  <2>1. \A t \in Sid :
            session'[t] = IF t = s /\ Live(t) THEN [session[t] EXCEPT !.status = "revoked"]
                          ELSE session[t]
    BY <1>3 DEF RevokedIn
  <2>2. \A t \in Sid : session[t] \in Row
    <3>1. session \in [Sid -> Row]
      BY <1>3 DEF TInv, Types
    <3> QED BY <3>1
  <2> SUFFICES ASSUME NEW t \in Sid, session'[t].status = "live",
                      session'[t].user = u, ~session'[t].expired
               PROVE  t \in ActiveOf(u) /\ t # s
    BY DEF ActiveOf, Live
  <2>3. t # s
    BY <2>1, <2>2 DEF Live, Row
  <2>4. session'[t] = session[t]
    BY <2>1, <2>3
  <2> QED BY <2>3, <2>4 DEF ActiveOf, Live
<1>4. TInv /\ TInv' /\ NoOverlap /\ CapInv /\ [Next]_vars => CapInv'
  <2> SUFFICES ASSUME TInv, TInv', NoOverlap, CapInv, RowsChange,
                      NEW p \in Proc, RequestMove(p), op'[p].pc = "evict",
                      NEW u, u = op'[p].user
               PROVE  Cardinality(ActiveOf(u)' \ op'[p].evict) <= MaxPerUser
    BY OneRowPerStep, RequestMoves DEF CapInv, ActiveOf, Live
  <2>1. u \in User /\ \A s \in Sid : RowKept(s) \/ session'[s].user # u
    <3>1. ASSUME NEW q \in Proc, op'[q].pc \in {"list", "idle"},
                 issued + 1 \in Sid, RowInserted(issued + 1, q)
          PROVE  session'[issued + 1].user # u
      <4>1. op'[p] = op[p]
        BY <3>1, OthersStay
      <4>2. op[q].pc # "idle" /\ p # q
        BY <3>1 DEF RowInserted
      <4>3. QED  BY <3>1, <4>1, <4>2 DEF RowInserted, NoOverlap
    <3>2. QED  BY <3>1 DEF RowsChange, TInv, RequestOwned
  <2>2. CASE op'[p] = op[p]
    BY <1>2, <2>1, <2>2, FewerActive DEF CapInv
  <2>3. CASE /\ op[p].pc = "list" /\ op'[p].user = op[p].user
             /\ op'[p].evict = Surplus(ActiveOf(op[p].user))
    <3>1. ActiveOf(u) \in SUBSET Sid
      BY DEF ActiveOf
    <3>2. Cardinality(ActiveOf(u) \ Surplus(ActiveOf(u))) <= MaxPerUser
      BY <3>1, SurplusLeavesTheCap
    <3>3. ActiveOf(u)' \ op'[p].evict
             \subseteq ActiveOf(u) \ Surplus(ActiveOf(u))
      BY <1>2, <2>1, <2>3
    <3>4. QED  BY <2>1, <3>2, <3>3, FewerActive
  <2>4. CASE /\ op[p].pc = "evict" /\ op'[p].user = op[p].user
             /\ \E s \in op[p].evict :
                   /\ op'[p].evict = op[p].evict \ {s}
                   /\ session' = RevokedIn({s})
    <3>1. PICK s \in op[p].evict : /\ op'[p].evict = op[p].evict \ {s}
                                   /\ session' = RevokedIn({s})
      BY <2>4
    <3>2. s \in Sid
      BY DEF TInv, Types, Op
    <3>3. ActiveOf(u)' \ op'[p].evict \subseteq ActiveOf(u) \ op[p].evict
      BY <1>3, <2>1, <3>1, <3>2
    <3>4. QED  BY <2>1, <2>4, <3>3, FewerActive DEF CapInv
  <2>5. QED  BY <2>2, <2>3, <2>4 DEF RequestMove
<1>5. TInv /\ CapInv /\ [Next]_vars => [CapStep]_vars
  <2> SUFFICES ASSUME TInv, CapInv, NEW p \in Proc, NEW u \in User,
                      ListActive(p) \/ EvictOldest(p),
                      op[p].user = u, op'[p].pc = "idle"
               PROVE  Cardinality(ActiveOf(u)') <= MaxPerUser
    OBVIOUS
  <2>1. CASE ListActive(p)
    <3> DEFINE r == Request("evict", u, op[p].sid, 0, Surplus(ActiveOf(u)))
    <3>1. ~Become(p, r)
      BY DEF Become, Request, TInv, Types
    <3>2. Surplus(ActiveOf(u)) = {} /\ session' = session
      BY <2>1, <3>1 DEF ListActive
    <3>3. ActiveOf(u)' = ActiveOf(u) \ Surplus(ActiveOf(u))
          /\ ActiveOf(u) \in SUBSET Sid
      BY <3>2 DEF ActiveOf, Live
    <3>4. QED  BY <3>3, SurplusLeavesTheCap
  <2>2. CASE EvictOldest(p)
    <3>1. PICK s \in op[p].evict :
             /\ session' = RevokedIn({s})
             /\ IF op[p].evict = {s} THEN Finish(p)
                ELSE Become(p, Request("evict", op[p].user, op[p].sid, 0,
                                       op[p].evict \ {s}))
      BY <2>2 DEF EvictOldest
    <3>2. op[p].evict = {s} /\ s \in Sid /\ op[p].pc = "evict"
      BY <2>2, <3>1 DEF EvictOldest, Become, Request, TInv, Types, Op
    <3>3. ActiveOf(u)' \ {} \subseteq ActiveOf(u) \ op[p].evict
      BY <1>3, <3>1, <3>2
    <3>4. Cardinality(ActiveOf(u)' \ {}) <= MaxPerUser
      BY <3>2, <3>3, FewerActive DEF CapInv
    <3>5. ActiveOf(u)' \ {} = ActiveOf(u)'
      OBVIOUS
    <3>6. QED  BY <3>4, <3>5
  <2>3. QED  BY <2>1, <2>2
<1>6. QED
  BY <1>1, <1>4, <1>5, TypeCorrect, PTL DEF Spec, CapAfterSignIn
=============================================================================
