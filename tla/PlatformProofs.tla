---------------------------- MODULE PlatformProofs ----------------------------
(***************************************************************************)
(* The composition of MCPlatform: every behaviour of the platform is a     *)
(* behaviour of each of its components, so that what is proved of them one *)
(* by one holds of the specification that the run platform checks.         *)
(***************************************************************************)
EXTENDS MCPlatform, ContentProofs, AccessProofs

(***************************************************************************)
(* Sessions comes in by name.  The theorems of SessionsProofs are about    *)
(* the instance S of it; the two instances have the same definitions.      *)
(***************************************************************************)

S == INSTANCE SessionsProofs WITH
    Proc <- Client, status <- userStatus, banned <- userBanned, op <- request

LEMMA SessionsAssumptions == S!NoneAssumption /\ S!BoundAssumption
  BY SessionsAssumption DEF S!NoneAssumption, S!BoundAssumption

LEMMA SameInit == OneClient!Init <=> S!Init
  BY DEF OneClient!Init, S!Init, OneClient!NoRow, S!NoRow, OneClient!Sid, S!Sid,
         OneClient!IdleOp, S!IdleOp, OneClient!Request, S!Request

LEMMA SameBegin == ASSUME NEW p PROVE OneClient!Begin(p) <=> S!Begin(p)
  BY DEF OneClient!Begin, S!Begin, OneClient!CheckAccount, S!CheckAccount,
         OneClient!FindByRefreshHash, S!FindByRefreshHash,
         OneClient!Logout, S!Logout, OneClient!SignInAllowed, S!SignInAllowed,
         OneClient!NextAfterLookup, S!NextAfterLookup,
         OneClient!Delivered, S!Delivered, OneClient!Room, S!Room,
         OneClient!Cardinality, S!Cardinality, OneClient!Live, S!Live,
         OneClient!Become, S!Become, OneClient!Request, S!Request,
         OneClient!Sid, S!Sid

LEMMA SameContinue == ASSUME NEW p PROVE OneClient!Continue(p) <=> S!Continue(p)
  BY DEF OneClient!Continue, S!Continue, OneClient!CreateSession, S!CreateSession,
         OneClient!ListActive, S!ListActive, OneClient!EvictOldest, S!EvictOldest,
         OneClient!FindUser, S!FindUser, OneClient!Rotate, S!Rotate,
         OneClient!RevokeOne, S!RevokeOne, OneClient!RevokeAll, S!RevokeAll,
         OneClient!ActiveOf, S!ActiveOf, OneClient!Surplus, S!Surplus,
         OneClient!RowsOf, S!RowsOf, OneClient!RevokedIn, S!RevokedIn,
         OneClient!NewRow, S!NewRow, OneClient!Live, S!Live,
         OneClient!Finish, S!Finish, OneClient!Become, S!Become,
         OneClient!IdleOp, S!IdleOp, OneClient!Request, S!Request,
         OneClient!Cardinality, S!Cardinality, OneClient!Sid, S!Sid

LEMMA SameAccountStep ==
    ASSUME NEW u PROVE OneClient!AccountStep(u) <=> S!AccountStep(u)
  BY DEF OneClient!AccountStep, S!AccountStep, OneClient!SoftDelete, S!SoftDelete,
         OneClient!Restore, S!Restore, OneClient!Ban, S!Ban,
         OneClient!Unban, S!Unban, OneClient!Purge, S!Purge,
         OneClient!RowsOf, S!RowsOf, OneClient!RevokedIn, S!RevokedIn,
         OneClient!Live, S!Live, OneClient!Sid, S!Sid

LEMMA SameNext == OneClient!Next <=> S!Next
  <1>1. \A p : OneClient!Abort(p) <=> S!Abort(p)
    BY DEF OneClient!Abort, S!Abort, OneClient!Finish, S!Finish,
           OneClient!Become, S!Become, OneClient!IdleOp, S!IdleOp,
           OneClient!Request, S!Request
  <1>2. \A s : OneClient!Expire(s) <=> S!Expire(s)
    BY DEF OneClient!Expire, S!Expire, OneClient!Live, S!Live
  <1> QED BY <1>1, <1>2, SameBegin, SameContinue, SameAccountStep
          DEF OneClient!Next, S!Next, OneClient!Sid, S!Sid

LEMMA SameSpec == OneClient!Spec <=> S!Spec
  <1>1. [OneClient!Next]_(OneClient!vars) <=> [S!Next]_(S!vars)
    BY SameNext DEF OneClient!vars, S!vars
  <1> QED BY <1>1, SameInit, PTL DEF OneClient!Spec, S!Spec

(***************************************************************************)
(* The composition                                                         *)
(***************************************************************************)

(* Where the components start. Members that owe nothing are a case of      *)
(* SettleInit: neither list has an entry.                                  *)
LEMMA PlatformStart ==
    PlatformInit =>
        /\ Init /\ MediaInit /\ SettleInit /\ BalancesInit /\ SubscriptionInit
        /\ LocalInit /\ LoginInit /\ CodesInit /\ KeyringInit /\ OneClient!Init
  <1> SUFFICES ASSUME PlatformInit, turn # "settle" PROVE SettleInit
    BY DEF PlatformInit
  <1>1. /\ owed = [m \in Member |-> 0] /\ left = owed
        /\ creditors = <<>> /\ debtors = <<>> /\ i = 1 /\ j = 1 /\ plan = <<>>
    BY DEF PlatformInit
  <1>2. owed \in [Member -> -MaxCents .. MaxCents]
    BY <1>1, MaxCentsAssumption
  <1>3. {m \in Member : owed[m] > 0} = {} /\ {m \in Member : owed[m] < 0} = {}
    BY <1>1
  <1>4. 1 .. Cardinality({}) = {} /\ <<>> \in [1 .. Cardinality({}) -> {}]
    BY FS_EmptySet
  <1>5. /\ creditors \in Sortings({m \in Member : owed[m] > 0}, LAMBDA a, b : owed[a] > owed[b])
        /\ debtors \in Sortings({m \in Member : owed[m] < 0}, LAMBDA a, b : owed[a] < owed[b])
    BY <1>1, <1>3, <1>4 DEF Sortings
  <1> QED BY <1>1, <1>2, <1>5 DEF SettleInit

(* A step of the platform is a step of one component, which the others do  *)
(* not see.                                                                *)
LEMMA PlatformStep ==
    [PlatformNext]_platformVars =>
        /\ [Next]_vars /\ [MediaNext]_mediaVars /\ [SettleNext]_settleVars
        /\ [BalancesNext]_balanceVars /\ [SubscriptionNext]_subscriptionVars
        /\ [LocalNext]_localVars /\ [LoginNext]_guardVars /\ [CodesNext]_codeVars
        /\ [KeyringNext]_keyringVars /\ [OneClient!Next]_sessionVars
  BY DEF PlatformNext, platformVars, BreakerTurn, MediaTurn, SettleTurn,
         BalancesTurn, SubscriptionTurn, BusTurn, GuardTurn, CodesTurn,
         KeyringTurn, SessionsTurn

(* Every behaviour of the platform is one of each component: none of them  *)
(* can disturb another, whatever is taken in turn.                         *)
THEOREM PlatformIsEveryComponent ==
    PlatformSpec =>
        /\ Spec /\ MediaSpec /\ SettleSpec /\ SubscriptionSpec /\ LocalSpec
        /\ LoginSpec /\ CodesSpec /\ KeyringSpec /\ OneClient!Spec
        /\ BalancesInit /\ [][BalancesNext]_balanceVars
  <1>1. [OneClient!Next]_sessionVars => [OneClient!Next]_(OneClient!vars)
    BY DEF sessionVars, OneClient!vars
  <1> QED BY <1>1, PlatformStart, PlatformStep, PTL
          DEF PlatformSpec, Spec, MediaSpec, SettleSpec, SubscriptionSpec,
              LocalSpec, LoginSpec, CodesSpec, KeyringSpec, OneClient!Spec

(* Type correctness of the whole platform, for every number of users,      *)
(* clients, calls, assets, members, deliveries, messages and keys.         *)
THEOREM PlatformTypes == PlatformSpec => []PlatformTypeOK
  <1>1. Spec => []TypeOK
    BY BreakerInvariant, PTL DEF BInv
  <1>2. MediaSpec => []MediaTypeOK
    BY MediaInvariant, PTL DEF MediaInv
  <1>3. BalancesInit /\ [][BalancesNext]_balanceVars => []BalancesTypeOK
    <2>1. BalancesInit => BalancesTypeOK
      BY DEF BalancesInit, BalancesTypeOK, NoEntry, Entry
    <2> QED BY <2>1, BalancesTypeStep, PTL
  <1>4. LoginSpec => []LoginTypeOK
    BY GuardInvariant, PTL DEF GuardInv
  <1>5. CodesSpec => []CodesTypeOK
    BY CodesInvariant, PTL DEF CodesInv
  <1>6. OneClient!Spec => []OneClient!TypeOK
    <2>1. S!TypeOK => OneClient!TypeOK
      BY DEF S!TypeOK, OneClient!TypeOK, S!Op, OneClient!Op, S!Row, OneClient!Row,
             S!RowStatus, OneClient!RowStatus, S!Sid, OneClient!Sid
    <2> QED BY <2>1, SameSpec, SessionsAssumptions, S!TypeOKHolds, PTL
  <1> QED BY <1>1, <1>2, <1>3, <1>4, <1>5, <1>6, PlatformIsEveryComponent, SettleTypes,
             SubscriptionTypes, LocalTypeInvariant, KeyringTypes, PTL
          DEF PlatformTypeOK

(* The other safety properties of the run hold of the platform as a whole; *)
(* the role follows Stripe for a user with one subscription.               *)
THEOREM PlatformSafety ==
    ASSUME \A r, s \in Sub : r = s
    PROVE  PlatformSpec =>
               /\ [](ClosedMeansHealthy /\ ReadyHasBytes /\ PlanSettles /\ PlanIsShort)
               /\ [](RoleFollowsStripe /\ GuessesAreBounded /\ CodesAreBounded)
               /\ TripNeedsStreak /\ ImplementsIdeal
               /\ LocalImplementsPort /\ SpreadKeysStay
  <1>1. SubscriptionSpec => []RoleFollowsStripe
    BY RoleIsRight
  <1> QED BY <1>1, PlatformIsEveryComponent, ClosedIsHealthy, ReadyIsThere, EveryPlanSettles,
             FewTransfers, GuessesBounded, CodesBounded, TripsAreEarned,
             TidyIsIdeal, LocalBusIsPort, SpreadKeysAreKept, PTL

(* One client never overlaps with itself.                                  *)
LEMMA OneClientNoOverlap ==
    ASSUME \A c, d \in Client : c = d PROVE S!NoOverlap
  BY DEF S!NoOverlap

(* With one client, a refresh token is exchanged at most once.             *)
THEOREM OneClientSingleUse ==
    ASSUME \A c, d \in Client : c = d
    PROVE  PlatformSpec => []TokenIsSingleUse
  <1>1. S!TokenIsSingleUse => TokenIsSingleUse
    BY DEF S!TokenIsSingleUse, TokenIsSingleUse, OneClient!TokenIsSingleUse,
           S!Sid, OneClient!Sid
  <1>2. []S!NoOverlap
    BY OneClientNoOverlap, PTL
  <1> QED BY <1>1, <1>2, SameSpec, SessionsAssumptions, PlatformIsEveryComponent,
             S!SingleUseWithoutOverlap, PTL

(* With one client, a sign-in that runs to its end leaves at most          *)
(* MaxPerUser active sessions.                                             *)
THEOREM OneClientCap ==
    ASSUME \A c, d \in Client : c = d
    PROVE  PlatformSpec => CapAfterSignIn
  <1> DEFINE Capped ==
                \A p \in Client, u \in User :
                    /\ S!ListActive(p) \/ S!EvictOldest(p)
                    /\ request[p].user = u /\ request'[p].pc = "idle"
                    => S!Cardinality(S!ActiveOf(u)') <= MaxPerUser
             OneCapped ==
                \A p \in Client, u \in User :
                    /\ OneClient!ListActive(p) \/ OneClient!EvictOldest(p)
                    /\ request[p].user = u /\ request'[p].pc = "idle"
                    => OneClient!Cardinality(OneClient!ActiveOf(u)') <= MaxPerUser
  <1>1. []S!NoOverlap
    BY OneClientNoOverlap, PTL
  <1>2. Capped <=> OneCapped
    BY DEF OneClient!ListActive, S!ListActive, OneClient!EvictOldest, S!EvictOldest,
           OneClient!ActiveOf, S!ActiveOf, OneClient!Surplus, S!Surplus,
           OneClient!RevokedIn, S!RevokedIn, OneClient!Live, S!Live,
           OneClient!Finish, S!Finish, OneClient!Become, S!Become,
           OneClient!IdleOp, S!IdleOp, OneClient!Request, S!Request,
           OneClient!Cardinality, S!Cardinality, OneClient!Sid, S!Sid
  <1>3. [Capped]_(S!vars) => [OneCapped]_(OneClient!vars)
    BY <1>2 DEF S!vars, OneClient!vars
  <1> HIDE DEF Capped, OneCapped
  <1>4. S!CapAfterSignIn <=> [][Capped]_(S!vars)
    BY DEF S!CapAfterSignIn, Capped
  <1>5. CapAfterSignIn <=> [][OneCapped]_(OneClient!vars)
    BY DEF CapAfterSignIn, OneClient!CapAfterSignIn, OneCapped
  <1> QED BY <1>1, <1>3, <1>4, <1>5, SameSpec, SessionsAssumptions,
             PlatformIsEveryComponent, S!CapWithoutOverlap, PTL
=============================================================================
