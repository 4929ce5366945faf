----------------------------- MODULE MCPlatform -----------------------------
(***************************************************************************)
(* Components of the API that share no state, checked side by side in one  *)
(* run. Since none can see another, interleaving them would show nothing:  *)
(* turn, chosen at the start, says which of them moves in a behaviour.     *)
(***************************************************************************)
EXTENDS BreakerRefinement, Media, SettleUp, TripBalances, Subscription,
        LocalBus, LoginGuard, LoginCodes, Keyring

CONSTANTS User, Client, MaxPerUser, MaxSession, MaxEra

VARIABLES
    turn,
    session, issued, userStatus, userBanned, request, era   \* of Sessions

(* Sessions with one request at a time. *)
sessionVars == <<session, issued, userStatus, userBanned, request, era>>

OneClient == INSTANCE Sessions WITH
    Proc <- Client, status <- userStatus, banned <- userBanned, op <- request

(* What Sessions assumes of the constants that this module gives it. *)
ASSUME SessionsAssumption ==
    /\ None \notin User
    /\ MaxPerUser \in Nat \ {0} /\ MaxSession \in Nat /\ MaxEra \in Nat

platformVars ==
    <<turn, vars, mediaVars, settleVars, balanceVars, subscriptionVars,
      localVars, guardVars, codeVars, keyringVars, sessionVars>>

Component == {"breaker", "media", "settle", "balances", "subscription",
              "bus", "guard", "codes", "keyring", "sessions"}

(* The many initial states of SettleUp and Subscription are wanted only    *)
(* where those move.                                                       *)
PlatformInit ==
    /\ turn \in Component
    /\ Init /\ MediaInit /\ BalancesInit /\ LocalInit
    /\ LoginInit /\ CodesInit /\ KeyringInit /\ OneClient!Init
    /\ SubscriptionInit /\ (turn # "subscription" => role = "user")
    /\ IF turn = "settle"
       THEN SettleInit
       ELSE /\ owed = [m \in Member |-> 0] /\ left = owed
            /\ creditors = <<>> /\ debtors = <<>> /\ i = 1 /\ j = 1 /\ plan = <<>>

BreakerTurn ==
    /\ turn = "breaker" /\ Next
    /\ UNCHANGED <<mediaVars, settleVars, balanceVars, subscriptionVars,
                   localVars, guardVars, codeVars, keyringVars, sessionVars>>

MediaTurn ==
    /\ turn = "media" /\ MediaNext
    /\ UNCHANGED <<vars, settleVars, balanceVars, subscriptionVars,
                   localVars, guardVars, codeVars, keyringVars, sessionVars>>

SettleTurn ==
    /\ turn = "settle" /\ SettleNext
    /\ UNCHANGED <<vars, mediaVars, balanceVars, subscriptionVars,
                   localVars, guardVars, codeVars, keyringVars, sessionVars>>

BalancesTurn ==
    /\ turn = "balances" /\ BalancesNext
    /\ UNCHANGED <<vars, mediaVars, settleVars, subscriptionVars,
                   localVars, guardVars, codeVars, keyringVars, sessionVars>>

SubscriptionTurn ==
    /\ turn = "subscription" /\ SubscriptionNext
    /\ UNCHANGED <<vars, mediaVars, settleVars, balanceVars,
                   localVars, guardVars, codeVars, keyringVars, sessionVars>>

BusTurn ==
    /\ turn = "bus" /\ LocalNext
    /\ UNCHANGED <<vars, mediaVars, settleVars, balanceVars, subscriptionVars,
                   guardVars, codeVars, keyringVars, sessionVars>>

GuardTurn ==
    /\ turn = "guard" /\ LoginNext
    /\ UNCHANGED <<vars, mediaVars, settleVars, balanceVars, subscriptionVars,
                   localVars, codeVars, keyringVars, sessionVars>>

CodesTurn ==
    /\ turn = "codes" /\ CodesNext
    /\ UNCHANGED <<vars, mediaVars, settleVars, balanceVars, subscriptionVars,
                   localVars, guardVars, keyringVars, sessionVars>>

KeyringTurn ==
    /\ turn = "keyring" /\ KeyringNext
    /\ UNCHANGED <<vars, mediaVars, settleVars, balanceVars, subscriptionVars,
                   localVars, guardVars, codeVars, sessionVars>>

SessionsTurn ==
    /\ turn = "sessions" /\ OneClient!Next
    /\ UNCHANGED <<vars, mediaVars, settleVars, balanceVars, subscriptionVars,
                   localVars, guardVars, codeVars, keyringVars>>

PlatformNext ==
    /\ \/ BreakerTurn \/ MediaTurn \/ SettleTurn \/ BalancesTurn
       \/ SubscriptionTurn \/ BusTurn \/ GuardTurn \/ CodesTurn
       \/ KeyringTurn \/ SessionsTurn
    /\ UNCHANGED turn

PlatformSpec ==
    /\ PlatformInit /\ [][PlatformNext]_platformVars
    /\ turn = "breaker" => Fairness
    /\ turn = "balances" => BalancesFairness

(* Every variable has its type. *)
PlatformTypeOK ==
    /\ TypeOK /\ MediaTypeOK /\ SettleTypeOK /\ BalancesTypeOK
    /\ SubscriptionTypeOK /\ LocalTypeOK /\ LoginTypeOK /\ CodesTypeOK
    /\ KeyringTypeOK /\ OneClient!TypeOK

(* When no two requests overlap, a refresh token is exchanged once. *)
TokenIsSingleUse == OneClient!TokenIsSingleUse

(* When no two requests overlap, a sign-in that runs to its end leaves at  *)
(* most MaxPerUser sessions.                                               *)
CapAfterSignIn == OneClient!CapAfterSignIn
=============================================================================
