---------------------------- MODULE TripBalances ----------------------------
(***************************************************************************)
(* The expenses of one trip and the cached balances computed from them.    *)
(* Balances are a function of the rows, so a cached value is represented   *)
(* by the set of rows it was computed from (at most 500 rows; the bound is *)
(* far away here). Redis errors are swallowed by the cache class: a failed *)
(* read is a miss, a failed write or deletion does nothing.                *)
(***************************************************************************)
CONSTANTS
    Expense,    \* expense rows that may ever be created
    Writer,     \* requests that add or remove an expense
    Reader      \* requests that ask for the balances

VARIABLES
    expense,    \* "none", "live" or "gone"
    balances,   \* the cache entry of the trip
    writer,     \* CreateExpenseUseCase, DeleteExpenseUseCase in progress
    reader      \* GetTripBalancesUseCase in progress

balanceVars == <<expense, balances, writer, reader>>

LiveRows == {e \in Expense : expense[e] = "live"}

NoEntry == [cached |-> FALSE, rows |-> {}, expires |-> FALSE]
Entry == [cached : BOOLEAN, rows : SUBSET Expense, expires : BOOLEAN]

BalancesTypeOK ==
    /\ expense \in [Expense -> {"none", "live", "gone"}]
    /\ balances \in Entry
    /\ writer \in [Writer -> {"idle", "wrote"}]
    /\ reader \in [Reader -> [pc : {"idle", "missed", "computed"}, rows : SUBSET Expense]]

BalancesInit ==
    /\ expense = [e \in Expense |-> "none"]
    /\ balances = NoEntry
    /\ writer = [w \in Writer |-> "idle"]
    /\ reader = [r \in Reader |-> [pc |-> "idle", rows |-> {}]]

(***************************************************************************)
(* Adding and removing                                                     *)
(***************************************************************************)

(* The access check before the insert does not concern the balances. *)
AddExpense(w, e) ==
    /\ writer[w] = "idle" /\ expense[e] = "none"
    /\ expense' = [expense EXCEPT ![e] = "live"]
    /\ writer' = [writer EXCEPT ![w] = "wrote"]
    /\ UNCHANGED <<balances, reader>>

(* deleteForPayer counts the rows it deletes: of two that delete one row,  *)
(* the second finds nothing and ends with an error. The read before the    *)
(* count decides nothing the count does not.                               *)
RemoveExpense(w, e) ==
    /\ writer[w] = "idle" /\ expense[e] = "live"
    /\ expense' = [expense EXCEPT ![e] = "gone"]
    /\ writer' = [writer EXCEPT ![w] = "wrote"]
    /\ UNCHANGED <<balances, reader>>

(* The deletion of the entry: done, swallowed, or lost in a crash. *)
Invalidate(w) ==
    /\ writer[w] = "wrote"
    /\ balances' \in {balances, NoEntry}
    /\ writer' = [writer EXCEPT ![w] = "idle"]
    /\ UNCHANGED <<expense, reader>>

(***************************************************************************)
(* Reading                                                                 *)
(***************************************************************************)

(* A hit returns the entry and changes nothing. A read that fails counts   *)
(* as a miss, whatever the cache holds.                                    *)
Miss(r) ==
    /\ reader[r].pc = "idle"
    /\ reader' = [reader EXCEPT ![r].pc = "missed"]
    /\ UNCHANGED <<expense, balances, writer>>

Compute(r) ==
    /\ reader[r].pc = "missed"
    /\ reader' = [reader EXCEPT ![r] = [pc |-> "computed", rows |-> LiveRows]]
    /\ UNCHANGED <<expense, balances, writer>>

Store_ForGood(r) ==
    /\ reader[r].pc = "computed"
    /\ balances' \in {balances, [cached |-> TRUE, rows |-> reader[r].rows, expires |-> FALSE]}
    /\ reader' = [reader EXCEPT ![r].pc = "idle"]
    /\ UNCHANGED <<expense, writer>>

(* SET with EX, or the error that is swallowed; nothing asks whether the   *)
(* rows have changed since they were read.                                 *)
Store(r) ==
    /\ reader[r].pc = "computed"
    /\ balances' \in {balances, [cached |-> TRUE, rows |-> reader[r].rows, expires |-> TRUE]}
    /\ reader' = [reader EXCEPT ![r].pc = "idle"]
    /\ UNCHANGED <<expense, writer>>

(* Redis drops the entry after TRIP_BALANCES_CACHE_TTL_SECONDS. *)
EntryExpires ==
    /\ balances.expires
    /\ balances' = NoEntry
    /\ UNCHANGED <<expense, writer, reader>>

BalancesNext ==
    \/ \E w \in Writer :
          \/ \E e \in Expense : AddExpense(w, e) \/ RemoveExpense(w, e)
          \/ Invalidate(w)
    \/ \E r \in Reader : Miss(r) \/ Compute(r) \/ Store(r)
    \/ EntryExpires

(* Requests in progress go on and Redis expires keys; nobody has to write  *)
(* or to ask.                                                              *)
BalancesFairness ==
    /\ \A r \in Reader : WF_balanceVars(Compute(r)) /\ WF_balanceVars(Store(r))
    /\ WF_balanceVars(EntryExpires)

BalancesSpec == BalancesInit /\ [][BalancesNext]_balanceVars /\ BalancesFairness

(***************************************************************************)
(* Properties                                                              *)
(***************************************************************************)

Fresh == balances.cached => balances.rows = LiveRows

(* "A missed invalidation self-heals": from some time after the last write *)
(* (a row is added once and removed once), whoever looks up the balances   *)
(* gets those of the present rows, although any invalidation may be lost   *)
(* and a slow reader may store what it had computed before the write.      *)
BalancesHeal == <>[]Fresh

(* Readers whose rows a write has overtaken. *)
Late == {r \in Reader : reader[r].pc = "computed" /\ reader[r].rows # LiveRows}

(* Between two writes nobody falls behind, and each time the cache goes    *)
(* from right to wrong one of the readers that were behind is used up: a   *)
(* write is followed by no more wrong entries than there were readers in   *)
(* the middle of the computation it overtook.                              *)
StaleOncePerReader ==
    [][LiveRows' = LiveRows =>
          /\ Late' \subseteq Late
          /\ Fresh /\ ~Fresh' => Late' # Late]_balanceVars
=============================================================================
