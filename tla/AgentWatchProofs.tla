-------------------------- MODULE AgentWatchProofs ---------------------------
(***************************************************************************)
(* Theorems about AgentWatch, for any number of instances, start requests  *)
(* and watches.                                                            *)
(***************************************************************************)
EXTENDS AgentWatch, FiniteSetTheorems, TLAPS

PcSet == {"idle", "next", "trip", "orphan", "steps", "draft", "record",
          "deactivate", "close", "poll", "signal", "propose"}
Outside == {"idle", "next"}

(* What the tick of i may rely on: the watches it has listed were created, *)
(* and how far the end of the current one has got.                         *)
TickOK(i) ==
    /\ \A w \in instance[i].todo : watch[w] # "none"
    /\ InCycle(i) => Current(i) \in Watch /\ watch[Current(i)] # "none"
    /\ Pc(i) = "record" => books[Current(i)] > 0
    /\ Pc(i) \in {"deactivate", "close"} => booked[Current(i)]
    /\ Pc(i) = "close" => watch[Current(i)] = "inactive"

(* A run exists before its watch, which one request alone is to create.    *)
StarterOK(s) ==
    starter[s].pc = "watch" =>
        /\ starter[s].run \in Watch
        /\ run[starter[s].run] = "watching"
        /\ watch[starter[s].run] = "none"
        /\ \A t \in Starter : t # s /\ starter[t].pc = "watch"
                                  => starter[t].run # starter[s].run

RowOK(w) ==
    /\ booked[w] => books[w] > 0
    /\ run[w] = "none" => watch[w] = "none"

(* Before the first failure: a cycle holds its lock, and a book that is    *)
(* not recorded yet is about to be.                                        *)
Quiet ==
    /\ \A i \in Instance : InCycle(i) => Current(i) \in lock
    /\ \A i, j \in Instance :
          i # j /\ InCycle(i) /\ InCycle(j) => Current(i) # Current(j)
    /\ \A i \in Instance : Pc(i) = "draft" => books[Current(i)] = 0
    /\ \A w \in Watch : books[w] <= 1
    /\ \A w \in Watch : books[w] > 0 /\ ~booked[w] =>
          \E i \in Instance : Pc(i) = "record" /\ Current(i) = w

WatchInv ==
    /\ TypeOK
    /\ \A i \in Instance : TickOK(i)
    /\ \A s \in Starter : StarterOK(s)
    /\ \A w \in Watch : RowOK(w)
    /\ ClosedRunIsDone
    /\ slips = 0 => Quiet

(***************************************************************************)
(* Steps of a tick                                                         *)
(***************************************************************************)

LEMMA TickFields ==
    ASSUME TypeOK, NEW i \in Instance
    PROVE  /\ instance[i] \in Tick
           /\ Pc(i) \in PcSet
           /\ Current(i) \in 0 .. MaxWatch
           /\ instance[i].todo \subseteq Watch
           /\ instance[i].thresholds \in [Watch -> Threshold]
           /\ instance[i].previous \in Unseen .. MaxLevel
  BY DEF TypeOK, Tick, Pc, Current, PcSet

LEMMA NoTickType ==
    /\ NoTick \in Tick
    /\ NoTick.pc = "idle" /\ NoTick.todo = {} /\ NoTick.watch = 0
  <1>1. 0 \in 0 .. MaxWatch /\ Unseen \in Unseen .. MaxLevel /\ 1 \in Threshold
    BY WatchAssumption DEF Unseen, Threshold
  <1>2. [w \in Watch |-> 1] \in [Watch -> Threshold]
    BY <1>1
  <1>3. {} \in SUBSET Watch
    OBVIOUS
  <1> QED BY <1>1, <1>2, <1>3 DEF NoTick, Tick

LEMMA Moving ==
    ASSUME TypeOK, NEW i \in Instance, NEW t \in Tick,
           instance' = [instance EXCEPT ![i] = t]
    PROVE  /\ instance' \in [Instance -> Tick]
           /\ instance'[i] = t
           /\ Pc(i)' = t.pc /\ Current(i)' = t.watch
           /\ InCycle(i)' <=> t.pc \notin Outside
           /\ \A j \in Instance : j # i =>
                 /\ instance'[j] = instance[j]
                 /\ Pc(j)' = Pc(j) /\ Current(j)' = Current(j)
                 /\ InCycle(j)' <=> InCycle(j)
  <1>1. instance \in [Instance -> Tick]
    BY DEF TypeOK
  <1>2. /\ instance' \in [Instance -> Tick] /\ instance'[i] = t
        /\ \A j \in Instance : j # i => instance'[j] = instance[j]
    BY <1>1
  <1> QED BY <1>2 DEF Pc, Current, InCycle, Outside

(* Most steps of a tick: the cycle of i goes on with its watch or ends,    *)
(* rows only move towards the end of a watch, and no book is drafted.      *)
LEMMA CycleStep ==
    ASSUME WatchInv, NEW i \in Instance, NEW t \in Tick,
           instance' = [instance EXCEPT ![i] = t], TypeOK',
           UNCHANGED <<starter, lock, books>>,
           slips' = 0 => slips = 0,
           \A w \in Watch :
              /\ watch'[w] = "none" <=> watch[w] = "none"
              /\ watch[w] = "inactive" => watch'[w] = "inactive"
              /\ booked[w] => booked'[w]
              /\ booked'[w] => booked[w] \/ books[w] > 0
              /\ \/ run'[w] = run[w]
                 \/ /\ run'[w] = "closed"
                    /\ booked'[w] /\ watch'[w] = "inactive",
           \A w \in t.todo : watch[w] # "none",
           t.pc \notin Outside => InCycle(i) /\ t.watch = Current(i),
           t.pc # "record",
           Pc(i) = "record" /\ slips' = 0 => booked'[Current(i)],
           t.pc \in {"deactivate", "close"} => booked'[Current(i)],
           t.pc = "close" => watch'[Current(i)] = "inactive",
           t.pc = "draft" /\ slips' = 0 => books[Current(i)] = 0
    PROVE  WatchInv'
  <1>1. TypeOK /\ TickOK(i) /\ instance[i].todo \subseteq Watch
    BY TickFields DEF WatchInv
  <1>2. /\ instance'[i] = t
        /\ Pc(i)' = t.pc /\ Current(i)' = t.watch
        /\ InCycle(i)' <=> t.pc \notin Outside
        /\ \A j \in Instance : j # i =>
              /\ instance'[j] = instance[j]
              /\ Pc(j)' = Pc(j) /\ Current(j)' = Current(j)
              /\ InCycle(j)' <=> InCycle(j)
    <2>1. instance \in [Instance -> Tick]
      BY <1>1 DEF TypeOK
    <2> QED BY <1>1, <2>1, Moving, ZenonT(60)
  <1>3. t.todo \subseteq Watch
    BY DEF Tick
  <1>4. TickOK(i)'
    BY <1>1, <1>2, <1>3 DEF TickOK, Outside
  <1>5. ASSUME NEW j \in Instance, j # i PROVE TickOK(j)'
    <2>1. TickOK(j) /\ instance[j].todo \subseteq Watch
      BY <1>1, TickFields DEF WatchInv
    <2> QED BY <1>2, <1>5, <2>1 DEF TickOK, InCycle
  <1>6. \A s \in Starter : StarterOK(s)'
    BY DEF WatchInv, StarterOK
  <1>7. \A w \in Watch : RowOK(w)'
    BY DEF WatchInv, RowOK
  <1>8. ClosedRunIsDone'
    <2>1. \A w \in Watch : booked'[w] => books[w] > 0
      BY DEF WatchInv, RowOK
    <2> QED BY <2>1 DEF WatchInv, ClosedRunIsDone
  <1>9. ASSUME slips' = 0 PROVE Quiet'
    <2>1. Quiet
      BY <1>9 DEF WatchInv
    <2>2. \A j \in Instance : InCycle(j)' => InCycle(j) /\ Current(j)' = Current(j)
      BY <1>2
    <2>3. /\ \A j \in Instance : InCycle(j)' => Current(j)' \in lock'
          /\ \A j, k \in Instance :
                j # k /\ InCycle(j)' /\ InCycle(k)' => Current(j)' # Current(k)'
      BY <2>1, <2>2 DEF Quiet
    <2>4. \A j \in Instance : Pc(j)' = "draft" => books[Current(j)'] = 0
      BY <1>2, <1>9, <2>1 DEF Quiet, Outside
    <2>5. \A w \in Watch : books[w] > 0 /\ ~booked'[w] =>
             \E j \in Instance : Pc(j)' = "record" /\ Current(j)' = w
      <3> SUFFICES ASSUME NEW w \in Watch, books[w] > 0, ~booked'[w]
                   PROVE  \E j \in Instance : Pc(j)' = "record" /\ Current(j)' = w
        OBVIOUS
      <3>1. PICK j \in Instance : Pc(j) = "record" /\ Current(j) = w
        BY <2>1 DEF Quiet
      <3>2. j # i
        BY <1>9, <3>1
      <3> QED BY <1>2, <3>1, <3>2
    <2> QED BY <2>1, <2>3, <2>4, <2>5 DEF Quiet
  <1> QED BY <1>4, <1>5, <1>6, <1>7, <1>8, <1>9 DEF WatchInv

(* The tick after the end of a cycle. *)
LEMMA Ended ==
    ASSUME TypeOK, NEW i \in Instance, EndCycle(i)
    PROVE  \E t \in Tick : /\ instance' = [instance EXCEPT ![i] = t]
                           /\ t.pc \in Outside
                           /\ t.todo \subseteq instance[i].todo
  <1>1. CASE instance[i].todo = {}
    BY <1>1, NoTickType DEF EndCycle, Outside
  <1>2. CASE instance[i].todo # {}
    <2> DEFINE t == [instance[i] EXCEPT !.pc = "next", !.watch = 0, !.previous = Unseen]
    <2>1. instance[i] \in Tick /\ 0 \in 0 .. MaxWatch /\ Unseen \in Unseen .. MaxLevel
      BY TickFields, WatchAssumption DEF Unseen
    <2>2. t \in Tick /\ t.pc = "next" /\ t.todo = instance[i].todo
      BY <2>1 DEF Tick
    <2>3. instance' = [instance EXCEPT ![i] = t]
      BY <1>2 DEF EndCycle
    <2> QED BY <2>2, <2>3 DEF Outside
  <1> QED BY <1>1, <1>2

LEMMA Stepped ==
    ASSUME TypeOK, NEW i \in Instance, NEW pc \in PcSet, Step(i, pc)
    PROVE  \E t \in Tick : /\ instance' = [instance EXCEPT ![i] = t]
                           /\ t.pc = pc /\ t.watch = Current(i)
                           /\ t.todo = instance[i].todo
  <1> DEFINE t == [instance[i] EXCEPT !.pc = pc]
  <1>1. instance[i] \in Tick
    BY TickFields
  <1>2. t \in Tick /\ t.pc = pc /\ t.watch = Current(i) /\ t.todo = instance[i].todo
    BY <1>1 DEF Tick, PcSet, Current
  <1>3. instance' = [instance EXCEPT ![i] = t]
    BY DEF Step
  <1> QED BY <1>2, <1>3

(***************************************************************************)
(* The actions of a tick                                                   *)
(***************************************************************************)

LEMMA InactiveStays ==
    \A w \in Watch :
        /\ Deactivated[w] = "none" <=> watch[w] = "none"
        /\ watch[w] = "inactive" => Deactivated[w] = "inactive"
        /\ TypeOK /\ watch[w] # "none" => Deactivated[w] = "inactive"
        /\ TypeOK => Deactivated \in [Watch -> {"none", "active", "inactive"}]
  BY DEF Deactivated, TypeOK

LEMMA ListActiveStep ==
    ASSUME WatchInv, NEW i \in Instance, ListActive(i)
    PROVE  WatchInv'
  <1>1. TypeOK /\ Pc(i) = "idle"
    BY DEF WatchInv, ListActive
  <1> DEFINE t == [NoTick EXCEPT !.pc = "next", !.todo = Active,
                                 !.thresholds = threshold]
  <1>2. t \in Tick /\ t.pc = "next" /\ t.todo = Active
    BY <1>1, NoTickType DEF Tick, TypeOK, Active
  <1>3. /\ instance' = [instance EXCEPT ![i] = t]
        /\ UNCHANGED <<trip, watch, threshold, run, seen, booked, books, proposals,
                       lock, starter, decline, lowest, slips>>
    BY DEF ListActive, rows, requests
  <1> HIDE DEF t
  <1>4. TypeOK'
    BY <1>1, <1>2, <1>3, Moving DEF TypeOK
  <1>5. \A w \in t.todo : watch[w] # "none"
    BY <1>2 DEF Active
  <1> QED BY <1>1, <1>2, <1>3, <1>4, <1>5, CycleStep DEF Outside

(* ReadTrip, FindBook and ReadSteps only choose the next step. *)
LEMMA ReadingStep ==
    ASSUME WatchInv, NEW i \in Instance, ReadTrip(i) \/ FindBook(i) \/ ReadSteps(i)
    PROVE  WatchInv'
  <1>1. TypeOK /\ TickOK(i) /\ InCycle(i) /\ Pc(i) \in {"trip", "steps", "poll"}
    BY DEF WatchInv, ReadTrip, FindBook, ReadSteps, InCycle
  <1>2. /\ UNCHANGED <<trip, watch, threshold, run, seen, booked, books, proposals,
                       lock, starter, decline, lowest, slips>>
    BY DEF ReadTrip, FindBook, ReadSteps, rows, requests
  <1>3. \E t \in Tick :
          /\ instance' = [instance EXCEPT ![i] = t]
          /\ t.pc \in {"orphan", "steps", "poll", "deactivate", "draft", "signal"}
          /\ t.watch = Current(i) /\ t.todo = instance[i].todo
          /\ t.pc = "deactivate" => booked[Current(i)]
          /\ t.pc = "draft" => Pc(i) = "steps" /\ ~booked[Current(i)]
    <2>1. CASE ReadTrip(i)
      <3>1. PICK pc \in {"orphan", "steps", "poll"} : Step(i, pc)
        BY <1>1, <2>1 DEF ReadTrip, TypeOK
      <3>2. pc \in PcSet
        BY DEF PcSet
      <3> QED BY <1>1, <3>1, <3>2, Stepped
    <2>2. CASE FindBook(i)
      <3>1. PICK pc : pc = StepAfterBookCheck(Current(i))
        OBVIOUS
      <3>2. /\ pc \in PcSet /\ pc \in {"deactivate", "draft"}
            /\ pc = "deactivate" <=> booked[Current(i)]
        BY <3>1 DEF StepAfterBookCheck, PcSet
      <3>3. Step(i, pc) /\ Pc(i) = "steps"
        BY <2>2, <3>1 DEF FindBook
      <3> QED BY <1>1, <3>2, <3>3, Stepped
    <2>3. CASE ReadSteps(i)
      <3> DEFINE t == [instance[i] EXCEPT !.pc = "signal", !.previous = seen[Current(i)]]
      <3>1. instance[i] \in Tick /\ seen[Current(i)] \in Unseen .. MaxLevel
        BY <1>1, TickFields DEF TickOK, TypeOK
      <3>2. t \in Tick /\ t.pc = "signal" /\ t.watch = Current(i) /\ t.todo = instance[i].todo
        BY <3>1 DEF Tick, Current
      <3>3. instance' = [instance EXCEPT ![i] = t]
        BY <2>3 DEF ReadSteps
      <3> QED BY <3>2, <3>3
    <2> QED BY <2>1, <2>2, <2>3
  <1>4. PICK t \in Tick :
          /\ instance' = [instance EXCEPT ![i] = t]
          /\ t.pc \in {"orphan", "steps", "poll", "deactivate", "draft", "signal"}
          /\ t.watch = Current(i) /\ t.todo = instance[i].todo
          /\ t.pc = "deactivate" => booked[Current(i)]
          /\ t.pc = "draft" => Pc(i) = "steps" /\ ~booked[Current(i)]
    BY <1>3
  <1>5. TypeOK'
    BY <1>1, <1>2, <1>4, Moving DEF TypeOK
  <1>6. t.pc = "draft" /\ slips = 0 => books[Current(i)] = 0
    <2> SUFFICES ASSUME t.pc = "draft", slips = 0 PROVE books[Current(i)] = 0
      OBVIOUS
    <2>1. Quiet /\ Current(i) \in Watch /\ books[Current(i)] \in Nat
      BY <1>1 DEF WatchInv, TickOK, TypeOK
    <2>2. ~ \E j \in Instance : Pc(j) = "record" /\ Current(j) = Current(i)
      BY <1>1, <1>4, <2>1 DEF Quiet, InCycle
    <2> QED BY <1>4, <2>1, <2>2 DEF Quiet
  <1> QED BY <1>1, <1>2, <1>4, <1>5, <1>6, CycleStep DEF TickOK, Outside

LEMMA PollStep ==
    ASSUME WatchInv, NEW i \in Instance, NEW level \in 0 .. MaxLevel, PollSignal(i, level)
    PROVE  WatchInv'
  <1>1. TypeOK /\ TickOK(i) /\ InCycle(i) /\ Pc(i) = "signal" /\ Current(i) \in Watch
    BY DEF WatchInv, TickOK, PollSignal, InCycle
  <1>2. /\ UNCHANGED <<trip, watch, threshold, run, booked, books, proposals, lock,
                       starter, decline, slips>>
        /\ seen' = [seen EXCEPT ![Current(i)] = level]
        /\ lowest' = [lowest EXCEPT ![Current(i)] = IF level < @ THEN level ELSE @]
        /\ Step(i, "propose") \/ EndCycle(i)
    BY DEF PollSignal, requests
  <1>3. PICK t \in Tick :
          /\ instance' = [instance EXCEPT ![i] = t]
          /\ t.pc = "propose" \/ t.pc \in Outside
          /\ t.pc = "propose" => t.watch = Current(i)
          /\ t.todo \subseteq instance[i].todo
    BY <1>1, <1>2, Stepped, Ended DEF PcSet, Outside
  <1>4. level \in Unseen .. MaxLevel
    BY WatchAssumption DEF Unseen
  <1>5. seen' \in [Watch -> Unseen .. MaxLevel] /\ lowest' \in [Watch -> Unseen .. MaxLevel]
    BY <1>1, <1>2, <1>4 DEF TypeOK
  <1>6. TypeOK'
    BY <1>1, <1>2, <1>3, <1>5, Moving DEF TypeOK
  <1>7. \A w \in t.todo : watch[w] # "none"
    BY <1>1, <1>3 DEF TickOK
  <1> QED BY <1>1, <1>2, <1>3, <1>6, <1>7, CycleStep DEF Outside

(* NoCenter, Orphan, CloseRun, Propose and the failures end the cycle. *)
LEMMA EndingStep ==
    ASSUME WatchInv, NEW i \in Instance,
           NoCenter(i) \/ Orphan(i) \/ CloseRun(i) \/ Propose(i) \/ Throw(i) \/ Crash(i)
    PROVE  WatchInv'
  <1>1. TypeOK /\ TickOK(i)
    BY DEF WatchInv
  <1>2. /\ UNCHANGED <<trip, threshold, seen, booked, books, lock, starter, decline>>
        /\ watch' = watch \/ watch' = Deactivated
        /\ \/ run' = run
           \/ Pc(i) = "close" /\ run' = [run EXCEPT ![Current(i)] = "closed"]
        /\ \/ UNCHANGED <<proposals, lowest>>
           \/ /\ Pc(i) = "propose"
              /\ proposals' = [proposals EXCEPT ![Current(i)] = TRUE]
              /\ lowest' = [lowest EXCEPT ![Current(i)] = seen[Current(i)]]
        /\ slips' \in 0 .. MaxSlip /\ (slips' = 0 => slips = 0)
        /\ Pc(i) = "record" => slips' # 0
    BY <1>1, WatchAssumption
       DEF NoCenter, Orphan, CloseRun, Propose, Throw, Crash, rows, requests, TypeOK
  <1>3. PICK t \in Tick :
          /\ instance' = [instance EXCEPT ![i] = t]
          /\ t.pc \in Outside
          /\ t.todo \subseteq instance[i].todo
    <2>1. EndCycle(i) \/ instance' = [instance EXCEPT ![i] = NoTick]
      BY DEF NoCenter, Orphan, CloseRun, Propose, Throw, Crash
    <2> QED BY <1>1, <2>1, Ended, NoTickType DEF Outside
  <1>4. Pc(i) \in {"close", "propose"} => Current(i) \in Watch
    BY <1>1 DEF TickOK, InCycle
  <1>5. /\ watch' \in [Watch -> {"none", "active", "inactive"}]
        /\ run' \in [Watch -> {"none", "watching", "closed"}]
        /\ proposals' \in [Watch -> BOOLEAN]
        /\ lowest' \in [Watch -> Unseen .. MaxLevel]
    <2>1. watch' \in [Watch -> {"none", "active", "inactive"}]
      BY <1>1, <1>2 DEF TypeOK, Deactivated
    <2>2. run' \in [Watch -> {"none", "watching", "closed"}]
      BY <1>1, <1>2 DEF TypeOK
    <2>3. proposals \in [Watch -> BOOLEAN] /\ lowest \in [Watch -> Unseen .. MaxLevel]
      BY <1>1 DEF TypeOK
    <2>5. ASSUME Pc(i) = "propose",
                 proposals' = [proposals EXCEPT ![Current(i)] = TRUE],
                 lowest' = [lowest EXCEPT ![Current(i)] = seen[Current(i)]]
          PROVE  proposals' \in [Watch -> BOOLEAN] /\ lowest' \in [Watch -> Unseen .. MaxLevel]
      <3>1. PICK w \in Watch : w = Current(i)
        BY <1>4, <2>5
      <3>2. proposals' = [proposals EXCEPT ![w] = TRUE] /\ lowest' = [lowest EXCEPT ![w] = seen[w]]
        BY <2>5, <3>1
      <3>3. seen[w] \in Unseen .. MaxLevel
        BY <1>1 DEF TypeOK
      <3>4. proposals' \in [Watch -> BOOLEAN]
        BY <2>3, <3>2
      <3>5. lowest' \in [Watch -> Unseen .. MaxLevel]
        BY <2>3, <3>2, <3>3
      <3> QED BY <3>4, <3>5
    <2>6. proposals' \in [Watch -> BOOLEAN] /\ lowest' \in [Watch -> Unseen .. MaxLevel]
      BY <1>2, <2>3, <2>5
    <2> QED BY <2>1, <2>2, <2>6
  <1>6. TypeOK'
    BY <1>1, <1>2, <1>3, <1>5, Moving DEF TypeOK
  <1>7. \A w \in t.todo : watch[w] # "none"
    BY <1>1, <1>3 DEF TickOK
  <1>8. \A w \in Watch :
          /\ watch'[w] = "none" <=> watch[w] = "none"
          /\ watch[w] = "inactive" => watch'[w] = "inactive"
    BY <1>2, InactiveStays
  <1>9. \A w \in Watch :
          \/ run'[w] = run[w]
          \/ run'[w] = "closed" /\ booked'[w] /\ watch'[w] = "inactive"
    <2>1. ASSUME NEW w \in Watch, run'[w] # run[w]
          PROVE  run'[w] = "closed" /\ booked'[w] /\ watch'[w] = "inactive"
      <3>1. Pc(i) = "close" /\ w = Current(i) /\ run'[w] = "closed"
        BY <1>1, <1>2, <2>1 DEF TypeOK
      <3>2. booked[w] /\ watch[w] = "inactive"
        BY <1>1, <3>1 DEF TickOK
      <3> QED BY <1>2, <1>8, <3>1, <3>2
    <2> QED BY <2>1
  <1> QED BY <1>1, <1>2, <1>3, <1>6, <1>7, <1>8, <1>9, CycleStep DEF Outside

(* RecordBook and Deactivate lead from the book to the end of the run. *)
LEMMA RecordStep ==
    ASSUME WatchInv, NEW i \in Instance, RecordBook(i) \/ Deactivate(i)
    PROVE  WatchInv'
  <1>1. /\ TypeOK /\ TickOK(i) /\ InCycle(i) /\ Pc(i) \in {"record", "deactivate"}
        /\ Current(i) \in Watch /\ watch[Current(i)] # "none"
    BY DEF WatchInv, TickOK, RecordBook, Deactivate, InCycle
  <1>2. /\ UNCHANGED <<trip, threshold, run, seen, books, proposals, lock, starter,
                       decline, lowest, slips>>
        /\ \/ /\ Pc(i) = "record" /\ Step(i, "deactivate") /\ watch' = watch
              /\ booked' = [booked EXCEPT ![Current(i)] = TRUE]
           \/ /\ Pc(i) = "deactivate" /\ Step(i, "close") /\ watch' = Deactivated
              /\ booked' = booked
    BY DEF RecordBook, Deactivate, requests
  <1>3. PICK t \in Tick :
          /\ instance' = [instance EXCEPT ![i] = t]
          /\ t.pc \in {"deactivate", "close"} /\ t.watch = Current(i)
          /\ t.todo = instance[i].todo
          /\ t.pc = "close" => watch' = Deactivated
    BY <1>1, <1>2, Stepped DEF PcSet
  <1>4. /\ watch' \in [Watch -> {"none", "active", "inactive"}]
        /\ booked' \in [Watch -> BOOLEAN]
        /\ booked'[Current(i)]
        /\ \A w \in Watch : /\ booked[w] => booked'[w]
                            /\ booked'[w] => booked[w] \/ books[w] > 0
    <2>1. watch' \in [Watch -> {"none", "active", "inactive"}]
      BY <1>1, <1>2 DEF TypeOK, Deactivated
    <2>2. /\ booked' \in [Watch -> BOOLEAN] /\ booked'[Current(i)]
          /\ \A w \in Watch : w # Current(i) => booked'[w] = booked[w]
      BY <1>1, <1>2 DEF TypeOK, TickOK
    <2>3. booked[Current(i)] \/ books[Current(i)] > 0
      BY <1>1 DEF TickOK
    <2> QED BY <2>1, <2>2, <2>3
  <1>5. TypeOK'
    BY <1>1, <1>2, <1>3, <1>4, Moving DEF TypeOK
  <1>6. \A w \in Watch :
          /\ watch'[w] = "none" <=> watch[w] = "none"
          /\ watch[w] = "inactive" => watch'[w] = "inactive"
    BY <1>2, InactiveStays
  <1>7. t.pc = "close" => watch'[Current(i)] = "inactive"
    BY <1>1, <1>3, InactiveStays
  <1>8. \A w \in t.todo : watch[w] # "none"
    BY <1>1, <1>3 DEF TickOK
  <1>9. \A w \in Watch :
          /\ watch'[w] = "none" <=> watch[w] = "none"
          /\ watch[w] = "inactive" => watch'[w] = "inactive"
          /\ booked[w] => booked'[w]
          /\ booked'[w] => booked[w] \/ books[w] > 0
          /\ \/ run'[w] = run[w]
             \/ run'[w] = "closed" /\ booked'[w] /\ watch'[w] = "inactive"
    <2>1. \A w \in Watch : run'[w] = run[w]
      BY <1>2
    <2>2. \A w \in Watch : /\ booked[w] => booked'[w]
                           /\ booked'[w] => booked[w] \/ books[w] > 0
      BY <1>4, Zenon
    <2> QED BY <1>6, <2>1, <2>2, Zenon
  <1>10. t.pc \notin Outside /\ t.pc # "record" /\ t.pc # "draft"
    BY <1>3 DEF Outside
  <1>11. UNCHANGED <<starter, lock, books>> /\ slips' = slips
    BY <1>2
  <1>12. /\ t.pc \notin Outside => InCycle(i) /\ t.watch = Current(i)
         /\ Pc(i) = "record" /\ slips' = 0 => booked'[Current(i)]
         /\ t.pc \in {"deactivate", "close"} => booked'[Current(i)]
         /\ t.pc = "draft" /\ slips' = 0 => books[Current(i)] = 0
    BY <1>1, <1>3, <1>4, <1>10
  <1> QED BY <1>3, <1>5, <1>7, <1>8, <1>9, <1>10, <1>11, <1>12, CycleStep

(* A run that drafts without a failure has no book yet, and no other cycle *)
(* of its watch is under way.                                              *)
LEMMA DraftStep ==
    ASSUME WatchInv, NEW i \in Instance, DraftBook(i)
    PROVE  WatchInv'
  <1>0. PICK w : w = Current(i)
    OBVIOUS
  <1>1. /\ TypeOK /\ TickOK(i) /\ InCycle(i) /\ Pc(i) = "draft"
        /\ w \in Watch /\ watch[w] # "none" /\ books \in [Watch -> Nat]
    BY <1>0 DEF WatchInv, TickOK, DraftBook, InCycle, TypeOK
  <1>2. /\ UNCHANGED <<trip, watch, threshold, run, seen, booked, proposals, lock,
                       starter, decline, lowest, slips>>
        /\ books' = [books EXCEPT ![w] = @ + 1]
        /\ Step(i, "record")
    BY <1>0 DEF DraftBook, requests
  <1>3. PICK t \in Tick :
          /\ instance' = [instance EXCEPT ![i] = t]
          /\ t.pc = "record" /\ t.watch = w
          /\ t.todo = instance[i].todo
    BY <1>0, <1>1, <1>2, Stepped DEF PcSet
  <1>4. /\ instance'[i] = t
        /\ Pc(i)' = "record" /\ Current(i)' = w /\ InCycle(i)'
        /\ \A j \in Instance : j # i =>
              /\ instance'[j] = instance[j]
              /\ Pc(j)' = Pc(j) /\ Current(j)' = Current(j)
              /\ InCycle(j)' <=> InCycle(j)
    BY <1>1, <1>3, Moving DEF Outside
  <1>5. /\ books' \in [Watch -> Nat] /\ books'[w] = books[w] + 1 /\ books[w] \in Nat
        /\ \A v \in Watch : v # w => books'[v] = books[v]
    BY <1>1, <1>2
  <1>6. \A v \in Watch : books[v] > 0 => books'[v] > 0
    BY <1>1, <1>5
  <1>7. TypeOK'
    BY <1>1, <1>2, <1>3, <1>5, Moving DEF TypeOK
  <1>8. TickOK(i)'
    <2>1. books'[w] > 0
      BY <1>5
    <2> QED BY <1>1, <1>2, <1>3, <1>4, <2>1 DEF TickOK
  <1>9. ASSUME NEW j \in Instance, j # i PROVE TickOK(j)'
    <2>1. TickOK(j) /\ Pc(j) \in PcSet
      BY <1>1, TickFields DEF WatchInv
    <2>2. Pc(j) = "record" => Current(j) \in Watch
      BY <2>1 DEF TickOK, InCycle
    <2> QED BY <1>2, <1>4, <1>6, <1>9, <2>1, <2>2 DEF TickOK
  <1>10. \A s \in Starter : StarterOK(s)'
    BY <1>2 DEF WatchInv, StarterOK
  <1>11. \A v \in Watch : RowOK(v)'
    <2>1. \A v \in Watch : booked'[v] = booked[v] /\ run'[v] = run[v] /\ watch'[v] = watch[v]
      BY <1>2
    <2> QED BY <1>6, <2>1 DEF WatchInv, RowOK
  <1>12. ClosedRunIsDone'
    BY <1>2, <1>6 DEF WatchInv, ClosedRunIsDone
  <1>13. ASSUME slips' = 0 PROVE Quiet'
    <2>1. Quiet
      BY <1>2, <1>13 DEF WatchInv
    <2>2. books[w] = 0
      BY <1>0, <1>1, <2>1 DEF Quiet
    <2>3. \A j \in Instance : (InCycle(j)' <=> InCycle(j)) /\ Current(j)' = Current(j)
      BY <1>0, <1>1, <1>4
    <2>4. /\ \A j \in Instance : InCycle(j)' => Current(j)' \in lock'
          /\ \A j, k \in Instance :
                j # k /\ InCycle(j)' /\ InCycle(k)' => Current(j)' # Current(k)'
      BY <1>2, <2>1, <2>3 DEF Quiet
    <2>5. \A j \in Instance : Pc(j)' = "draft" => books'[Current(j)'] = 0
      <3> SUFFICES ASSUME NEW j \in Instance, Pc(j)' = "draft"
                   PROVE  books'[Current(j)'] = 0
        OBVIOUS
      <3>1. j # i /\ Pc(j) = "draft" /\ InCycle(j) /\ Current(j)' = Current(j)
        BY <1>4 DEF InCycle
      <3>2. Current(j) # w /\ Current(j) \in Watch /\ books[Current(j)] = 0
        BY <1>0, <1>1, <2>1, <3>1 DEF WatchInv, TickOK, Quiet
      <3> QED BY <1>5, <3>1, <3>2
    <2>6. \A v \in Watch : books'[v] <= 1
      BY <1>5, <2>1, <2>2 DEF Quiet
    <2>7. \A v \in Watch : books'[v] > 0 /\ ~booked'[v] =>
             \E j \in Instance : Pc(j)' = "record" /\ Current(j)' = v
      <3> SUFFICES ASSUME NEW v \in Watch, books'[v] > 0, ~booked'[v], v # w
                   PROVE  \E j \in Instance : Pc(j)' = "record" /\ Current(j)' = v
        BY <1>4
      <3>1. PICK j \in Instance : Pc(j) = "record" /\ Current(j) = v
        BY <1>2, <1>5, <2>1 DEF Quiet
      <3> QED BY <1>1, <1>4, <3>1
    <2> QED BY <2>4, <2>5, <2>6, <2>7 DEF Quiet
  <1> QED BY <1>7, <1>8, <1>9, <1>10, <1>11, <1>12, <1>13 DEF WatchInv

LEMMA TakeLockStep ==
    ASSUME WatchInv, NEW i \in Instance, TakeLock(i)
    PROVE  WatchInv'
  <1>1. /\ TypeOK /\ TickOK(i) /\ Pc(i) = "next" /\ instance[i] \in Tick
        /\ ~InCycle(i) /\ instance[i].todo \subseteq Watch
    BY TickFields DEF WatchInv, TakeLock, InCycle
  <1>2. UNCHANGED <<trip, watch, threshold, run, seen, booked, books, proposals,
                    starter, decline, lowest, slips>>
    BY DEF TakeLock, rows, requests
  <1>3. PICK w \in instance[i].todo :
          LET rest == instance[i].todo \ {w}
          IN IF LockIsFree(w)
             THEN /\ lock' = lock \cup {w}
                  /\ instance' = [instance EXCEPT
                        ![i].pc = "trip", ![i].watch = w, ![i].todo = rest]
             ELSE /\ instance' = [instance EXCEPT
                        ![i] = IF rest = {}
                               THEN NoTick
                               ELSE [instance[i] EXCEPT !.todo = rest]]
                  /\ UNCHANGED lock
    BY DEF TakeLock
  <1>4. CASE ~LockIsFree(w)
    <2>1. PICK t \in Tick : /\ instance' = [instance EXCEPT ![i] = t]
                            /\ t.pc \in Outside /\ t.todo \subseteq instance[i].todo
      <3> DEFINE u == [instance[i] EXCEPT !.todo = instance[i].todo \ {w}]
      <3>1. u \in Tick /\ u.pc = "next" /\ u.todo \subseteq instance[i].todo
        BY <1>1 DEF Tick, Pc
      <3>2. instance' = [instance EXCEPT ![i] = u] \/ instance' = [instance EXCEPT ![i] = NoTick]
        BY <1>3, <1>4
      <3> QED BY <3>1, <3>2, NoTickType DEF Outside
    <2>2. UNCHANGED lock
      BY <1>3, <1>4
    <2>3. TypeOK'
      BY <1>1, <1>2, <2>1, <2>2, Moving DEF TypeOK
    <2>4. \A v \in t.todo : watch[v] # "none"
      BY <1>1, <2>1 DEF TickOK
    <2> QED BY <1>1, <1>2, <2>1, <2>2, <2>3, <2>4, CycleStep DEF Outside
  <1>5. CASE LockIsFree(w)
    <2> DEFINE t == [instance[i] EXCEPT !.pc = "trip", !.watch = w,
                                        !.todo = instance[i].todo \ {w}]
    <2>1. t \in Tick /\ t.pc = "trip" /\ t.watch = w /\ t.todo \subseteq instance[i].todo
      <3>1. w \in 0 .. MaxWatch /\ instance[i].todo \ {w} \in SUBSET Watch
        BY <1>1, WatchAssumption DEF Watch
      <3> QED BY <1>1, <3>1 DEF Tick
    <2>2. instance' = [instance EXCEPT ![i] = t]
      BY <1>1, <1>3, <1>5 DEF TypeOK
    <2>3. lock' = lock \cup {w} /\ w \notin lock /\ w \in Watch
      BY <1>1, <1>3, <1>5 DEF LockIsFree
    <2> HIDE DEF t
    <2>4. /\ instance'[i] = t
          /\ Pc(i)' = "trip" /\ Current(i)' = w /\ InCycle(i)'
          /\ \A j \in Instance : j # i =>
                /\ instance'[j] = instance[j]
                /\ Pc(j)' = Pc(j) /\ Current(j)' = Current(j)
                /\ InCycle(j)' <=> InCycle(j)
      BY <1>1, <2>1, <2>2, Moving DEF Outside
    <2>5. TypeOK'
      BY <1>1, <1>2, <2>1, <2>2, <2>3, Moving DEF TypeOK
    <2>6. TickOK(i)'
      BY <1>1, <1>2, <2>1, <2>3, <2>4 DEF TickOK
    <2>7. \A j \in Instance : j # i => TickOK(j)'
      <3> SUFFICES ASSUME NEW j \in Instance, j # i PROVE TickOK(j)'
        OBVIOUS
      <3>1. TickOK(j) /\ instance'[j] = instance[j] /\ Pc(j)' = Pc(j)
            /\ Current(j)' = Current(j) /\ (InCycle(j)' <=> InCycle(j))
        BY <2>4 DEF WatchInv
      <3> QED BY <1>2, <3>1 DEF TickOK
    <2>8. /\ \A s \in Starter : StarterOK(s)'
          /\ ClosedRunIsDone'
      BY <1>2 DEF WatchInv, StarterOK, ClosedRunIsDone
    <2>9. \A v \in Watch : RowOK(v)'
      BY <1>2 DEF WatchInv, RowOK
    <2>10. ASSUME slips' = 0 PROVE Quiet'
      <3>1. Quiet
        BY <1>2, <2>10 DEF WatchInv
      <3>2. \A j \in Instance : InCycle(j)' => Current(j)' \in lock'
        BY <2>3, <2>4, <3>1 DEF Quiet
      <3>3. \A j, k \in Instance :
              j # k /\ InCycle(j)' /\ InCycle(k)' => Current(j)' # Current(k)'
        BY <2>3, <2>4, <3>1 DEF Quiet
      <3>4. \A j \in Instance : Pc(j)' = "draft" => books'[Current(j)'] = 0
        BY <1>2, <2>4, <3>1 DEF Quiet
      <3>5. \A v \in Watch : books'[v] > 0 /\ ~booked'[v] =>
               \E j \in Instance : Pc(j)' = "record" /\ Current(j)' = v
        BY <1>1, <1>2, <2>4, <3>1 DEF Quiet
      <3> QED BY <1>2, <3>1, <3>2, <3>3, <3>4, <3>5 DEF Quiet
    <2> QED BY <2>5, <2>6, <2>7, <2>8, <2>9, <2>10 DEF WatchInv
  <1> QED BY <1>4, <1>5

(***************************************************************************)
(* The other actions                                                       *)
(***************************************************************************)

LEMMA LockExpiresStep ==
    ASSUME WatchInv, NEW w \in Watch, LockExpires(w)
    PROVE  WatchInv'
  <1>1. /\ UNCHANGED <<trip, watch, threshold, run, seen, booked, books, proposals,
                       instance, starter, decline, lowest>>
        /\ lock' = lock \ {w}
        /\ slips' \in 0 .. MaxSlip
        /\ slips' = 0 => slips = 0 /\ \A i \in Instance : InCycle(i) => Current(i) # w
    BY WatchAssumption DEF LockExpires, rows, requests, WatchInv, TypeOK
  <1>2. TypeOK'
    BY <1>1 DEF WatchInv, TypeOK
  <1>3. \A i \in Instance : TickOK(i)'
    BY <1>1 DEF WatchInv, TickOK, InCycle, Pc, Current
  <1>4. (\A s \in Starter : StarterOK(s)') /\ ClosedRunIsDone'
    BY <1>1 DEF WatchInv, StarterOK, ClosedRunIsDone
  <1>5. \A v \in Watch : RowOK(v)'
    BY <1>1 DEF WatchInv, RowOK
  <1>6. ASSUME slips' = 0 PROVE Quiet'
    <2>1. Quiet
      BY <1>1, <1>6 DEF WatchInv
    <2> QED BY <1>1, <1>6, <2>1 DEF Quiet, InCycle, Pc, Current
  <1> QED BY <1>2, <1>3, <1>4, <1>5, <1>6 DEF WatchInv

(* The traveller's decline touches a threshold only, the trip changes by   *)
(* itself.                                                                 *)
LEMMA DeclineStep ==
    ASSUME WatchInv,
           (\E w \in Watch : Decline(w)) \/ ReadThreshold \/ WriteThreshold \/ TripChanges
    PROVE  WatchInv'
  <1>1. UNCHANGED <<watch, run, seen, booked, books, proposals, lock, instance,
                    starter, lowest, slips>>
    BY DEF Decline, ReadThreshold, WriteThreshold, TripChanges, rows, requests
  <1>2. /\ trip' \in {"planned", "ended", "deleted"}
        /\ threshold' \in [Watch -> Threshold]
        /\ decline' \in [pc: {"idle", "raise", "write"}, watch: 0..MaxWatch,
                         threshold: Threshold]
    <2>1. 1 \in Threshold /\ 0 \in 0 .. MaxWatch /\ Watch \subseteq 0 .. MaxWatch
          /\ \A n \in Threshold : Raised(n) \in Threshold
      BY WatchAssumption DEF Threshold, Watch, Raised
    <2>2. Active \subseteq Watch
      BY DEF Active
    <2> QED BY <2>1, <2>2
            DEF Decline, ReadThreshold, WriteThreshold, TripChanges, rows, requests,
                WatchInv, TypeOK
  <1>3. TypeOK'
    BY <1>1, <1>2 DEF WatchInv, TypeOK
  <1> QED BY <1>1, <1>3 DEF WatchInv, TickOK, StarterOK, RowOK, ClosedRunIsDone,
                            Quiet, InCycle, Pc, Current

LEMMA StarterStep ==
    ASSUME WatchInv, NEW s \in Starter,
           FindActive(s) \/ CreateRun(s) \/ CreateWatch(s) \/ StartFails(s)
    PROVE  WatchInv'
  <1>1. /\ UNCHANGED <<trip, threshold, seen, booked, books, proposals, lock,
                       instance, decline, lowest>>
        /\ slips' \in 0 .. MaxSlip /\ (slips' = 0 => slips = 0)
    BY WatchAssumption
       DEF FindActive, CreateRun, CreateWatch, StartFails, rows, requests, WatchInv, TypeOK
  <1>2. TypeOK /\ StarterOK(s)
    BY DEF WatchInv
  <1>3. /\ starter' \in [Starter -> [pc: {"idle", "run", "watch"}, run: 0..MaxWatch]]
        /\ \A t \in Starter : t # s => starter'[t] = starter[t]
    <2>1. 0 \in 0 .. MaxWatch /\ Watch \subseteq 0 .. MaxWatch
      BY WatchAssumption DEF Watch
    <2> QED BY <1>2, <2>1 DEF FindActive, CreateRun, CreateWatch, StartFails, TypeOK
  <1>4. /\ watch' \in [Watch -> {"none", "active", "inactive"}]
        /\ run' \in [Watch -> {"none", "watching", "closed"}]
        /\ \A w \in Watch : watch[w] # "none" => watch'[w] = watch[w]
        /\ \A w \in Watch : run[w] # "none" => run'[w] = run[w]
        /\ \A w \in Watch : run'[w] = "closed" => run[w] = "closed"
    <2>1. CASE CreateRun(s)
      BY <1>2, <2>1 DEF CreateRun, TypeOK
    <2>2. CASE CreateWatch(s)
      BY <1>2, <2>2 DEF CreateWatch, TypeOK, StarterOK
    <2>3. CASE FindActive(s) \/ StartFails(s)
      BY <1>2, <2>3 DEF FindActive, StartFails, rows, TypeOK
    <2> QED BY <2>1, <2>2, <2>3
  <1>5. TypeOK'
    BY <1>1, <1>2, <1>3, <1>4 DEF TypeOK
  <1>6. \A i \in Instance : TickOK(i)'
    <2> SUFFICES ASSUME NEW i \in Instance PROVE TickOK(i)'
      OBVIOUS
    <2>1. TickOK(i) /\ instance[i].todo \subseteq Watch
      BY <1>2, TickFields DEF WatchInv
    <2>2. /\ instance'[i] = instance[i] /\ Pc(i)' = Pc(i) /\ Current(i)' = Current(i)
          /\ InCycle(i)' <=> InCycle(i)
      BY <1>1 DEF Pc, Current, InCycle
    <2>3. InCycle(i) => watch'[Current(i)] = watch[Current(i)]
      BY <1>4, <2>1 DEF TickOK
    <2>4. Pc(i) = "close" => InCycle(i)
      BY DEF InCycle
    <2>5. \A w \in instance[i].todo : watch'[w] # "none"
      BY <1>4, <2>1 DEF TickOK
    <2> QED BY <1>1, <2>1, <2>2, <2>3, <2>4, <2>5 DEF TickOK
  <1>7. \A w \in Watch : RowOK(w)'
    <2>1. CASE CreateWatch(s)
      <3>1. \A w \in Watch : run'[w] = "none" => watch'[w] = watch[w]
        BY <1>2, <2>1 DEF CreateWatch, TypeOK, StarterOK
      <3> QED BY <1>1, <2>1, <3>1 DEF WatchInv, RowOK, CreateWatch
    <2>2. CASE ~CreateWatch(s)
      <3>1. watch' = watch
        BY <2>2 DEF FindActive, CreateRun, StartFails, rows
      <3>2. \A w \in Watch : run'[w] = "none" => run[w] = "none"
        BY <1>4
      <3> QED BY <1>1, <3>1, <3>2 DEF WatchInv, RowOK
    <2> QED BY <2>1, <2>2
  <1>8. ClosedRunIsDone'
    BY <1>1, <1>4 DEF WatchInv, ClosedRunIsDone
  <1>9. \A t \in Starter : StarterOK(t)'
    <2>1. CASE CreateRun(s)
      <3>1. PICK w \in Watch : /\ run[w] = "none"
                               /\ run' = [run EXCEPT ![w] = "watching"]
                               /\ starter' = [starter EXCEPT ![s] = [pc |-> "watch", run |-> w]]
        BY <2>1 DEF CreateRun
      <3>2. watch[w] = "none" /\ watch' = watch /\ run'[w] = "watching"
        BY <1>2, <2>1, <3>1 DEF CreateRun, WatchInv, RowOK, TypeOK
      <3>3. starter'[s].pc = "watch" /\ starter'[s].run = w
        BY <1>2, <3>1 DEF TypeOK
      <3>4. \A t \in Starter : t # s /\ starter[t].pc = "watch" =>
              /\ starter[t].run # w /\ run'[starter[t].run] = "watching"
        BY <1>4, <3>1 DEF WatchInv, StarterOK
      <3> QED BY <1>3, <3>2, <3>3, <3>4 DEF WatchInv, StarterOK
    <2>2. CASE CreateWatch(s)
      <3>1. /\ starter'[s].pc = "idle" /\ run' = run /\ starter[s].pc = "watch"
            /\ watch' = [watch EXCEPT ![starter[s].run] = "active"]
        BY <1>2, <2>2 DEF CreateWatch, TypeOK
      <3>2. \A t \in Starter : t # s /\ starter[t].pc = "watch" =>
              /\ starter[t].run # starter[s].run /\ starter[t].run \in Watch
              /\ watch'[starter[t].run] = "none"
        BY <1>2, <3>1 DEF WatchInv, StarterOK, TypeOK
      <3> QED BY <1>3, <3>1, <3>2 DEF WatchInv, StarterOK
    <2>3. CASE FindActive(s) \/ StartFails(s)
      <3>1. starter'[s].pc # "watch" /\ run' = run /\ watch' = watch
        BY <1>2, <2>3 DEF FindActive, StartFails, rows, TypeOK
      <3> QED BY <1>3, <3>1 DEF WatchInv, StarterOK
    <2> QED BY <2>1, <2>2, <2>3
  <1>10. ASSUME slips' = 0 PROVE Quiet'
    <2>1. Quiet
      BY <1>1, <1>10 DEF WatchInv
    <2> QED BY <1>1, <2>1 DEF Quiet, InCycle, Pc, Current
  <1> QED BY <1>5, <1>6, <1>7, <1>8, <1>9, <1>10 DEF WatchInv

(***************************************************************************)
(* The invariant                                                           *)
(***************************************************************************)

LEMMA WatchInit == Init => WatchInv
  <1> SUFFICES ASSUME Init PROVE WatchInv
    OBVIOUS
  <1>1. \A i \in Instance : instance[i] = NoTick /\ Pc(i) = "idle" /\ ~InCycle(i)
    BY NoTickType DEF Init, Pc, InCycle
  <1>2. 0 \in 0 .. MaxWatch /\ 1 \in Threshold /\ Unseen \in Unseen .. MaxLevel
        /\ 0 \in 0 .. MaxSlip
    BY WatchAssumption DEF Threshold, Unseen
  <1>3. TypeOK
    <2>1. instance \in [Instance -> Tick]
      BY NoTickType, Zenon DEF Init
    <2>2. /\ threshold \in [Watch -> Threshold] /\ seen \in [Watch -> Unseen .. MaxLevel]
          /\ lowest \in [Watch -> Unseen .. MaxLevel]
      BY <1>2 DEF Init
    <2>3. starter \in [Starter -> [pc: {"idle", "run", "watch"}, run: 0..MaxWatch]]
      BY <1>2 DEF Init
    <2>4. decline \in [pc: {"idle", "raise", "write"}, watch: 0..MaxWatch,
                       threshold: Threshold]
      BY <1>2 DEF Init
    <2>5. /\ watch \in [Watch -> {"none", "active", "inactive"}]
          /\ run \in [Watch -> {"none", "watching", "closed"}]
          /\ booked \in [Watch -> BOOLEAN] /\ proposals \in [Watch -> BOOLEAN]
          /\ books \in [Watch -> Nat]
      BY DEF Init
    <2> QED BY <1>2, <2>1, <2>2, <2>3, <2>4, <2>5 DEF Init, TypeOK
  <1>4. \A i \in Instance : TickOK(i)
    BY <1>1, NoTickType DEF TickOK
  <1>5. \A w \in Watch : RowOK(w)
    BY DEF Init, RowOK
  <1>6. (\A s \in Starter : StarterOK(s)) /\ ClosedRunIsDone
    BY DEF Init, StarterOK, ClosedRunIsDone
  <1>7. Quiet
    BY <1>1 DEF Init, Quiet
  <1> QED BY <1>3, <1>4, <1>5, <1>6, <1>7 DEF WatchInv

LEMMA WatchStep == WatchInv /\ [Next]_vars => WatchInv'
  <1> SUFFICES ASSUME WatchInv, [Next]_vars PROVE WatchInv'
    OBVIOUS
  <1>1. ASSUME NEW i \in Instance, Work(i) \/ Throw(i) \/ Crash(i) PROVE WatchInv'
    BY <1>1, ListActiveStep, TakeLockStep, ReadingStep, EndingStep, DraftStep,
       RecordStep, PollStep DEF Work
  <1>2. ASSUME NEW s \in Starter,
               FindActive(s) \/ CreateRun(s) \/ CreateWatch(s) \/ StartFails(s)
        PROVE  WatchInv'
    BY <1>2, StarterStep
  <1>3. CASE (\E w \in Watch : Decline(w)) \/ ReadThreshold \/ WriteThreshold \/ TripChanges
    BY <1>3, DeclineStep
  <1>4. ASSUME NEW w \in Watch, LockExpires(w) PROVE WatchInv'
    BY <1>4, LockExpiresStep
  <1>5. CASE UNCHANGED vars
    BY <1>5 DEF vars, WatchInv, TypeOK, TickOK, StarterOK, RowOK, ClosedRunIsDone,
                Quiet, InCycle, Pc, Current
  <1> QED BY <1>1, <1>2, <1>3, <1>4, <1>5 DEF Next

(* WatchInv is inductive: the locks, the order of a cycle's statements and *)
(* the order in which a request writes run and watch keep it, whatever     *)
(* interleaves and fails.                                                  *)
THEOREM WatchInvariant == Spec => []WatchInv
  BY WatchInit, WatchStep, PTL DEF Spec

(* The rows, locks and ticks keep their types for any number of instances. *)
THEOREM WatchTypes == Spec => []TypeOK
  BY WatchInvariant, PTL DEF WatchInv

(* Before a failure or a lock overrun the Redis lock keeps two instances   *)
(* out of one watch, however many tick over stale lists.                   *)
THEOREM LockExcludes == Spec => []OneCyclePerWatch
  <1>1. WatchInv => OneCyclePerWatch
    BY DEF WatchInv, Quiet, OneCyclePerWatch
  <1> QED BY <1>1, WatchInvariant, PTL

(* Before a failure or a lock overrun a run drafts its memory book once.   *)
THEOREM OneBook == Spec => []BookOncePerRun
  <1>1. WatchInv => BookOncePerRun
    BY DEF WatchInv, Quiet, BookOncePerRun
  <1> QED BY <1>1, WatchInvariant, PTL

(* A run is closed only after its book is recorded and its watch is off,   *)
(* failures and overruns included.                                         *)
THEOREM ClosedIsDone == Spec => []ClosedRunIsDone
  BY WatchInvariant, PTL DEF WatchInv

(***************************************************************************)
(* Proposals                                                               *)
(***************************************************************************)

(* What a step does to the levels of a watch: the lowest one only falls,   *)
(* unless a tick has just proposed, and stays below the last one seen.     *)
LevelMove(w) ==
    /\ lowest[w] <= seen[w] => lowest'[w] <= seen'[w]
    /\ \/ lowest'[w] <= lowest[w]
       \/ \E j \in Instance : /\ Pc(j) = "propose" /\ Current(j) = w
                              /\ Pc(j)' \notin {"signal", "propose"}

(* How a tick comes to poll a signal and to propose. *)
TickMove(i) ==
    \/ instance'[i] = instance[i]
    \/ Pc(i)' \notin {"signal", "propose"}
    \/ /\ Pc(i)' = "signal" /\ InCycle(i) /\ Current(i)' = Current(i)
       /\ instance'[i].previous = seen[Current(i)]
       /\ UNCHANGED lowest
    \/ /\ Pc(i)' = "propose" /\ Pc(i) = "signal" /\ Current(i)' = Current(i)
       /\ instance'[i].thresholds = instance[i].thresholds
       /\ instance[i].previous < instance[i].thresholds[Current(i)]
       /\ lowest'[Current(i)] <= lowest[Current(i)]

ProposalFacts ==
    /\ slips' = 0 => slips = 0
    /\ \A w \in Watch : LevelMove(w)
    /\ \A i \in Instance : TickMove(i)

LEMMA LevelsKept ==
    ASSUME TypeOK, UNCHANGED <<seen, lowest>>
    PROVE  \A w \in Watch : LevelMove(w)
  BY DEF LevelMove, TypeOK

LEMMA OtherTicks ==
    ASSUME TypeOK, NEW i \in Instance, NEW t \in Tick,
           instance' = [instance EXCEPT ![i] = t],
           TickMove(i)
    PROVE  \A j \in Instance : TickMove(j)
  BY DEF TickMove, TypeOK

(* A step of a tick that leaves the levels alone and reaches neither the   *)
(* signal nor a proposal.                                                  *)
LEMMA PlainTick ==
    ASSUME TypeOK, NEW i \in Instance, NEW t \in Tick,
           instance' = [instance EXCEPT ![i] = t],
           t.pc \notin {"signal", "propose"},
           UNCHANGED <<seen, lowest>>, slips' = 0 => slips = 0
    PROVE  ProposalFacts
  <1>1. TickMove(i)
    BY Moving DEF TickMove
  <1> QED BY <1>1, LevelsKept, OtherTicks DEF ProposalFacts

LEMMA PlainStep ==
    ASSUME TypeOK, NEW i \in Instance,
           NEW pc \in PcSet \ {"signal", "propose"},
           Step(i, pc) \/ EndCycle(i),
           UNCHANGED <<seen, lowest>>, slips' = 0 => slips = 0
    PROVE  ProposalFacts
  <1>1. PICK t \in Tick : /\ instance' = [instance EXCEPT ![i] = t]
                          /\ t.pc \notin {"signal", "propose"}
    BY Stepped, Ended DEF Outside
  <1> QED BY <1>1, PlainTick

LEMMA PollFacts ==
    ASSUME WatchInv, NEW i \in Instance, NEW level \in 0 .. MaxLevel,
           PollSignal(i, level)
    PROVE  ProposalFacts
  <1> DEFINE w == Current(i)
             limit == instance[i].thresholds[w]
  <1>1. TypeOK /\ InCycle(i) /\ Pc(i) = "signal" /\ w \in Watch
    BY DEF WatchInv, TickOK, PollSignal, InCycle
  <1>2. /\ instance[i].previous \in Int /\ limit \in Int /\ level \in Int
        /\ \A v \in Watch : lowest[v] \in Int /\ seen[v] \in Int
    BY <1>1, TickFields DEF Threshold, Unseen, TypeOK
  <1>3. /\ seen' = [seen EXCEPT ![w] = level]
        /\ lowest' = [lowest EXCEPT ![w] = IF level < @ THEN level ELSE @]
        /\ slips' = slips
    BY DEF PollSignal
  <1>4. \A v \in Watch : /\ lowest'[v] <= lowest[v]
                         /\ lowest[v] <= seen[v] => lowest'[v] <= seen'[v]
    BY <1>1, <1>2, <1>3 DEF TypeOK
  <1>5. \A v \in Watch : LevelMove(v)
    BY <1>4 DEF LevelMove
  <1>6. CASE EndCycle(i)
    <2>1. PICK t \in Tick : /\ instance' = [instance EXCEPT ![i] = t]
                            /\ t.pc \in Outside
      BY <1>1, <1>6, Ended
    <2>2. TickMove(i)
      BY <1>1, <2>1, Moving DEF TickMove, Outside
    <2> QED BY <1>1, <1>3, <1>5, <2>1, <2>2, OtherTicks DEF ProposalFacts
  <1>7. CASE Step(i, "propose") /\ Material(instance[i].previous, level, limit)
    <2> DEFINE t == [instance[i] EXCEPT !.pc = "propose"]
    <2>1. instance[i] \in Tick
      BY <1>1, TickFields
    <2>2. /\ t \in Tick /\ t.pc = "propose" /\ t.watch = w
          /\ t.thresholds = instance[i].thresholds
      BY <2>1 DEF Tick, Current
    <2>3. instance' = [instance EXCEPT ![i] = t]
      BY <1>7 DEF Step
    <2> HIDE DEF t
    <2>4. instance'[i] = t /\ Pc(i)' = "propose" /\ Current(i)' = w
      BY <1>1, <2>2, <2>3, Moving
    <2>5. instance[i].previous < limit
      BY <1>7 DEF Material
    <2>6. TickMove(i)
      BY <1>1, <1>4, <2>2, <2>4, <2>5 DEF TickMove
    <2> QED BY <1>1, <1>3, <1>5, <2>2, <2>3, <2>6, OtherTicks DEF ProposalFacts
  <1> QED BY <1>6, <1>7 DEF PollSignal

LEMMA ProposeFacts ==
    ASSUME WatchInv, NEW i \in Instance, Propose(i)
    PROVE  ProposalFacts
  <1> DEFINE w == Current(i)
  <1>1. TypeOK /\ Pc(i) = "propose" /\ w \in Watch
    BY DEF WatchInv, TickOK, Propose, InCycle
  <1>2. /\ lowest' = [lowest EXCEPT ![w] = seen[w]]
        /\ seen' = seen /\ slips' = slips /\ EndCycle(i)
    BY DEF Propose, rows
  <1>3. PICK t \in Tick : /\ instance' = [instance EXCEPT ![i] = t]
                          /\ t.pc \in Outside
    BY <1>1, <1>2, Ended
  <1>4. Pc(i)' \notin {"signal", "propose"}
    BY <1>1, <1>3, Moving DEF Outside
  <1>5. TickMove(i)
    BY <1>4 DEF TickMove
  <1>6. \A v \in Watch : LevelMove(v)
    BY <1>1, <1>2, <1>4 DEF LevelMove, TypeOK
  <1> QED BY <1>1, <1>2, <1>3, <1>5, <1>6, OtherTicks DEF ProposalFacts

LEMMA ReadStepsFacts ==
    ASSUME WatchInv, NEW i \in Instance, ReadSteps(i)
    PROVE  ProposalFacts
  <1>1. TypeOK /\ InCycle(i) /\ Current(i) \in Watch
    BY DEF WatchInv, TickOK, ReadSteps, InCycle
  <1> DEFINE t == [instance[i] EXCEPT !.pc = "signal",
                                      !.previous = seen[Current(i)]]
  <1>2. instance[i] \in Tick /\ seen[Current(i)] \in Unseen .. MaxLevel
    BY <1>1, TickFields DEF TypeOK
  <1>3. /\ t \in Tick /\ t.pc = "signal" /\ t.watch = Current(i)
        /\ t.previous = seen[Current(i)]
    BY <1>2 DEF Tick, Current
  <1>4. /\ instance' = [instance EXCEPT ![i] = t]
        /\ UNCHANGED <<seen, lowest, slips>>
    BY DEF ReadSteps, rows
  <1> HIDE DEF t
  <1>5. TickMove(i)
    BY <1>1, <1>3, <1>4, Moving DEF TickMove
  <1> QED BY <1>1, <1>3, <1>4, <1>5, LevelsKept, OtherTicks DEF ProposalFacts

LEMMA WorkFacts ==
    ASSUME WatchInv, NEW i \in Instance, Work(i) \/ Throw(i) \/ Crash(i)
    PROVE  ProposalFacts
  <1>1. TypeOK /\ slips \in Nat
    BY DEF WatchInv, TypeOK
  <1>2. CASE ListActive(i)
    <2> DEFINE t == [NoTick EXCEPT !.pc = "next", !.todo = Active,
                                   !.thresholds = threshold]
    <2>1. t \in Tick /\ t.pc = "next"
      BY <1>1, NoTickType DEF Tick, TypeOK, Active
    <2>2. /\ instance' = [instance EXCEPT ![i] = t]
          /\ UNCHANGED <<seen, lowest, slips>>
      BY <1>2 DEF ListActive, rows
    <2> HIDE DEF t
    <2> QED BY <1>1, <2>1, <2>2, PlainTick
  <1>3. CASE TakeLock(i)
    <2>1. PICK w \in instance[i].todo :
            IF LockIsFree(w)
            THEN instance' = [instance EXCEPT
                    ![i].pc = "trip", ![i].watch = w,
                    ![i].todo = instance[i].todo \ {w}]
            ELSE instance' = [instance EXCEPT
                    ![i] = IF instance[i].todo \ {w} = {}
                           THEN NoTick
                           ELSE [instance[i] EXCEPT
                                    !.todo = instance[i].todo \ {w}]]
      BY <1>3 DEF TakeLock
    <2> DEFINE t == [instance[i] EXCEPT !.pc = "trip", !.watch = w,
                                        !.todo = instance[i].todo \ {w}]
               u == [instance[i] EXCEPT !.todo = instance[i].todo \ {w}]
    <2>2. /\ instance[i] \in Tick /\ Pc(i) = "next" /\ w \in 0 .. MaxWatch
          /\ instance[i].todo \ {w} \in SUBSET Watch
      BY <1>1, <1>3, TickFields, WatchAssumption DEF TakeLock, Watch
    <2>3. t \in Tick /\ t.pc = "trip" /\ u \in Tick /\ u.pc = "next"
      BY <2>2 DEF Tick, Pc
    <2>4. \/ instance' = [instance EXCEPT ![i] = t]
          \/ instance' = [instance EXCEPT ![i] = u]
          \/ instance' = [instance EXCEPT ![i] = NoTick]
      BY <1>1, <2>1 DEF TypeOK
    <2>5. UNCHANGED <<seen, lowest, slips>>
      BY <1>3 DEF TakeLock, rows
    <2> HIDE DEF t, u
    <2> QED BY <1>1, <2>3, <2>4, <2>5, NoTickType, PlainTick
  <1>4. CASE ReadTrip(i)
    <2>1. \E pc \in {"orphan", "steps", "poll"} : Step(i, pc)
      BY <1>1, <1>4 DEF ReadTrip, TypeOK
    <2> QED BY <1>1, <1>4, <2>1, PlainStep DEF ReadTrip, rows, PcSet
  <1>5. CASE FindBook(i)
    <2>1. \E pc \in {"deactivate", "draft"} : Step(i, pc)
      BY <1>5 DEF FindBook, StepAfterBookCheck
    <2> QED BY <1>1, <1>5, <2>1, PlainStep DEF FindBook, rows, PcSet
  <1>6. CASE DraftBook(i) \/ RecordBook(i) \/ Deactivate(i)
    <2>1. \E pc \in {"record", "deactivate", "close"} : Step(i, pc)
      BY <1>6 DEF DraftBook, RecordBook, Deactivate
    <2> QED BY <1>1, <1>6, <2>1, PlainStep
            DEF DraftBook, RecordBook, Deactivate, PcSet
  <1>7. CASE NoCenter(i) \/ Orphan(i) \/ CloseRun(i) \/ Throw(i)
    <2>1. "idle" \in PcSet \ {"signal", "propose"}
      BY DEF PcSet
    <2>2. EndCycle(i) /\ UNCHANGED <<seen, lowest>> /\ (slips' = 0 => slips = 0)
      BY <1>1, <1>7 DEF NoCenter, Orphan, CloseRun, Throw, rows
    <2> QED BY <1>1, <2>1, <2>2, PlainStep
  <1>8. CASE Crash(i)
    <2>1. UNCHANGED <<seen, lowest>> /\ (slips' = 0 => slips = 0)
          /\ instance' = [instance EXCEPT ![i] = NoTick]
      BY <1>1, <1>8 DEF Crash, rows
    <2> QED BY <1>1, <2>1, NoTickType, PlainTick
  <1>9. ASSUME NEW level \in 0 .. MaxLevel, PollSignal(i, level)
        PROVE  ProposalFacts
    BY <1>9, PollFacts
  <1> QED BY <1>2, <1>3, <1>4, <1>5, <1>6, <1>7, <1>8, <1>9, ReadStepsFacts,
             ProposeFacts DEF Work

LEMMA AllProposalFacts == WatchInv /\ [Next]_vars => ProposalFacts
  <1> SUFFICES ASSUME WatchInv, [Next]_vars PROVE ProposalFacts
    OBVIOUS
  <1>1. TypeOK /\ slips \in Nat
    BY DEF WatchInv, TypeOK
  <1>2. ASSUME UNCHANGED <<seen, lowest, instance>>, slips' = 0 => slips = 0
        PROVE  ProposalFacts
    BY <1>1, <1>2, LevelsKept DEF ProposalFacts, TickMove
  <1>3. ASSUME NEW s \in Starter,
               FindActive(s) \/ CreateRun(s) \/ CreateWatch(s) \/ StartFails(s)
        PROVE  ProposalFacts
    BY <1>1, <1>2, <1>3 DEF FindActive, CreateRun, CreateWatch, StartFails, rows
  <1>4. ASSUME NEW w \in Watch, LockExpires(w) \/ Decline(w)
        PROVE  ProposalFacts
    BY <1>1, <1>2, <1>4 DEF LockExpires, Decline, rows
  <1>5. CASE ReadThreshold \/ WriteThreshold \/ TripChanges
    BY <1>2, <1>5 DEF ReadThreshold, WriteThreshold, TripChanges, rows
  <1>6. CASE UNCHANGED vars
    BY <1>2, <1>6 DEF vars, rows
  <1> QED BY <1>3, <1>4, <1>5, <1>6, WorkFacts DEF Next

(* What makes NoRepeatedProposal inductive: the lowest level since the     *)
(* last proposal is never above the last level seen, nor above the one a   *)
(* tick compares with, and below the threshold once a change was material. *)
ProposalInv ==
    /\ \A w \in Watch : lowest[w] <= seen[w]
    /\ slips = 0 => \A i \in Instance :
          /\ Pc(i) = "signal" => lowest[Current(i)] <= instance[i].previous
          /\ Pc(i) = "propose" =>
                lowest[Current(i)] < instance[i].thresholds[Current(i)]

LEMMA ProposalInvStep ==
    ASSUME WatchInv, WatchInv', ProposalInv, ProposalFacts
    PROVE  ProposalInv'
  <1>1. \A w \in Watch : lowest'[w] <= seen'[w]
    BY DEF ProposalInv, ProposalFacts, LevelMove
  <1>2. ASSUME slips' = 0, NEW i \in Instance, Pc(i)' \in {"signal", "propose"}
        PROVE  /\ Pc(i)' = "signal" => lowest'[Current(i)'] <= instance'[i].previous
               /\ Pc(i)' = "propose" =>
                     lowest'[Current(i)'] < instance'[i].thresholds[Current(i)']
    <2> DEFINE w == Current(i)
    <2>1. /\ slips = 0 /\ Quiet /\ TickMove(i) /\ TypeOK /\ TypeOK'
      BY <1>2 DEF ProposalFacts, WatchInv
    <2>2. InCycle(i) => w \in Watch
      BY DEF WatchInv, TickOK
    <2>3. /\ \A v \in Watch : lowest[v] \in Int /\ lowest'[v] \in Int /\ seen[v] \in Int
          /\ instance[i].previous \in Int
          /\ \A v \in Watch : instance[i].thresholds[v] \in Int
      BY <2>1, TickFields DEF TypeOK, Unseen, Threshold
    <2>4. CASE instance'[i] = instance[i]
      <3>1. Pc(i) = Pc(i)' /\ Current(i)' = w /\ InCycle(i) /\ w \in Watch
        BY <1>2, <2>2, <2>4 DEF Pc, Current, InCycle
      <3>2. lowest'[w] <= lowest[w]
        <4>1. ASSUME NEW j \in Instance, Pc(j) = "propose", Current(j) = w,
                     Pc(j)' \notin {"signal", "propose"}
              PROVE  FALSE
          BY <1>2, <2>1, <3>1, <4>1 DEF Quiet, InCycle
        <4> QED BY <3>1, <4>1 DEF ProposalFacts, LevelMove
      <3> QED BY <1>2, <2>1, <2>3, <2>4, <3>1, <3>2 DEF ProposalInv
    <2>5. CASE /\ Pc(i)' = "signal" /\ InCycle(i) /\ Current(i)' = w
               /\ instance'[i].previous = seen[w]
               /\ UNCHANGED lowest
      BY <2>2, <2>5 DEF ProposalInv
    <2>6. CASE /\ Pc(i)' = "propose" /\ Pc(i) = "signal" /\ Current(i)' = w
               /\ instance'[i].thresholds = instance[i].thresholds
               /\ instance[i].previous < instance[i].thresholds[w]
               /\ lowest'[w] <= lowest[w]
      <3>1. lowest[w] <= instance[i].previous /\ w \in Watch
        BY <2>1, <2>2, <2>6 DEF ProposalInv, InCycle
      <3> QED BY <2>3, <2>6, <3>1
    <2> QED BY <1>2, <2>1, <2>4, <2>5, <2>6 DEF TickMove
  <1> QED BY <1>1, <1>2 DEF ProposalInv

(* The agent does not repeat a proposal: before a failure or an overrun,   *)
(* the signal has been below the threshold since the last proposal for the *)
(* watch, for any number of instances that tick over stale thresholds.     *)
THEOREM ProposalsAreCrossings == Spec => NoRepeatedProposal
  <1> DEFINE Crossing ==
        \A i \in Instance :
            Propose(i) /\ slips = 0
                => lowest[Current(i)] < instance[i].thresholds[Current(i)]
  <1>1. Init => ProposalInv
    BY NoTickType DEF Init, ProposalInv, Pc, Unseen
  <1>2. WatchInv /\ WatchInv' /\ ProposalInv /\ [Next]_vars => ProposalInv'
    BY AllProposalFacts, ProposalInvStep
  <1>3. ProposalInv => Crossing
    BY DEF ProposalInv, Propose
  <1> QED BY <1>1, <1>2, <1>3, WatchInvariant, PTL DEF Spec, NoRepeatedProposal

(***************************************************************************)
(* Start requests that do not overlap                                      *)
(***************************************************************************)

NoOverlap ==
    \A s, t \in Starter : starter[s].pc # "idle" /\ starter[t].pc # "idle" => s = t

SingleInv ==
    /\ \A v, w \in Active : v = w
    /\ \A s \in Starter : starter[s].pc # "idle" => Active = {}

LEMMA SingleStep == TypeOK /\ NoOverlap /\ SingleInv /\ [Next]_vars => SingleInv'
  <1> SUFFICES ASSUME TypeOK, NoOverlap, SingleInv, [Next]_vars PROVE SingleInv'
    OBVIOUS
  <1>1. ASSUME Active' \subseteq Active, UNCHANGED starter
        PROVE  SingleInv'
    BY <1>1 DEF SingleInv
  <1>2. ASSUME UNCHANGED <<watch, starter>>
        PROVE  SingleInv'
    BY <1>2 DEF SingleInv, Active
  <1>3. ASSUME NEW i \in Instance, Work(i) \/ Throw(i) \/ Crash(i)
        PROVE  SingleInv'
    <2>1. CASE watch' = Deactivated /\ UNCHANGED starter
      BY <1>1, <2>1 DEF Deactivated, Active
    <2> QED BY <1>2, <1>3, <2>1
            DEF Work, ListActive, TakeLock, ReadTrip, NoCenter, Orphan, FindBook, DraftBook,
                RecordBook, Deactivate, CloseRun, ReadSteps, PollSignal, Propose,
                Throw, Crash, rows, requests
  <1>4. ASSUME NEW s \in Starter,
               FindActive(s) \/ CreateRun(s) \/ CreateWatch(s) \/ StartFails(s)
        PROVE  SingleInv'
    <2>1. \A t \in Starter : t # s => starter'[t] = starter[t]
      BY <1>4 DEF FindActive, CreateRun, CreateWatch, StartFails, TypeOK
    <2>2. CASE FindActive(s)
      <3>1. Active = {} /\ watch' = watch
        BY <2>2 DEF FindActive, rows
      <3> QED BY <3>1 DEF SingleInv, Active
    <2>3. CASE CreateRun(s) \/ StartFails(s)
      <3>1. watch' = watch /\ starter[s].pc # "idle"
        BY <2>3 DEF CreateRun, StartFails, rows
      <3> QED BY <3>1 DEF SingleInv, Active
    <2>4. CASE CreateWatch(s)
      <3>1. /\ starter[s].pc # "idle" /\ starter'[s].pc = "idle"
            /\ watch' = [watch EXCEPT ![starter[s].run] = "active"]
        BY <2>4 DEF CreateWatch, TypeOK
      <3>2. Active = {}
        BY <3>1 DEF SingleInv
      <3>3. Active' \subseteq {starter[s].run}
        BY <3>1, <3>2 DEF Active, TypeOK
      <3>4. \A t \in Starter : starter'[t].pc = "idle"
        BY <2>1, <3>1 DEF NoOverlap
      <3> QED BY <3>3, <3>4 DEF SingleInv
    <2> QED BY <1>4, <2>2, <2>3, <2>4
  <1>5. ASSUME NEW w \in Watch, LockExpires(w) \/ Decline(w)
        PROVE  SingleInv'
    BY <1>2, <1>5 DEF LockExpires, Decline, rows, requests
  <1>6. CASE ReadThreshold \/ WriteThreshold \/ TripChanges \/ UNCHANGED vars
    BY <1>2, <1>6 DEF ReadThreshold, WriteThreshold, TripChanges, vars, rows, requests
  <1> QED BY <1>3, <1>4, <1>5, <1>6 DEF Next

(* A trip has at most one active watch as long as the requests to start    *)
(* one do not overlap. (The run watch_twice shows that overlap breaks it.) *)
THEOREM OneWatchWithoutOverlap == Spec /\ []NoOverlap => []AtMostOneActiveWatch
  <1>1. Init => SingleInv
    BY DEF Init, SingleInv, Active
  <1>2. SingleInv => AtMostOneActiveWatch
    <2> SUFFICES ASSUME SingleInv PROVE Cardinality(Active) <= 1
      BY DEF AtMostOneActiveWatch
    <2>1. CASE Active = {}
      BY <2>1, FS_EmptySet
    <2>2. ASSUME NEW w \in Active PROVE Cardinality(Active) <= 1
      <3>1. Active = {w}
        BY DEF SingleInv
      <3> QED BY <3>1, FS_Singleton
    <2> QED BY <2>1, <2>2
  <1> QED BY <1>1, <1>2, SingleStep, WatchTypes, PTL DEF Spec

(***************************************************************************)
(* Start requests that do overlap                                          *)
(***************************************************************************)

(* The requests that found no active watch and have not ended.             *)
Starting == {s \in Starter : starter[s].pc # "idle"}

(* A trip has at most as many active watches as requests overlap.          *)
FewActiveWatches == Cardinality(Active) <= Cardinality(Starter)

(* A watch about to be created counts like one that is active.             *)
OverlapInv == Cardinality(Active) + Cardinality(Starting) <= Cardinality(Starter)

LEMMA OverlapCounts ==
    ASSUME IsFiniteSet(Starter)
    PROVE  /\ IsFiniteSet(Active) /\ Cardinality(Active) \in Nat
           /\ IsFiniteSet(Active') /\ Cardinality(Active') \in Nat
           /\ IsFiniteSet(Starting) /\ Cardinality(Starting) \in Nat
           /\ IsFiniteSet(Starting') /\ Cardinality(Starting') \in Nat
           /\ Cardinality(Starting') <= Cardinality(Starter)
           /\ Cardinality(Starter) \in Nat
  <1>1. IsFiniteSet(Watch)
    BY WatchAssumption, FS_Interval DEF Watch
  <1>2. Active \in SUBSET Watch /\ Active' \in SUBSET Watch
    BY DEF Active
  <1>3. Starting \in SUBSET Starter /\ Starting' \in SUBSET Starter
    BY DEF Starting
  <1> HIDE DEF Active, Starting
  <1> QED BY <1>1, <1>2, <1>3, FS_Subset, FS_CardinalityType

LEMMA OverlapStep ==
    ASSUME IsFiniteSet(Starter)
    PROVE  TypeOK /\ OverlapInv /\ [Next]_vars => OverlapInv'
  <1> SUFFICES ASSUME TypeOK, OverlapInv, [Next]_vars PROVE OverlapInv'
    OBVIOUS
  <1>1. ASSUME Active' \subseteq Active, Starting' \subseteq Starting
        PROVE  OverlapInv'
    BY <1>1, OverlapCounts, FS_Subset DEF OverlapInv
  <1>2. ASSUME UNCHANGED <<watch, starter>>
        PROVE  OverlapInv'
    BY <1>1, <1>2 DEF Active, Starting
  <1>3. ASSUME NEW i \in Instance, Work(i) \/ Throw(i) \/ Crash(i)
        PROVE  OverlapInv'
    <2>1. CASE watch' = Deactivated /\ UNCHANGED starter
      BY <1>1, <2>1 DEF Deactivated, Active, Starting
    <2> QED BY <1>2, <1>3, <2>1
            DEF Work, ListActive, TakeLock, ReadTrip, NoCenter, Orphan, FindBook, DraftBook,
                RecordBook, Deactivate, CloseRun, ReadSteps, PollSignal, Propose,
                Throw, Crash, rows, requests
  <1>4. ASSUME NEW s \in Starter, FindActive(s)
        PROVE  OverlapInv'
    <2>1. Active' = {}
      BY <1>4 DEF FindActive, Active, rows
    <2>2. Cardinality(Active') = 0
      BY <2>1, FS_EmptySet
    <2> QED BY <2>2, OverlapCounts DEF OverlapInv
  <1>5. ASSUME NEW s \in Starter, CreateRun(s) \/ StartFails(s)
        PROVE  OverlapInv'
    <2>1. watch' = watch /\ Starting' \subseteq Starting
      BY <1>5 DEF CreateRun, StartFails, Starting, rows, TypeOK
    <2> QED BY <1>1, <2>1 DEF Active
  <1>6. ASSUME NEW s \in Starter, CreateWatch(s)
        PROVE  OverlapInv'
    <2>1. s \in Starting /\ Starting' = Starting \ {s}
      BY <1>6 DEF CreateWatch, Starting, TypeOK
    <2>2. Active' \subseteq Active \cup {starter[s].run}
      BY <1>6 DEF CreateWatch, Active, TypeOK
    <2>3. Cardinality(Active') <= Cardinality(Active) + 1
      <3> DEFINE more == Active \cup {starter[s].run}
      <3>0. IsFiniteSet(Active) /\ Cardinality(Active) \in Nat
        BY OverlapCounts
      <3>1. IsFiniteSet(more) /\ Cardinality(more) \in Nat
            /\ Cardinality(more) <= Cardinality(Active) + 1
        <4> HIDE DEF Active
        <4>1. /\ IsFiniteSet(more)
              /\ Cardinality(more) = IF starter[s].run \in Active THEN Cardinality(Active)
                                     ELSE Cardinality(Active) + 1
          BY <3>0, FS_AddElement
        <4> QED BY <3>0, <4>1
      <3>2. Cardinality(Active') <= Cardinality(more)
        BY <2>2, <3>1, FS_Subset
      <3> HIDE DEF more
      <3> QED BY <3>1, <3>2, OverlapCounts
    <2>4. Cardinality(Starting') = Cardinality(Starting) - 1
      BY <2>1, OverlapCounts, FS_RemoveElement
    <2> QED BY <2>3, <2>4, OverlapCounts DEF OverlapInv
  <1>7. ASSUME NEW w \in Watch, LockExpires(w) \/ Decline(w)
        PROVE  OverlapInv'
    BY <1>2, <1>7 DEF LockExpires, Decline, rows, requests
  <1>8. CASE ReadThreshold \/ WriteThreshold \/ TripChanges \/ UNCHANGED vars
    BY <1>2, <1>8 DEF ReadThreshold, WriteThreshold, TripChanges, vars, rows, requests
  <1> QED BY <1>3, <1>4, <1>5, <1>6, <1>7, <1>8 DEF Next

(* However start requests overlap, fail or are cut short, a trip has at    *)
(* most as many active watches as requests can be in progress together:    *)
(* whoever comes later finds an active one.                                *)
THEOREM OverlapBoundsWatches ==
    ASSUME IsFiniteSet(Starter)
    PROVE  Spec => []FewActiveWatches
  <1>1. Init => OverlapInv
    <2> SUFFICES ASSUME Init PROVE OverlapInv
      OBVIOUS
    <2>1. Active = {} /\ Starting = {}
      BY DEF Init, Active, Starting
    <2> QED BY <2>1, FS_EmptySet, OverlapCounts DEF OverlapInv
  <1>2. OverlapInv => FewActiveWatches
    BY OverlapCounts DEF OverlapInv, FewActiveWatches
  <1> QED BY <1>1, <1>2, OverlapStep, WatchTypes, PTL DEF Spec
=============================================================================
