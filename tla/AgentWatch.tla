----------------------------- MODULE AgentWatch -----------------------------
(***************************************************************************)
(* The agent that watches one trip (the agent module of apps/api): starting*)
(* a watch, the scheduler ticks of several API instances under a per-watch *)
(* Redis lock, the cycle of one watch, and the traveller's decline.        *)
(*                                                                         *)
(* A watch and the AgentRun created with it share one number.  The lock is *)
(* never released: it expires, and nothing stops a cycle that is longer    *)
(* than its lock.  Signals are levels, compared with a threshold as the    *)
(* weather rule does (the flight rule is the same with two levels).        *)
(***************************************************************************)
EXTENDS Integers, FiniteSets

CONSTANTS
    Instance,       \* API instances
    Starter,        \* requests to start a watch
    MaxWatch,       \* bound: watches of the trip ever started
    MaxLevel,       \* bound: signal levels are 0..MaxLevel
    MaxSlip         \* bound: crashes, failing statements, lock overruns

ASSUME WatchAssumption ==
    /\ MaxWatch \in Nat \ {0}
    /\ MaxLevel \in Nat \ {0}
    /\ MaxSlip \in Nat

VARIABLES
    trip,           \* planned, ended or deleted
    watch,          \* the TripWatch rows: none, active or inactive
    threshold,      \* their thresholds
    run,            \* the AgentRun rows: none, watching or closed
    seen,           \* the level in the last signal_seen step of each run
    booked,         \* the run has a watch_closed step
    books,          \* how many memory books were drafted for each run
    proposals,      \* how many proposal steps each run has
    lock,           \* the Redis locks of the watches that are held
    instance,       \* the local state of the tick of each instance
    starter,        \* the local state of each start request
    decline,        \* the local state of the traveller's decline
    lowest,         \* history: the lowest level seen since the last proposal
    slips           \* how much of the bound is used

vars == <<trip, watch, threshold, run, seen, booked, books, proposals, lock,
          instance, starter, decline, lowest, slips>>

Watch == 1..MaxWatch
Unseen == -1
Threshold == 1..MaxLevel

Tick == [pc: {"idle", "next", "trip", "orphan", "steps", "draft", "record",
              "deactivate", "close", "poll", "signal", "propose"},
         todo: SUBSET Watch, thresholds: [Watch -> Threshold],
         watch: 0..MaxWatch, previous: Unseen..MaxLevel]

NoTick == [pc |-> "idle", todo |-> {}, thresholds |-> [w \in Watch |-> 1],
           watch |-> 0, previous |-> Unseen]

TypeOK ==
    /\ trip \in {"planned", "ended", "deleted"}
    /\ watch \in [Watch -> {"none", "active", "inactive"}]
    /\ threshold \in [Watch -> Threshold]
    /\ run \in [Watch -> {"none", "watching", "closed"}]
    /\ seen \in [Watch -> Unseen..MaxLevel]
    /\ booked \in [Watch -> BOOLEAN]
    /\ books \in [Watch -> Nat]
    /\ proposals \in [Watch -> BOOLEAN]
    /\ lock \in SUBSET Watch
    /\ instance \in [Instance -> Tick]
    /\ starter \in [Starter -> [pc: {"idle", "run", "watch"},
                                run: 0..MaxWatch]]
    /\ decline \in [pc: {"idle", "raise", "write"}, watch: 0..MaxWatch,
                    threshold: Threshold]
    /\ lowest \in [Watch -> Unseen..MaxLevel]
    /\ slips \in 0..MaxSlip

Init ==
    /\ trip = "planned"
    /\ watch = [w \in Watch |-> "none"]
    /\ threshold = [w \in Watch |-> 1]
    /\ run = [w \in Watch |-> "none"]
    /\ seen = [w \in Watch |-> Unseen]
    /\ booked = [w \in Watch |-> FALSE]
    /\ books = [w \in Watch |-> 0]
    /\ proposals = [w \in Watch |-> FALSE]
    /\ lock = {}
    /\ instance = [i \in Instance |-> NoTick]
    /\ starter = [s \in Starter |-> [pc |-> "idle", run |-> 0]]
    /\ decline = [pc |-> "idle", watch |-> 0, threshold |-> 1]
    /\ lowest = [w \in Watch |-> Unseen]
    /\ slips = 0

rows == <<watch, threshold, run, seen, booked, books, proposals>>
requests == <<starter, decline>>

(***************************************************************************)
(* StartTripWatchUseCase                                                   *)
(***************************************************************************)

Active == {w \in Watch : watch[w] = "active"}

(* The bound on watches: a number is left for every request under way. *)
RunsLeft == Cardinality({w \in Watch : run[w] = "none"})
               > Cardinality({s \in Starter : starter[s].pc = "run"})

FindActive(s) ==
    /\ starter[s].pc = "idle"
    /\ Active = {}
    /\ RunsLeft
    /\ starter' = [starter EXCEPT ![s] = [pc |-> "run", run |-> 0]]
    /\ UNCHANGED <<trip, rows, lock, instance, decline, lowest, slips>>

CreateRun(s) ==
    /\ starter[s].pc = "run"
    /\ \E w \in Watch :
          /\ run[w] = "none" /\ \A v \in 1..w - 1 : run[v] # "none"
          /\ run' = [run EXCEPT ![w] = "watching"]
          /\ starter' = [starter EXCEPT ![s] = [pc |-> "watch", run |-> w]]
    /\ UNCHANGED <<trip, watch, threshold, seen, booked, books, proposals,
                   lock, instance, decline, lowest, slips>>

(* The watch_started step that follows is read by nobody. *)
CreateWatch(s) ==
    /\ starter[s].pc = "watch"
    /\ watch' = [watch EXCEPT ![starter[s].run] = "active"]
    /\ starter' = [starter EXCEPT ![s] = [pc |-> "idle", run |-> 0]]
    /\ UNCHANGED <<trip, threshold, run, seen, booked, books, proposals, lock,
                   instance, decline, lowest, slips>>

(***************************************************************************)
(* AgentScheduler.runTick                                                  *)
(***************************************************************************)

Pc(i) == instance[i].pc
Current(i) == instance[i].watch

Step(i, pc) == instance' = [instance EXCEPT ![i].pc = pc]

(* The cycle of the current watch is over: on to the rest of the list. *)
EndCycle(i) ==
    instance' = [instance EXCEPT
        ![i] = IF instance[i].todo = {}
               THEN NoTick
               ELSE [instance[i] EXCEPT !.pc = "next", !.watch = 0,
                                        !.previous = Unseen]]

(* listActive: the rows, thresholds included, are read once per tick. *)
ListActive(i) ==
    /\ Pc(i) = "idle"
    /\ Active # {}
    /\ instance' = [instance EXCEPT
          ![i] = [NoTick EXCEPT !.pc = "next", !.todo = Active,
                                !.thresholds = threshold]]
    /\ UNCHANGED <<trip, rows, lock, requests, lowest, slips>>

(* Fault: SET without NX. *)
LockIsFree_Ignored(w) == TRUE

LockIsFree(w) == w \notin lock

(* acquireWatchLock: SET NX EX; a watch that is locked is passed over. *)
TakeLock(i) ==
    /\ Pc(i) = "next"
    /\ \E w \in instance[i].todo :
          LET rest == instance[i].todo \ {w}
          IN IF LockIsFree(w)
             THEN /\ lock' = lock \cup {w}
                  /\ instance' = [instance EXCEPT
                        ![i].pc = "trip", ![i].watch = w, ![i].todo = rest]
             ELSE /\ instance' = [instance EXCEPT
                        ![i] = IF rest = {}
                               THEN NoTick
                               ELSE [instance[i] EXCEPT !.todo = rest]]
                  /\ UNCHANGED lock
    /\ UNCHANGED <<trip, rows, requests, lowest, slips>>

InCycle(i) == Pc(i) \notin {"idle", "next"}

(* The lock expires; a slip if the cycle it was taken for still runs. *)
LockExpires(w) ==
    /\ w \in lock
    /\ lock' = lock \ {w}
    /\ LET overrun == \E i \in Instance : InCycle(i) /\ Current(i) = w
       IN /\ overrun => slips < MaxSlip
          /\ slips' = IF overrun THEN slips + 1 ELSE slips
    /\ UNCHANGED <<trip, rows, instance, requests, lowest>>

(***************************************************************************)
(* RunWatchCycleUseCase                                                    *)
(***************************************************************************)

ReadTrip(i) ==
    /\ Pc(i) = "trip"
    /\ Step(i, CASE trip = "deleted" -> "orphan"
                 [] trip = "ended" -> "steps"
                 [] trip = "planned" -> "poll")
    /\ UNCHANGED <<trip, rows, lock, requests, lowest, slips>>

(* No stop of the trip has its coordinates yet: nothing to poll. *)
NoCenter(i) ==
    /\ Pc(i) = "trip"
    /\ trip = "planned"
    /\ EndCycle(i)
    /\ UNCHANGED <<trip, rows, lock, requests, lowest, slips>>

(* deactivate: every active watch of the trip. *)
Deactivated == [w \in Watch |-> IF watch[w] = "active" THEN "inactive"
                                                       ELSE watch[w]]

Orphan(i) ==
    /\ Pc(i) = "orphan"
    /\ watch' = Deactivated
    /\ EndCycle(i)
    /\ UNCHANGED <<trip, threshold, run, seen, booked, books, proposals, lock,
                   requests, lowest, slips>>

(* Fault: the steps of the run are not asked for an earlier book. *)
StepAfterBookCheck_Blind(w) == "draft"

StepAfterBookCheck(w) == IF booked[w] THEN "deactivate" ELSE "draft"

(* DraftMemoryBookUseCase: a run that recorded its book drafts no other. *)
FindBook(i) ==
    /\ Pc(i) = "steps"
    /\ Step(i, StepAfterBookCheck(Current(i)))
    /\ UNCHANGED <<trip, rows, lock, requests, lowest, slips>>

DraftBook(i) ==
    /\ Pc(i) = "draft"
    /\ books' = [books EXCEPT ![Current(i)] = @ + 1]
    /\ Step(i, "record")
    /\ UNCHANGED <<trip, watch, threshold, run, seen, booked, proposals, lock,
                   requests, lowest, slips>>

(* Fault: the run goes on to be closed without the record of its book. *)
RecordBook_Skipped(i) ==
    /\ Pc(i) = "record"
    /\ Step(i, "deactivate")
    /\ UNCHANGED <<trip, rows, lock, requests, lowest, slips>>

RecordBook(i) ==
    /\ Pc(i) = "record"
    /\ booked' = [booked EXCEPT ![Current(i)] = TRUE]
    /\ Step(i, "deactivate")
    /\ UNCHANGED <<trip, watch, threshold, run, seen, books, proposals, lock,
                   requests, lowest, slips>>

(* Fault: the watch stays active. *)
Deactivate_Nothing(i) ==
    /\ Pc(i) = "deactivate"
    /\ Step(i, "close")
    /\ UNCHANGED <<trip, rows, lock, requests, lowest, slips>>

Deactivate(i) ==
    /\ Pc(i) = "deactivate"
    /\ watch' = Deactivated
    /\ Step(i, "close")
    /\ UNCHANGED <<trip, threshold, run, seen, booked, books, proposals, lock,
                   requests, lowest, slips>>

(* Fault: the run is left open. *)
CloseRun_Forgotten(i) ==
    /\ Pc(i) = "close"
    /\ EndCycle(i)
    /\ UNCHANGED <<trip, rows, lock, requests, lowest, slips>>

CloseRun(i) ==
    /\ Pc(i) = "close"
    /\ run' = [run EXCEPT ![Current(i)] = "closed"]
    /\ EndCycle(i)
    /\ UNCHANGED <<trip, watch, threshold, seen, booked, books, proposals,
                   lock, requests, lowest, slips>>

(* listSteps before the signals are polled. *)
ReadSteps(i) ==
    /\ Pc(i) = "poll"
    /\ instance' = [instance EXCEPT ![i].pc = "signal",
                                    ![i].previous = seen[Current(i)]]
    /\ UNCHANGED <<trip, rows, lock, requests, lowest, slips>>

(* Fault: every level above the threshold counts, not only the crossing. *)
Material_NoDebounce(previous, level, limit) == level >= limit

Material(previous, level, limit) == level >= limit /\ previous < limit

(* The snapshot is recorded first; a material change is then proposed. The *)
(* wait for the provider, before the record, is part of this step: it could*)
(* only matter to a second cycle of the watch, which a slip lets in.       *)
PollSignal(i, level) ==
    /\ Pc(i) = "signal"
    /\ LET w == Current(i)
           limit == instance[i].thresholds[w]
       IN /\ seen' = [seen EXCEPT ![w] = level]
          /\ lowest' = [lowest EXCEPT ![w] = IF level < @ THEN level ELSE @]
          /\ IF Material(instance[i].previous, level, limit)
             THEN Step(i, "propose")
             ELSE EndCycle(i)
    /\ UNCHANGED <<trip, watch, threshold, run, booked, books, proposals, lock,
                   requests, slips>>

(* ProposeReplanUseCase: the planner drafts, then the step is appended. *)
Propose(i) ==
    /\ Pc(i) = "propose"
    /\ proposals' = [proposals EXCEPT ![Current(i)] = TRUE]
    /\ lowest' = [lowest EXCEPT ![Current(i)] = seen[Current(i)]]
    /\ EndCycle(i)
    /\ UNCHANGED <<trip, watch, threshold, run, seen, booked, books, lock,
                   requests, slips>>

(***************************************************************************)
(* ConfirmReplanUseCase, declining: raiseThreshold reads, then writes the  *)
(* active watch of the trip. One decline at a time: the traveller answers  *)
(* the one proposal in hand, and of two that overlapped one raise is lost. *)
(***************************************************************************)

Decline(w) ==
    /\ decline.pc = "idle"
    /\ proposals[w]
    /\ decline' = [pc |-> "raise", watch |-> 0, threshold |-> 1]
    /\ UNCHANGED <<trip, rows, lock, instance, starter, lowest, slips>>

ReadThreshold ==
    /\ decline.pc = "raise"
    /\ \/ /\ Active = {}
          /\ decline' = [pc |-> "idle", watch |-> 0, threshold |-> 1]
       \/ \E w \in Active :
             decline' = [pc |-> "write", watch |-> w,
                         threshold |-> threshold[w]]
    /\ UNCHANGED <<trip, rows, lock, instance, starter, lowest, slips>>

(* Fault: the threshold is raised without a ceiling. *)
Raised_NoCeiling(limit) == limit + 1

Raised(limit) == IF limit = MaxLevel THEN MaxLevel ELSE limit + 1

WriteThreshold ==
    /\ decline.pc = "write"
    /\ threshold' = [threshold EXCEPT ![decline.watch] =
                        Raised(decline.threshold)]
    /\ decline' = [pc |-> "idle", watch |-> 0, threshold |-> 1]
    /\ UNCHANGED <<trip, watch, run, seen, booked, books, proposals, lock,
                   instance, starter, lowest, slips>>

(***************************************************************************)
(* The trip and the failures                                               *)
(***************************************************************************)

(* The trip ends, is prolonged, or is deleted. *)
TripChanges ==
    /\ trip # "deleted"
    /\ trip' \in {"planned", "ended", "deleted"} \ {trip}
    /\ UNCHANGED <<rows, lock, instance, requests, lowest, slips>>

(* A statement of a cycle throws: runTick goes on with the next watch. *)
Throw(i) ==
    /\ InCycle(i)
    /\ slips < MaxSlip
    /\ slips' = slips + 1
    /\ EndCycle(i)
    /\ UNCHANGED <<trip, rows, lock, requests, lowest>>

(* The instance goes down in the middle of a tick. *)
Crash(i) ==
    /\ Pc(i) # "idle"
    /\ slips < MaxSlip
    /\ slips' = slips + 1
    /\ instance' = [instance EXCEPT ![i] = NoTick]
    /\ UNCHANGED <<trip, rows, lock, requests, lowest>>

StartFails(s) ==
    /\ starter[s].pc # "idle"
    /\ slips < MaxSlip
    /\ slips' = slips + 1
    /\ starter' = [starter EXCEPT ![s] = [pc |-> "idle", run |-> 0]]
    /\ UNCHANGED <<trip, rows, lock, instance, decline, lowest>>

Work(i) ==
    \/ ListActive(i) \/ TakeLock(i) \/ ReadTrip(i) \/ NoCenter(i) \/ Orphan(i)
    \/ FindBook(i) \/ DraftBook(i) \/ RecordBook(i) \/ Deactivate(i)
    \/ CloseRun(i) \/ ReadSteps(i)
    \/ \E level \in 0..MaxLevel : PollSignal(i, level)
    \/ Propose(i)

Next ==
    \/ \E i \in Instance : Work(i) \/ Throw(i) \/ Crash(i)
    \/ \E s \in Starter :
          FindActive(s) \/ CreateRun(s) \/ CreateWatch(s) \/ StartFails(s)
    \/ \E w \in Watch : LockExpires(w) \/ Decline(w)
    \/ ReadThreshold \/ WriteThreshold
    \/ TripChanges

Spec == Init /\ [][Next]_vars

(* The interval timer goes on ticking, statements settle, and Redis drops  *)
(* a key after its time to live.                                           *)
FairSpec ==
    /\ Spec
    /\ \A i \in Instance : WF_vars(Work(i))
    /\ \A w \in Watch : WF_vars(LockExpires(w))
    /\ \A s \in Starter : WF_vars(CreateRun(s)) /\ WF_vars(CreateWatch(s))

(***************************************************************************)
(* Properties                                                              *)
(***************************************************************************)

(* The lock keeps two instances out of one watch, as long as no cycle      *)
(* outlives its lock.                                                      *)
OneCyclePerWatch ==
    slips = 0 => \A i, j \in Instance :
        i # j /\ InCycle(i) /\ InCycle(j) => Current(i) # Current(j)

(* Without a failure a run drafts one memory book, however many stale      *)
(* lists still name its watch.                                             *)
BookOncePerRun == slips = 0 => \A w \in Watch : books[w] <= 1

(* A closed run has recorded its book, and its watch is off: no failure    *)
(* closes a run too early.                                                 *)
ClosedRunIsDone ==
    \A w \in Watch :
        run[w] = "closed" => booked[w] /\ books[w] > 0 /\ watch[w] = "inactive"

(* The agent does not repeat itself: as long as no cycle outlives its lock,*)
(* the signal was seen below the threshold that a proposal crosses at some *)
(* time since the proposal before it, whatever thresholds and steps the    *)
(* ticks had read.                                                         *)
NoRepeatedProposal ==
    [][\A i \in Instance :
          Propose(i) /\ slips = 0
              => lowest[Current(i)] < instance[i].thresholds[Current(i)]]_vars

(* Once the trip has ended or is gone for good, its watches go off, crashes*)
(* and lock overruns included.                                             *)
EndedTripIsLeftAlone ==
    <>[](trip # "planned") /\ <>[](\A s \in Starter : starter[s].pc = "idle")
        => <>[](Active = {})

(* And when the trip has ended for good its run is closed, unless a        *)
(* failure came in between or the cycle of a second watch of the trip,     *)
(* which turns off both, left it open.                                     *)
RunIsClosed ==
    <>[](trip = "ended") =>
        <>[](\/ \A w \in Watch : run[w] # "watching"
             \/ slips > 0
             \/ Cardinality({w \in Watch : watch[w] # "none"}) > 1)

(***************************************************************************)
(* What a comment of the code says, and a run refutes                      *)
(***************************************************************************)

(* start-trip-watch.use-case.ts: a trip has at most one active watch.      *)
AtMostOneActiveWatch == Cardinality(Active) <= 1
=============================================================================
