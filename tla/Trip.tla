-------------------------------- MODULE Trip --------------------------------
(***************************************************************************)
(* One trip, its itinerary days, and the requests that change them (the    *)
(* trip module of apps/api).                                               *)
(*                                                                         *)
(* A use case reads the trip, validates what it read, and writes by id in  *)
(* later statements that check nothing again; the itinerary is another     *)
(* table, written by its own statement after the trip's.  A process is one *)
(* request in progress; an action is one awaited statement.                *)
(*                                                                         *)
(* Dates are day numbers, and an itinerary is the set of dates its days    *)
(* have: dayIndex only numbers them in order.                              *)
(***************************************************************************)
EXTENDS Integers, FiniteSets

CONSTANTS
    Proc,           \* requests in progress at the same time
    NoDate,         \* a date that is not set
    MaxDate,        \* dates are 1..MaxDate
    MaxTripDays,    \* MAX_TRIP_DAYS
    MaxVersion,     \* bound: updates of the trip
    MaxShift        \* bound: how far the itinerary has been shifted

ASSUME TripAssumption ==
    /\ MaxDate \in Nat \ {0}
    /\ MaxTripDays \in Nat \ {0}
    /\ MaxVersion \in Nat \ {0}
    /\ MaxShift \in Nat
    /\ NoDate \notin Int

VARIABLES
    trip,           \* the Trip row
    days,           \* the dates of the ItineraryDay rows
    op,             \* the local state of the request of each process
    announced,      \* history: how often Trip.TripUpdated named a version
    disturbed,      \* history: requests overlapped, or one was cut short
    shift           \* history: by how much the itinerary was shifted

vars == <<trip, days, op, announced, disturbed, shift>>

Date == 1..MaxDate
MaybeDate == Date \cup {NoDate}

(* exists is FALSE once the row is deleted; archived is archivedAt # null. *)
TripRow == [exists: BOOLEAN, status: {"draft", "published", "archived"},
            archived: BOOLEAN, starts: MaybeDate, ends: MaybeDate,
            version: 1..MaxVersion]

(* The patch of an update: per date, whether it is in the patch, and to    *)
(* what; other stands for title and radius.                                *)
Patch == [setStarts: BOOLEAN, starts: MaybeDate,
          setEnds: BOOLEAN, ends: MaybeDate, other: BOOLEAN]

(* A patch of dates that also names other fields adds nothing to the event  *)
(* and the itinerary, so the two kinds are kept apart.                     *)
Patches ==
    {patch \in Patch :
        /\ ~patch.setStarts => patch.starts = NoDate
        /\ ~patch.setEnds => patch.ends = NoDate
        /\ patch.other => ~patch.setStarts /\ ~patch.setEnds}

NoPatch == [setStarts |-> FALSE, starts |-> NoDate,
            setEnds |-> FALSE, ends |-> NoDate, other |-> FALSE]

(* starts, ends: the dates an update or a generation read.  version: what  *)
(* an update announces, 0 if nothing.                                      *)
Op == [pc: {"idle", "write", "clear", "announce", "plan", "lock", "unlock",
            "shift"},
       patch: Patch, starts: MaybeDate, ends: MaybeDate,
       version: 0..MaxVersion]

Request(pc, patch, starts, ends, version) ==
    [pc |-> pc, patch |-> patch, starts |-> starts, ends |-> ends,
     version |-> version]

Idle == Request("idle", NoPatch, NoDate, NoDate, 0)

TypeOK ==
    /\ trip \in TripRow
    /\ days \in SUBSET (1 - MaxShift .. MaxDate + MaxShift)
    /\ op \in [Proc -> Op]
    /\ announced \in [1..MaxVersion -> Nat]
    /\ disturbed \in BOOLEAN
    /\ shift \in -MaxShift..MaxShift

Init ==
    /\ trip = [exists |-> TRUE, status |-> "draft", archived |-> FALSE,
               starts |-> NoDate, ends |-> NoDate, version |-> 1]
    /\ days = {}
    /\ op = [p \in Proc |-> Idle]
    /\ announced = [v \in 1..MaxVersion |-> 0]
    /\ disturbed = FALSE
    /\ shift = 0

Become(p, request) == op' = [op EXCEPT ![p] = request]
Finish(p) == Become(p, Idle)
Pc(p) == op[p].pc

(* A request that reads the trip and goes on.  It is alone if no other is  *)
(* in progress.                                                            *)
Begin(p, request) ==
    /\ Pc(p) = "idle"
    /\ trip.exists
    /\ Become(p, request)
    /\ disturbed' = (disturbed \/ \E q \in Proc : Pc(q) # "idle")
    /\ UNCHANGED <<trip, days, announced, shift>>

(* The trip row is gone: the write throws and the request ends. *)
Fail(p) ==
    /\ ~trip.exists
    /\ Finish(p)
    /\ UNCHANGED <<trip, days, announced, disturbed, shift>>

(***************************************************************************)
(* UpdateTripUseCase                                                       *)
(***************************************************************************)

Ordered(starts, ends) ==
    starts # NoDate /\ ends # NoDate => starts <= ends

(* The patch against the row that was read. *)
Acceptable(patch) ==
    Ordered(IF patch.setStarts THEN patch.starts ELSE trip.starts,
            IF patch.setEnds THEN patch.ends ELSE trip.ends)

ReadForUpdate(p, patch) ==
    /\ Acceptable(patch)
    /\ Begin(p, Request("write", patch, trip.starts, trip.ends, 0))

Empty(patch) == ~patch.setStarts /\ ~patch.setEnds /\ ~patch.other

(* Fault: the version is counted from the updates announced so far. *)
NextVersion_Stale(p) ==
    2 + Cardinality({v \in 1..MaxVersion : announced[v] > 0})

(* version: { increment: 1 } *)
NextVersion(p) == trip.version + 1

(* Fault: a new last day alone does not count as a date change. *)
DatesChanged_StartsOnly(request) ==
    request.patch.setStarts /\ request.patch.starts # request.starts

(* Against the row the request read, not the row it wrote. *)
DatesChanged(request) ==
    \/ request.patch.setStarts /\ request.patch.starts # request.starts
    \/ request.patch.setEnds /\ request.patch.ends # request.ends

(* updateForUser writes the fields of the patch and nothing else; its look  *)
(* for the row by owner and the update by id are one step.  A patch that   *)
(* repeats the dates it read, or a title or radius that does not differ,   *)
(* bumps the version without an event.                                     *)
WriteUpdate(p) ==
    /\ Pc(p) = "write"
    /\ LET patch == op[p].patch
           version == NextVersion(p)
       IN \/ Fail(p)
          \/ /\ trip.exists /\ Empty(patch)
             /\ Finish(p)
             /\ UNCHANGED <<trip, days, announced, disturbed, shift>>
          \/ /\ trip.exists /\ ~Empty(patch)
             /\ trip.version < MaxVersion
             /\ trip' = [trip EXCEPT
                   !.starts = IF patch.setStarts THEN patch.starts ELSE @,
                   !.ends = IF patch.setEnds THEN patch.ends ELSE @,
                   !.version = version]
             /\ \E differs \in BOOLEAN :
                   Become(p, Request(
                       IF DatesChanged(op[p]) THEN "clear" ELSE "announce",
                       NoPatch, NoDate, NoDate,
                       IF DatesChanged(op[p]) \/ (patch.other /\ differs)
                       THEN version ELSE 0))
             /\ UNCHANGED <<days, announced, disturbed, shift>>

ClearItinerary(p) ==
    /\ Pc(p) = "clear"
    /\ days' = {}
    /\ shift' = 0
    /\ Become(p, Request("announce", NoPatch, NoDate, NoDate, op[p].version))
    /\ UNCHANGED <<trip, announced, disturbed>>

AnnounceUpdate(p) ==
    /\ Pc(p) = "announce"
    /\ announced' = [v \in 1..MaxVersion |->
                        announced[v] + IF v = op[p].version THEN 1 ELSE 0]
    /\ Finish(p)
    /\ UNCHANGED <<trip, days, disturbed, shift>>

(***************************************************************************)
(* GenerateItineraryUseCase and ShiftItineraryDatesUseCase                 *)
(***************************************************************************)

ReadForGenerate(p) ==
    /\ trip.starts # NoDate /\ trip.ends # NoDate
    /\ trip.starts <= trip.ends
    /\ trip.ends - trip.starts + 1 <= MaxTripDays
    /\ Begin(p, Request("plan", NoPatch, trip.starts, trip.ends, 0))

(* Fault: one day too many. *)
PlannedDays_OneTooMany(request) == request.starts .. request.ends + 1

(* One day per date of the window the request read, both ends included. *)
PlannedDays(request) == request.starts .. request.ends

(* replaceDays, after the places and the planner have answered; the event  *)
(* that follows, Trip.ItineraryGenerated, starts a watch and is left out.  *)
ReplaceDays(p) ==
    /\ Pc(p) = "plan"
    /\ \/ Fail(p)
       \/ /\ trip.exists
          /\ days' = PlannedDays(op[p])
          /\ shift' = 0
          /\ Finish(p)
          /\ UNCHANGED <<trip, announced, disturbed>>

ReadForShift(p) == Begin(p, Request("shift", NoPatch, NoDate, NoDate, 0))

ShiftDays(p, delta) ==
    /\ Pc(p) = "shift"
    /\ shift + delta \in -MaxShift..MaxShift
    /\ days' = {d + delta : d \in days}
    /\ shift' = IF days = {} THEN 0 ELSE shift + delta
    /\ Finish(p)
    /\ UNCHANGED <<trip, announced, disturbed>>

(***************************************************************************)
(* Status, archive and deletion                                            *)
(***************************************************************************)

(* Locking a published trip and unlocking a draft answer at once.  The     *)
(* check of assertCanLock and assertCanUnlock reads archivedAt only.       *)
ReadForLock(p) ==
    /\ ~trip.archived /\ trip.status # "published"
    /\ Begin(p, Request("lock", NoPatch, NoDate, NoDate, 0))

ReadForUnlock(p) ==
    /\ ~trip.archived /\ trip.status # "draft"
    /\ Begin(p, Request("unlock", NoPatch, NoDate, NoDate, 0))

(* updateStatus by id, whatever the status is by now; then TripLocked. *)
WriteStatus(p) ==
    /\ Pc(p) \in {"lock", "unlock"}
    /\ \/ Fail(p)
       \/ /\ trip.exists
          /\ trip' = [trip EXCEPT !.status =
                         IF Pc(p) = "lock" THEN "published" ELSE "draft"]
          /\ Finish(p)
          /\ UNCHANGED <<days, announced, disturbed, shift>>

SetArchived(archive) ==
    /\ trip.exists
    /\ trip' = [trip EXCEPT !.archived = archive]
    /\ UNCHANGED <<days, op, announced, disturbed, shift>>

(* autoArchiveOlderThan, for a trip older than the cutoff. *)
AutoArchive ==
    /\ trip.exists /\ ~trip.archived
    /\ trip' = [trip EXCEPT !.archived = TRUE]
    /\ UNCHANGED <<days, op, announced, disturbed, shift>>

AdminArchive ==
    /\ trip.exists
    /\ trip' = [trip EXCEPT !.status = "archived"]
    /\ UNCHANGED <<days, op, announced, disturbed, shift>>

(* Fault: the itinerary of a deleted trip is left behind. *)
Delete_KeepsDays ==
    /\ trip.exists
    /\ trip' = [trip EXCEPT !.exists = FALSE]
    /\ UNCHANGED <<days, op, announced, disturbed, shift>>

(* deleteForUser and adminDelete; the days go with the trip. *)
Delete ==
    /\ trip.exists
    /\ trip' = [trip EXCEPT !.exists = FALSE]
    /\ days' = {}
    /\ shift' = 0
    /\ UNCHANGED <<op, announced, disturbed>>

(* A statement or a publish throws, or the process dies. A statement also  *)
(* throws when two writers of the days meet in @@unique([tripId, dayIndex]):*)
(* its transaction is rolled back, which is this step.                     *)
Abort(p) ==
    /\ Pc(p) # "idle"
    /\ Finish(p)
    /\ disturbed' = TRUE
    /\ UNCHANGED <<trip, days, announced, shift>>

Continue(p) ==
    \/ WriteUpdate(p) \/ ClearItinerary(p) \/ AnnounceUpdate(p)
    \/ ReplaceDays(p) \/ WriteStatus(p)
    \/ \E delta \in {-1, 1} : ShiftDays(p, delta)

Next ==
    \/ \E p \in Proc :
          \/ \E patch \in Patches : ReadForUpdate(p, patch)
          \/ ReadForGenerate(p) \/ ReadForShift(p)
          \/ ReadForLock(p) \/ ReadForUnlock(p)
          \/ Continue(p)
          \/ Abort(p)
    \/ \E archive \in BOOLEAN : SetArchived(archive)
    \/ AutoArchive
    \/ AdminArchive
    \/ Delete

Spec == Init /\ [][Next]_vars

(***************************************************************************)
(* Properties                                                              *)
(***************************************************************************)

(* Two updates never announce the same version, however they overlap: the  *)
(* version of an event identifies the update it tells of.                  *)
VersionsAreUnique ==
    \A v \in 1..MaxVersion :
        /\ announced[v] <= 1
        /\ announced[v] > 0 => v <= trip.version

(* As long as requests do not overlap and none is cut short, an itinerary  *)
(* covers exactly the window of its trip, give or take the shift the user  *)
(* asked for, and the window runs forward.                                 *)
ItineraryMatchesWindow ==
    (~disturbed /\ \A p \in Proc : Pc(p) = "idle") =>
        /\ Ordered(trip.starts, trip.ends)
        /\ days # {} =>
              /\ NoDate \notin {trip.starts, trip.ends}
              /\ {d - shift : d \in days} = trip.starts .. trip.ends

(* A deleted trip has no itinerary, and no request in progress brings one  *)
(* back.                                                                   *)
DeletedHasNoDays == ~trip.exists => days = {}

(***************************************************************************)
(* What the comments of the code say, and a run refutes                    *)
(***************************************************************************)

(* I-LOCK: a trip only becomes published from draft, and an archived trip  *)
(* cannot be locked.                                                       *)
LocksOnlyDrafts ==
    [][trip.status # "published" /\ trip'.status = "published"
           => trip.status = "draft"]_vars
=============================================================================
