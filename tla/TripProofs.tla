----------------------------- MODULE TripProofs -----------------------------
(***************************************************************************)
(* Proofs that the type invariant of Trip, the uniqueness of the announced *)
(* versions, the completeness of a deletion and the agreement of itinerary *)
(* and window hold for every number of requests and every bound.           *)
(***************************************************************************)
EXTENDS Trip, TLAPS

USE TripAssumption

(* A generation in progress has read two dates, and the itinerary lies in  *)
(* the dates of the model moved by the shift: with these the types of the  *)
(* days are inductive.                                                     *)
PlanHasDates ==
    \A p \in Proc : op[p].pc = "plan" => op[p].starts \in Date /\ op[p].ends \in Date

DaysInRange == days \in SUBSET (1 + shift .. MaxDate + shift)

TInv == TypeOK /\ PlanHasDates /\ DaysInRange

(***************************************************************************)
(* The local states of requests                                            *)
(***************************************************************************)

LEMMA RequestOp ==
    ASSUME NEW pc \in {"idle", "write", "clear", "announce", "plan", "lock",
                       "unlock", "shift"},
           NEW patch \in Patch, NEW starts \in MaybeDate,
           NEW ends \in MaybeDate, NEW version \in 0..MaxVersion
    PROVE  /\ Request(pc, patch, starts, ends, version) \in Op
           /\ Request(pc, patch, starts, ends, version).pc = pc
           /\ Request(pc, patch, starts, ends, version).starts = starts
           /\ Request(pc, patch, starts, ends, version).ends = ends
           /\ Request(pc, patch, starts, ends, version).version = version
  BY DEF Request, Op

LEMMA RangeMoved ==
    ASSUME NEW x \in -MaxShift..MaxShift,
           NEW S \in SUBSET (1 + x .. MaxDate + x)
    PROVE  S \in SUBSET (1 - MaxShift .. MaxDate + MaxShift)
<1>1. x \in Int /\ -MaxShift <= x /\ x <= MaxShift
  OBVIOUS
<1>2. \A d \in S : d \in Int /\ 1 + x <= d /\ d <= MaxDate + x
  BY <1>1
<1>3. \A d \in S : d \in 1 - MaxShift .. MaxDate + MaxShift
  BY <1>1, <1>2
<1>4. QED  BY <1>3

LEMMA NoPatchType == NoPatch \in Patch
  BY DEF NoPatch, Patch, MaybeDate

LEMMA IdleOp ==
    Idle \in Op /\ Idle.pc = "idle" /\ Idle.version = 0
  BY RequestOp, NoPatchType DEF Idle, MaybeDate

LEMMA BecomeOp ==
    ASSUME TypeOK, NEW p \in Proc, NEW r \in Op, Become(p, r)
    PROVE  /\ op' \in [Proc -> Op]
           /\ op'[p] = r
           /\ \A q \in Proc : q # p => op'[q] = op[q]
  BY DEF Become, TypeOK

LEMMA FinishOp ==
    ASSUME TypeOK, NEW p \in Proc, Finish(p)
    PROVE  /\ op' \in [Proc -> Op]
           /\ op'[p] = Idle
           /\ \A q \in Proc : q # p => op'[q] = op[q]
  BY IdleOp, BecomeOp DEF Finish

(***************************************************************************)
(* What a step does to the versions: it leaves each request its version,   *)
(* drops it, or gives it the next one.                                     *)
(***************************************************************************)

Keeps(p) == op'[p].version \in {0, op[p].version}

VersionStep ==
    \/ /\ \A p \in Proc : Keeps(p)
       /\ UNCHANGED announced
       /\ trip'.version = trip.version
    \/ \E p \in Proc :
          /\ op'[p].version \in {0, trip.version + 1}
          /\ \A q \in Proc : q # p => Keeps(q)
          /\ UNCHANGED announced
          /\ trip'.version = trip.version + 1
          /\ trip'.version \in 1..MaxVersion
    \/ \E p \in Proc :
          /\ op'[p].version = 0
          /\ \A q \in Proc : q # p => Keeps(q)
          /\ announced' = [v \in 1..MaxVersion |->
                              announced[v] + IF v = op[p].version THEN 1 ELSE 0]
          /\ trip'.version = trip.version

(* The result of every step. *)
StepFacts == TInv' /\ VersionStep

LEMMA BeginFacts ==
    ASSUME TInv, NEW p \in Proc, NEW r \in Op, Begin(p, r), r.version = 0,
           r.pc = "plan" => r.starts \in Date /\ r.ends \in Date
    PROVE  StepFacts
<1>1. /\ op' \in [Proc -> Op] /\ op'[p] = r
      /\ \A q \in Proc : q # p => op'[q] = op[q]
  BY BecomeOp DEF Begin, TInv
<1>2. UNCHANGED <<trip, days, announced, shift>> /\ disturbed' \in BOOLEAN
  BY DEF Begin, TInv, TypeOK
<1>3. TInv'
  BY <1>1, <1>2 DEF TInv, TypeOK, PlanHasDates, DaysInRange
<1>4. VersionStep
  BY <1>1, <1>2 DEF VersionStep, Keeps
<1>5. QED  BY <1>3, <1>4 DEF StepFacts

LEMMA FinishFacts ==
    ASSUME TInv, NEW p \in Proc, Finish(p), trip' \in TripRow,
           trip'.version = trip.version, disturbed' \in BOOLEAN,
           UNCHANGED announced, shift' \in -MaxShift..MaxShift,
           days' \in SUBSET (1 + shift' .. MaxDate + shift')
    PROVE  StepFacts
<1>1. /\ op' \in [Proc -> Op] /\ op'[p] = Idle
      /\ \A q \in Proc : q # p => op'[q] = op[q]
  BY FinishOp DEF TInv
<1>2. days' \in SUBSET (1 - MaxShift .. MaxDate + MaxShift)
  BY RangeMoved
<1>3. TInv'
  BY <1>1, <1>2, IdleOp DEF TInv, TypeOK, PlanHasDates, DaysInRange
<1>4. VersionStep
  BY <1>1, IdleOp DEF VersionStep, Keeps
<1>5. QED  BY <1>3, <1>4 DEF StepFacts

LEMMA FailFacts ==
    ASSUME TInv, NEW p \in Proc, Finish(p),
           UNCHANGED <<trip, days, announced, shift>>, disturbed' \in BOOLEAN
    PROVE  StepFacts
  BY FinishFacts DEF TInv, TypeOK, DaysInRange

(***************************************************************************)
(* Each action in turn                                                     *)
(***************************************************************************)

LEMMA WriteUpdateFacts ==
    ASSUME TInv, NEW p \in Proc, WriteUpdate(p)
    PROVE  StepFacts
<1> DEFINE patch == op[p].patch
           changed == DatesChanged(op[p])
           r(differs) ==
                Request(IF changed THEN "clear" ELSE "announce", NoPatch,
                        NoDate, NoDate,
                        IF changed \/ (patch.other /\ differs)
                        THEN trip.version + 1 ELSE 0)
<1>0. op[p] \in Op /\ patch \in Patch /\ trip \in TripRow
  BY DEF TInv, TypeOK, Op
<1>1. CASE Fail(p)
  BY <1>1, FailFacts DEF Fail, TInv, TypeOK
<1>2. CASE Empty(patch) /\ Finish(p)
           /\ UNCHANGED <<trip, days, announced, disturbed, shift>>
  BY <1>2, FailFacts DEF TInv, TypeOK
<1>3. CASE /\ trip.version < MaxVersion
           /\ trip' = [trip EXCEPT
                 !.starts = IF patch.setStarts THEN patch.starts ELSE @,
                 !.ends = IF patch.setEnds THEN patch.ends ELSE @,
                 !.version = trip.version + 1]
           /\ \E differs \in BOOLEAN : Become(p, r(differs))
           /\ UNCHANGED <<days, announced, disturbed, shift>>
  <2>0. PICK b \in BOOLEAN : Become(p, r(b))
    BY <1>3
  <2>1. trip.version + 1 \in 1..MaxVersion
    BY <1>0, <1>3 DEF TripRow
  <2>2. trip' \in TripRow /\ trip'.version = trip.version + 1
    BY <1>0, <1>3, <2>1 DEF TripRow, Patch
  <2>3. /\ r(b) \in Op /\ r(b).pc \in {"clear", "announce"}
        /\ r(b).version \in {0, trip.version + 1}
    BY <2>1, RequestOp, NoPatchType DEF MaybeDate
  <2> HIDE DEF r
  <2>4. /\ op' \in [Proc -> Op] /\ op'[p] = r(b)
        /\ \A q \in Proc : q # p => op'[q] = op[q]
    BY <2>0, <2>3, BecomeOp DEF TInv
  <2>5. TInv'
    BY <1>3, <2>2, <2>3, <2>4 DEF TInv, TypeOK, PlanHasDates, DaysInRange
  <2>6. VersionStep
    BY <1>3, <2>1, <2>2, <2>3, <2>4 DEF VersionStep, Keeps
  <2>7. QED  BY <2>5, <2>6 DEF StepFacts
<1>4. QED  BY <1>1, <1>2, <1>3 DEF WriteUpdate, NextVersion

LEMMA ClearFacts ==
    ASSUME TInv, NEW p \in Proc, ClearItinerary(p)
    PROVE  StepFacts
<1> DEFINE r == Request("announce", NoPatch, NoDate, NoDate, op[p].version)
<1>1. op[p].version \in 0..MaxVersion
  BY DEF TInv, TypeOK, Op
<1>2. r \in Op /\ r.pc = "announce" /\ r.version = op[p].version
  BY <1>1, RequestOp, NoPatchType DEF MaybeDate
<1>3. Become(p, r) /\ days' = {} /\ shift' = 0
      /\ UNCHANGED <<trip, announced, disturbed>>
  BY DEF ClearItinerary
<1> HIDE DEF r
<1>4. /\ op' \in [Proc -> Op] /\ op'[p] = r
      /\ \A q \in Proc : q # p => op'[q] = op[q]
  BY <1>2, <1>3, BecomeOp DEF TInv
<1>5. TInv'
  BY <1>2, <1>3, <1>4 DEF TInv, TypeOK, PlanHasDates, DaysInRange
<1>6. VersionStep
  BY <1>2, <1>3, <1>4 DEF VersionStep, Keeps
<1>7. QED  BY <1>5, <1>6 DEF StepFacts

LEMMA AnnounceFacts ==
    ASSUME TInv, NEW p \in Proc, AnnounceUpdate(p)
    PROVE  StepFacts
<1>1. /\ op' \in [Proc -> Op] /\ op'[p] = Idle
      /\ \A q \in Proc : q # p => op'[q] = op[q]
  BY FinishOp DEF AnnounceUpdate, TInv
<1>2. announced' \in [1..MaxVersion -> Nat]
  BY DEF AnnounceUpdate, TInv, TypeOK
<1>3. TInv'
  BY <1>1, <1>2, IdleOp
  DEF AnnounceUpdate, TInv, TypeOK, PlanHasDates, DaysInRange
<1>4. VersionStep
  BY <1>1, IdleOp DEF AnnounceUpdate, VersionStep, Keeps
<1>5. QED  BY <1>3, <1>4 DEF StepFacts

LEMMA ReplaceFacts ==
    ASSUME TInv, NEW p \in Proc, ReplaceDays(p)
    PROVE  StepFacts
<1>1. CASE Fail(p)
  BY <1>1, FailFacts DEF Fail, TInv, TypeOK
<1>2. CASE /\ days' = PlannedDays(op[p]) /\ shift' = 0 /\ Finish(p)
           /\ UNCHANGED <<trip, announced, disturbed>>
  <2>1. op[p].starts \in 1..MaxDate /\ op[p].ends \in 1..MaxDate
    BY DEF ReplaceDays, Pc, TInv, PlanHasDates, Date
  <2>2. days' \in SUBSET (1 + shift' .. MaxDate + shift')
    BY <1>2, <2>1 DEF PlannedDays
  <2>3. QED  BY <1>2, <2>2, FinishFacts DEF TInv, TypeOK
<1>3. QED  BY <1>1, <1>2 DEF ReplaceDays

LEMMA ShiftFacts ==
    ASSUME TInv, NEW p \in Proc, NEW delta \in {-1, 1}, ShiftDays(p, delta)
    PROVE  StepFacts
<1>1. shift \in Int /\ delta \in Int
  BY DEF TInv, TypeOK
<1>2. shift' \in -MaxShift..MaxShift
  BY <1>1 DEF ShiftDays
<1>3. \A d \in days : d \in 1 + shift .. MaxDate + shift
  BY DEF TInv, DaysInRange
<1>4. days' \in SUBSET (1 + shift' .. MaxDate + shift')
  <2>1. CASE days = {}
    BY <2>1 DEF ShiftDays
  <2>2. CASE days # {}
    <3>1. days' = {d + delta : d \in days} /\ shift' = shift + delta
      BY <2>2 DEF ShiftDays
    <3>2. \A d \in days : d + delta \in 1 + shift' .. MaxDate + shift'
      BY <1>1, <1>3, <3>1
    <3>3. QED  BY <3>1, <3>2
  <2>3. QED  BY <2>1, <2>2
<1>5. QED  BY <1>2, <1>4, FinishFacts DEF ShiftDays, TInv, TypeOK

LEMMA StatusFacts ==
    ASSUME TInv, NEW p \in Proc, WriteStatus(p)
    PROVE  StepFacts
<1>1. CASE Fail(p)
  BY <1>1, FailFacts DEF Fail, TInv, TypeOK
<1>2. CASE /\ trip' = [trip EXCEPT !.status =
                          IF Pc(p) = "lock" THEN "published" ELSE "draft"]
           /\ Finish(p) /\ UNCHANGED <<days, announced, disturbed, shift>>
  <2>1. trip' \in TripRow /\ trip'.version = trip.version
    BY <1>2 DEF TInv, TypeOK, TripRow
  <2>2. QED  BY <1>2, <2>1, FinishFacts DEF TInv, TypeOK, DaysInRange
<1>3. QED  BY <1>1, <1>2 DEF WriteStatus

LEMMA RowFacts ==
    ASSUME TInv, UNCHANGED <<op, announced, disturbed>>, trip' \in TripRow,
           trip'.version = trip.version,
           UNCHANGED <<days, shift>> \/ (days' = {} /\ shift' = 0)
    PROVE  StepFacts
<1>1. /\ shift' \in -MaxShift..MaxShift
      /\ days' \in SUBSET (1 + shift' .. MaxDate + shift')
      /\ days' \in SUBSET (1 - MaxShift .. MaxDate + MaxShift)
  <2>1. CASE UNCHANGED <<days, shift>>
    BY <2>1 DEF TInv, TypeOK, DaysInRange
  <2>2. CASE days' = {} /\ shift' = 0
    BY <2>2
  <2>3. QED  BY <2>1, <2>2
<1>2. TInv'
  BY <1>1 DEF TInv, TypeOK, PlanHasDates, DaysInRange
<1>3. VersionStep
  BY DEF VersionStep, Keeps
<1>4. QED  BY <1>2, <1>3 DEF StepFacts

LEMMA AllStepFacts == ASSUME TInv, [Next]_vars PROVE StepFacts
<1>0. /\ trip \in TripRow /\ trip.starts \in MaybeDate /\ trip.ends \in MaybeDate
      /\ NoDate \in MaybeDate /\ \A x \in MaybeDate : x # NoDate => x \in Date
  BY DEF TInv, TypeOK, TripRow, MaybeDate
<1>1. ASSUME NEW p \in Proc, NEW patch \in Patches, ReadForUpdate(p, patch)
      PROVE  StepFacts
  <2> DEFINE r == Request("write", patch, trip.starts, trip.ends, 0)
  <2>1. r \in Op /\ r.pc = "write" /\ r.version = 0
    BY <1>0, RequestOp DEF Patches
  <2>2. Begin(p, r)
    BY <1>1 DEF ReadForUpdate
  <2> HIDE DEF r
  <2>3. QED  BY <2>1, <2>2, BeginFacts
<1>2. ASSUME NEW p \in Proc, ReadForGenerate(p)
      PROVE  StepFacts
  <2> DEFINE r == Request("plan", NoPatch, trip.starts, trip.ends, 0)
  <2>1. /\ r \in Op /\ r.version = 0
        /\ r.starts = trip.starts /\ r.ends = trip.ends
    BY <1>0, RequestOp, NoPatchType
  <2>2. Begin(p, r) /\ trip.starts \in Date /\ trip.ends \in Date
    BY <1>0, <1>2 DEF ReadForGenerate
  <2> HIDE DEF r
  <2>3. QED  BY <2>1, <2>2, BeginFacts
<1>3. ASSUME NEW p \in Proc, NEW pc \in {"shift", "lock", "unlock"},
             Begin(p, Request(pc, NoPatch, NoDate, NoDate, 0))
      PROVE  StepFacts
  <2> DEFINE r == Request(pc, NoPatch, NoDate, NoDate, 0)
  <2>1. r \in Op /\ r.pc = pc /\ r.version = 0
    BY <1>0, RequestOp, NoPatchType
  <2> HIDE DEF r
  <2>2. Begin(p, r)
    BY <1>3 DEF r
  <2>3. QED  BY <2>1, <2>2, BeginFacts
<1>4. ASSUME NEW p \in Proc, ReadForShift(p) \/ ReadForLock(p) \/ ReadForUnlock(p)
      PROVE  StepFacts
  BY <1>3, <1>4 DEF ReadForShift, ReadForLock, ReadForUnlock
<1>5. ASSUME NEW p \in Proc, Continue(p)
      PROVE  StepFacts
  BY <1>5, WriteUpdateFacts, ClearFacts, AnnounceFacts, ReplaceFacts,
     ShiftFacts, StatusFacts DEF Continue
<1>6. ASSUME NEW p \in Proc, Abort(p)
      PROVE  StepFacts
  BY <1>6, FailFacts DEF Abort
<1>7. ASSUME NEW archive \in BOOLEAN, SetArchived(archive)
      PROVE  StepFacts
  BY <1>0, <1>7, RowFacts DEF SetArchived, TripRow
<1>8. ASSUME AutoArchive \/ AdminArchive
      PROVE  StepFacts
  BY <1>0, <1>8, RowFacts DEF AutoArchive, AdminArchive, TripRow
<1>9. ASSUME Delete
      PROVE  StepFacts
  BY <1>0, <1>9, RowFacts DEF Delete, TripRow
<1>10. CASE UNCHANGED vars
  BY <1>0, <1>10, RowFacts DEF vars
<1>11. QED
  BY <1>1, <1>2, <1>4, <1>5, <1>6, <1>7, <1>8, <1>9, <1>10 DEF Next

(***************************************************************************)
(* The theorems                                                            *)
(***************************************************************************)

(* Every variable keeps its type, whatever requests overlap: an itinerary  *)
(* never has a day outside the dates a trip can have, shifts included.     *)
THEOREM TypeCorrect == Spec => []TInv
<1>1. Init => TInv
  <2> SUFFICES ASSUME Init PROVE TInv
    OBVIOUS
  <2>1. trip \in TripRow
    BY DEF Init, TripRow, MaybeDate
  <2>2. days = {} /\ announced \in [1..MaxVersion -> Nat] /\ disturbed = FALSE
    BY DEF Init
  <2>3. shift \in -MaxShift..MaxShift
    BY DEF Init
  <2>4. op \in [Proc -> Op] /\ PlanHasDates
    BY IdleOp DEF Init, PlanHasDates
  <2>5. TypeOK /\ DaysInRange
    BY <2>1, <2>2, <2>3, <2>4 DEF TypeOK, DaysInRange
  <2>6. QED  BY <2>4, <2>5 DEF TInv
<1>2. TInv /\ [Next]_vars => TInv'
  BY AllStepFacts DEF StepFacts
<1>3. QED  BY <1>1, <1>2, PTL DEF Spec

(* The type invariant that the run checks. *)
THEOREM TypeOKHolds == Spec => []TypeOK
  BY TypeCorrect, PTL DEF TInv

(* The versions of updates that are still to be announced are different,   *)
(* announced by nobody and not above the version of the row.               *)
VersionInv ==
    /\ \A p \in Proc : op[p].version # 0 =>
          /\ op[p].version <= trip.version
          /\ announced[op[p].version] = 0
          /\ \A q \in Proc : q # p => op[q].version # op[p].version
    /\ VersionsAreUnique

LEMMA VersionInvStep ==
    ASSUME TInv, VersionInv, StepFacts
    PROVE  VersionInv'
<1>0. /\ trip.version \in 1..MaxVersion
      /\ \A p \in Proc : op[p].version \in 0..MaxVersion
      /\ announced \in [1..MaxVersion -> Nat]
  BY DEF TInv, TypeOK, TripRow, Op
<1>1. CASE /\ \A p \in Proc : Keeps(p)
           /\ UNCHANGED announced
           /\ trip'.version = trip.version
  BY <1>0, <1>1 DEF VersionInv, VersionsAreUnique, Keeps
<1>2. ASSUME NEW p \in Proc,
             op'[p].version \in {0, trip.version + 1},
             \A q \in Proc : q # p => Keeps(q),
             UNCHANGED announced,
             trip'.version = trip.version + 1,
             trip'.version \in 1..MaxVersion
      PROVE  VersionInv'
  <2>1. announced[trip.version + 1] = 0
    BY <1>0, <1>2 DEF VersionInv, VersionsAreUnique
  <2>2. \A q \in Proc : op[q].version # trip.version + 1
    BY <1>0 DEF VersionInv
  <2>3. QED  BY <1>0, <1>2, <2>1, <2>2, SMTT(30) DEF VersionInv, VersionsAreUnique, Keeps
<1>3. ASSUME NEW p \in Proc,
             op'[p].version = 0,
             \A q \in Proc : q # p => Keeps(q),
             announced' = [v \in 1..MaxVersion |->
                              announced[v] + IF v = op[p].version THEN 1 ELSE 0],
             trip'.version = trip.version
      PROVE  VersionInv'
  <2>1. VersionsAreUnique'
    BY <1>0, <1>3 DEF VersionInv, VersionsAreUnique
  <2>2. ASSUME NEW q \in Proc, op'[q].version # 0
        PROVE  /\ op'[q].version <= trip'.version
               /\ announced'[op'[q].version] = 0
               /\ \A s \in Proc : s # q => op'[s].version # op'[q].version
    <3>1. /\ q # p /\ op'[q].version = op[q].version
          /\ op[q].version \in 1..MaxVersion
      BY <1>0, <1>3, <2>2 DEF Keeps
    <3>2. op[q].version # op[p].version /\ announced[op[q].version] = 0
      BY <1>0, <3>1 DEF VersionInv
    <3>3. \A s \in Proc : s # q => op'[s].version # op'[q].version
      BY <1>0, <1>3, <3>1 DEF VersionInv, Keeps
    <3>4. QED  BY <1>0, <1>3, <3>1, <3>2, <3>3 DEF VersionInv
  <2>3. QED  BY <2>1, <2>2 DEF VersionInv
<1>4. QED  BY <1>1, <1>2, <1>3 DEF StepFacts, VersionStep

(* No two updates announce one version, for any number of overlapping      *)
(* requests: the increment in the database orders them.                    *)
THEOREM VersionsNeverRepeat == Spec => []VersionsAreUnique
<1>1. Init => VersionInv
  BY IdleOp DEF Init, VersionInv, VersionsAreUnique
<1>2. TInv /\ VersionInv /\ [Next]_vars => VersionInv'
  BY AllStepFacts, VersionInvStep
<1>3. QED  BY <1>1, <1>2, TypeCorrect, PTL DEF Spec, VersionInv

(* A deleted trip has no itinerary, and no request that was in progress    *)
(* across the deletion brings one back.                                    *)
THEOREM DeletedStaysEmpty == Spec => []DeletedHasNoDays
<1>1. Init => DeletedHasNoDays
  BY DEF Init, DeletedHasNoDays
<1>2. TInv /\ DeletedHasNoDays /\ [Next]_vars => DeletedHasNoDays'
  <2> SUFFICES ASSUME TInv, DeletedHasNoDays, [Next]_vars
               PROVE  DeletedHasNoDays'
    OBVIOUS
  <2>0. trip \in TripRow
    BY DEF TInv, TypeOK
  <2>1. ASSUME NEW p \in Proc, NEW r, Begin(p, r)
        PROVE  DeletedHasNoDays'
    BY <2>1 DEF Begin, DeletedHasNoDays
  <2>2. ASSUME NEW p \in Proc, Fail(p) \/ Abort(p) \/ AnnounceUpdate(p)
        PROVE  DeletedHasNoDays'
    BY <2>2 DEF Fail, Abort, AnnounceUpdate, DeletedHasNoDays
  <2>3. ASSUME NEW p \in Proc, WriteUpdate(p)
        PROVE  DeletedHasNoDays'
    BY <2>0, <2>2, <2>3 DEF WriteUpdate, DeletedHasNoDays, TripRow
  <2>4. ASSUME NEW p \in Proc, ClearItinerary(p)
        PROVE  DeletedHasNoDays'
    BY <2>4 DEF ClearItinerary, DeletedHasNoDays
  <2>5. ASSUME NEW p \in Proc, ReplaceDays(p)
        PROVE  DeletedHasNoDays'
    BY <2>2, <2>5 DEF ReplaceDays, DeletedHasNoDays
  <2>6. ASSUME NEW p \in Proc, NEW delta \in {-1, 1}, ShiftDays(p, delta)
        PROVE  DeletedHasNoDays'
    BY <2>6 DEF ShiftDays, DeletedHasNoDays
  <2>7. ASSUME NEW p \in Proc, WriteStatus(p)
        PROVE  DeletedHasNoDays'
    BY <2>0, <2>2, <2>7 DEF WriteStatus, DeletedHasNoDays, TripRow
  <2>8. ASSUME NEW archive \in BOOLEAN,
               SetArchived(archive) \/ AutoArchive \/ AdminArchive
        PROVE  DeletedHasNoDays'
    BY <2>0, <2>8
    DEF SetArchived, AutoArchive, AdminArchive, DeletedHasNoDays, TripRow
  <2>9. CASE Delete \/ UNCHANGED vars
    BY <2>9 DEF Delete, vars, DeletedHasNoDays
  <2>10. QED
    BY <2>1, <2>2, <2>3, <2>4, <2>5, <2>6, <2>7, <2>8, <2>9
    DEF Next, Continue, ReadForUpdate, ReadForGenerate, ReadForShift,
        ReadForLock, ReadForUnlock
<1>3. QED  BY <1>1, <1>2, TypeCorrect, PTL DEF Spec

(***************************************************************************)
(* The itinerary and the window                                            *)
(***************************************************************************)

Matches ==
    days # {} =>
        /\ NoDate \notin {trip.starts, trip.ends}
        /\ {d - shift : d \in days} = trip.starts .. trip.ends

(* What the request read of the row still holds. *)
ReadNow(p) == op[p].starts = trip.starts /\ op[p].ends = trip.ends

(* What makes ItineraryMatchesWindow inductive: as long as nothing was     *)
(* disturbed only one request is in progress, what it read is still so,    *)
(* and the itinerary is wrong only while that request is about to clear it.*)
WindowInv ==
    ~disturbed =>
        /\ \A p, q \in Proc : Pc(p) # "idle" /\ Pc(q) # "idle" => p = q
        /\ Ordered(trip.starts, trip.ends)
        /\ Matches \/ \E p \in Proc : Pc(p) = "clear"
        /\ \A p \in Proc :
              /\ Pc(p) = "write" => ReadNow(p) /\ Acceptable(op[p].patch)
              /\ Pc(p) = "plan" =>
                    ReadNow(p) /\ NoDate \notin {trip.starts, trip.ends}

(* A step of the only request in progress. *)
LEMMA AloneStep ==
    ASSUME NEW p \in Proc, \A q \in Proc : q # p => op'[q].pc = "idle",
           Ordered(trip.starts, trip.ends)',
           op'[p].pc = "clear" \/ Matches',
           op'[p].pc \in {"write", "plan"} => ReadNow(p)',
           op'[p].pc = "write" => Acceptable(op[p].patch)',
           op'[p].pc = "plan" => NoDate \notin {trip'.starts, trip'.ends}
    PROVE  WindowInv'
  BY DEF WindowInv, Pc

(* A step that leaves the dates of the row and the days alone.             *)
LEMMA RowStep ==
    ASSUME WindowInv, UNCHANGED <<op, disturbed>>,
           trip'.starts = trip.starts, trip'.ends = trip.ends,
           Matches => Matches'
    PROVE  WindowInv'
  BY DEF WindowInv, Pc, ReadNow, Acceptable

LEMMA MatchesKept ==
    ASSUME UNCHANGED <<days, shift>> \/ days' = {},
           trip'.starts = trip.starts, trip'.ends = trip.ends, Matches
    PROVE  Matches'
  BY DEF Matches

LEMMA MatchesShifted ==
    ASSUME TInv, NEW delta \in {-1, 1}, Matches, UNCHANGED trip,
           days' = {d + delta : d \in days},
           shift' = IF days = {} THEN 0 ELSE shift + delta
    PROVE  Matches'
<1> SUFFICES ASSUME days' # {}
             PROVE  /\ NoDate \notin {trip.starts, trip.ends}
                    /\ {d - shift' : d \in days'} = trip.starts .. trip.ends
  BY DEF Matches
<1>1. days # {}
  OBVIOUS
<1>2. shift \in Int /\ shift' = shift + delta /\ \A d \in days : d \in Int
  BY <1>1 DEF TInv, TypeOK, DaysInRange
<1>3. \A d \in days : (d + delta) - shift' = d - shift
  BY <1>2
<1>4. {d - shift' : d \in days'} = {d - shift : d \in days}
  BY <1>3
<1>5. QED  BY <1>1, <1>4 DEF Matches

(* A request that ends without a change of dates or days. *)
LEMMA WindowFinish ==
    ASSUME TInv, WindowInv, ~disturbed, NEW p \in Proc, Pc(p) # "idle",
           Finish(p), trip'.starts = trip.starts, trip'.ends = trip.ends,
           Pc(p) = "clear" \/ Matches => Matches'
    PROVE  WindowInv'
<1>1. op'[p] = Idle /\ \A q \in Proc : q # p => op'[q] = op[q]
  BY FinishOp DEF TInv
<1>2. \A q \in Proc : q # p => op'[q].pc = "idle"
  BY <1>1 DEF WindowInv, Pc
<1>3. Matches \/ Pc(p) = "clear"
  BY DEF WindowInv, Pc
<1>4. Ordered(trip.starts, trip.ends)'
  BY DEF WindowInv
<1>5. QED  BY <1>1, <1>2, <1>3, <1>4, IdleOp, AloneStep

LEMMA WindowBegin ==
    ASSUME TInv, WindowInv, ~disturbed', NEW p \in Proc, NEW r \in Op,
           Begin(p, r), r.pc # "clear",
           r.pc \in {"write", "plan"} =>
               r.starts = trip.starts /\ r.ends = trip.ends,
           r.pc = "write" => Acceptable(r.patch),
           r.pc = "plan" => NoDate \notin {trip.starts, trip.ends}
    PROVE  WindowInv'
<1>1. /\ op'[p] = r /\ \A q \in Proc : q # p => op'[q] = op[q]
  BY BecomeOp DEF Begin, TInv
<1>2. ~disturbed /\ \A q \in Proc : Pc(q) = "idle"
  BY DEF Begin
<1>3. UNCHANGED <<trip, days, shift>>
  BY DEF Begin
<1>4. Matches /\ Ordered(trip.starts, trip.ends)
  BY <1>2 DEF WindowInv
<1>5. /\ Matches' /\ Ordered(trip.starts, trip.ends)'
  BY <1>3, <1>4 DEF Matches
<1>6. \A q \in Proc : q # p => op'[q].pc = "idle"
  BY <1>1, <1>2 DEF Pc
<1>7. op'[p].pc \in {"write", "plan"} => ReadNow(p)'
  BY <1>1, <1>3 DEF ReadNow
<1>8. op'[p].pc = "write" => Acceptable(op[p].patch)'
  BY <1>1, <1>3 DEF Acceptable
<1>9. QED  BY <1>1, <1>3, <1>5, <1>6, <1>7, <1>8, AloneStep

LEMMA WindowWrite ==
    ASSUME TInv, WindowInv, ~disturbed, NEW p \in Proc, WriteUpdate(p)
    PROVE  WindowInv'
<1> DEFINE patch == op[p].patch
           changed == DatesChanged(op[p])
           r(differs) ==
                Request(IF changed THEN "clear" ELSE "announce", NoPatch,
                        NoDate, NoDate,
                        IF changed \/ (patch.other /\ differs)
                        THEN trip.version + 1 ELSE 0)
<1>0. /\ op[p] \in Op /\ patch \in Patch /\ trip \in TripRow
      /\ Pc(p) = "write" /\ trip.version \in Nat
  BY DEF TInv, TypeOK, Op, WriteUpdate, TripRow
<1>1. CASE Finish(p) /\ UNCHANGED <<trip, days, shift>>
  BY <1>0, <1>1, WindowFinish, MatchesKept
<1>2. CASE /\ trip.version < MaxVersion
           /\ trip' = [trip EXCEPT
                 !.starts = IF patch.setStarts THEN patch.starts ELSE @,
                 !.ends = IF patch.setEnds THEN patch.ends ELSE @,
                 !.version = trip.version + 1]
           /\ \E differs \in BOOLEAN : Become(p, r(differs))
           /\ UNCHANGED <<days, announced, disturbed, shift>>
  <2>0. PICK b \in BOOLEAN : Become(p, r(b))
    BY <1>2
  <2>1. r(b) \in Op /\ r(b).pc = IF changed THEN "clear" ELSE "announce"
    <3>1. trip.version + 1 \in 0..MaxVersion
      BY <1>0, <1>2
    <3>2. QED  BY <3>1, RequestOp, NoPatchType DEF MaybeDate
  <2> HIDE DEF r
  <2>2. op'[p] = r(b) /\ \A q \in Proc : q # p => op'[q] = op[q]
    BY <2>0, <2>1, BecomeOp DEF TInv
  <2>3. \A q \in Proc : q # p => op'[q].pc = "idle"
    BY <1>0, <2>2 DEF WindowInv, Pc
  <2>4. /\ trip'.starts = IF patch.setStarts THEN patch.starts ELSE trip.starts
        /\ trip'.ends = IF patch.setEnds THEN patch.ends ELSE trip.ends
    BY <1>0, <1>2 DEF TripRow
  <2>5. /\ Acceptable(patch) /\ ReadNow(p)
        /\ Matches
    BY <1>0 DEF WindowInv, Pc
  <2>6. Ordered(trip.starts, trip.ends)'
    BY <2>4, <2>5 DEF Acceptable, Ordered
  <2>7. ~changed => trip'.starts = trip.starts /\ trip'.ends = trip.ends
    BY <2>4, <2>5 DEF ReadNow, DatesChanged
  <2>8. ~changed => Matches'
    BY <1>2, <2>5, <2>7, MatchesKept
  <2>9. QED  BY <2>1, <2>2, <2>3, <2>6, <2>8, AloneStep
<1>3. QED  BY <1>1, <1>2 DEF WriteUpdate, NextVersion, Fail

LEMMA WindowClear ==
    ASSUME TInv, WindowInv, ~disturbed, NEW p \in Proc, ClearItinerary(p)
    PROVE  WindowInv'
<1> DEFINE r == Request("announce", NoPatch, NoDate, NoDate, op[p].version)
<1>1. r \in Op /\ r.pc = "announce"
  <2>1. op[p].version \in 0..MaxVersion
    BY DEF TInv, TypeOK, Op
  <2>2. NoDate \in MaybeDate
    BY DEF MaybeDate
  <2>3. QED  BY <2>1, <2>2, RequestOp, NoPatchType
<1>2. /\ Become(p, r) /\ Pc(p) = "clear" /\ days' = {} /\ UNCHANGED trip
  BY DEF ClearItinerary
<1> HIDE DEF r
<1>3. op'[p] = r /\ \A q \in Proc : q # p => op'[q] = op[q]
  BY <1>1, <1>2, BecomeOp DEF TInv
<1>4. \A q \in Proc : q # p => op'[q].pc = "idle"
  BY <1>2, <1>3 DEF WindowInv, Pc
<1>5. Matches' /\ Ordered(trip.starts, trip.ends)'
  BY <1>2 DEF Matches, WindowInv
<1>6. QED  BY <1>1, <1>3, <1>4, <1>5, AloneStep

LEMMA WindowReplace ==
    ASSUME TInv, WindowInv, ~disturbed, NEW p \in Proc, ReplaceDays(p)
    PROVE  WindowInv'
<1>1. CASE Fail(p)
  BY <1>1, WindowFinish, MatchesKept DEF Fail, ReplaceDays
<1>2. CASE /\ days' = PlannedDays(op[p]) /\ shift' = 0 /\ Finish(p)
           /\ UNCHANGED <<trip, announced, disturbed>>
  <2>1. /\ Pc(p) = "plan" /\ NoDate \notin {trip.starts, trip.ends}
        /\ days' = trip.starts .. trip.ends
    BY <1>2 DEF ReplaceDays, WindowInv, ReadNow, PlannedDays
  <2>2. \A d \in days' : d - shift' = d
    BY <1>2, <2>1 DEF TInv, TypeOK, TripRow, MaybeDate, Date
  <2>3. {d - shift' : d \in days'} = days'
    BY <2>2
  <2>4. Matches'
    BY <1>2, <2>1, <2>3 DEF Matches
  <2>5. QED  BY <1>2, <2>1, <2>4, WindowFinish
<1>3. QED  BY <1>1, <1>2 DEF ReplaceDays

LEMMA WindowStep ==
    ASSUME TInv, WindowInv, [Next]_vars
    PROVE  WindowInv'
<1> SUFFICES ASSUME ~disturbed'
             PROVE  WindowInv'
  BY DEF WindowInv
<1>0. /\ trip \in TripRow /\ trip.starts \in MaybeDate /\ trip.ends \in MaybeDate
      /\ NoDate \in MaybeDate
  BY DEF TInv, TypeOK, TripRow, MaybeDate
<1>1. ASSUME NEW p \in Proc, NEW patch \in Patches, ReadForUpdate(p, patch)
      PROVE  WindowInv'
  <2> DEFINE r == Request("write", patch, trip.starts, trip.ends, 0)
  <2>1. r \in Op /\ r.pc = "write" /\ r.patch = patch
        /\ r.starts = trip.starts /\ r.ends = trip.ends
    BY <1>0, RequestOp DEF Patches, Request
  <2>2. Begin(p, r) /\ Acceptable(r.patch)
    BY <1>1, <2>1 DEF ReadForUpdate
  <2> HIDE DEF r
  <2>3. QED  BY <2>1, <2>2, WindowBegin
<1>2. ASSUME NEW p \in Proc, ReadForGenerate(p)
      PROVE  WindowInv'
  <2> DEFINE r == Request("plan", NoPatch, trip.starts, trip.ends, 0)
  <2>1. /\ r \in Op /\ r.pc = "plan"
        /\ r.starts = trip.starts /\ r.ends = trip.ends
    BY <1>0, RequestOp, NoPatchType
  <2>2. Begin(p, r) /\ NoDate \notin {trip.starts, trip.ends}
    BY <1>2 DEF ReadForGenerate
  <2> HIDE DEF r
  <2>3. QED  BY <2>1, <2>2, WindowBegin
<1>3. ASSUME NEW p \in Proc, NEW pc \in {"shift", "lock", "unlock"},
             Begin(p, Request(pc, NoPatch, NoDate, NoDate, 0))
      PROVE  WindowInv'
  <2> DEFINE r == Request(pc, NoPatch, NoDate, NoDate, 0)
  <2>1. r \in Op /\ r.pc = pc
    BY <1>0, RequestOp, NoPatchType
  <2> HIDE DEF r
  <2>2. Begin(p, r)
    BY <1>3 DEF r
  <2>3. QED  BY <2>1, <2>2, WindowBegin
<1>4. ASSUME NEW p \in Proc, ReadForShift(p) \/ ReadForLock(p) \/ ReadForUnlock(p)
      PROVE  WindowInv'
  BY <1>3, <1>4 DEF ReadForShift, ReadForLock, ReadForUnlock
<1>5. ASSUME NEW p \in Proc, WriteUpdate(p) \/ ClearItinerary(p) \/ ReplaceDays(p)
      PROVE  WindowInv'
  <2>1. ~disturbed
    BY <1>5 DEF WriteUpdate, ClearItinerary, ReplaceDays, Fail
  <2>2. QED  BY <1>5, <2>1, WindowWrite, WindowClear, WindowReplace
<1>6. ASSUME NEW p \in Proc, AnnounceUpdate(p)
      PROVE  WindowInv'
  BY <1>6, WindowFinish, MatchesKept DEF AnnounceUpdate
<1>7. ASSUME NEW p \in Proc, NEW delta \in {-1, 1}, ShiftDays(p, delta)
      PROVE  WindowInv'
  BY <1>7, WindowFinish, MatchesShifted DEF ShiftDays
<1>8. ASSUME NEW p \in Proc, WriteStatus(p)
      PROVE  WindowInv'
  <2>1. /\ Finish(p) /\ UNCHANGED <<days, disturbed, shift>>
        /\ trip'.starts = trip.starts /\ trip'.ends = trip.ends
    BY <1>0, <1>8 DEF WriteStatus, Fail, TripRow
  <2>2. QED  BY <1>8, <2>1, WindowFinish, MatchesKept DEF WriteStatus
<1>9. ASSUME NEW p \in Proc, Abort(p)
      PROVE  WindowInv'
  BY <1>9 DEF Abort
<1>10. ASSUME NEW archive \in BOOLEAN,
              SetArchived(archive) \/ AutoArchive \/ AdminArchive \/ Delete
       PROVE  WindowInv'
  <2>1. /\ UNCHANGED <<op, disturbed>>
        /\ UNCHANGED <<days, shift>> \/ days' = {}
        /\ trip'.starts = trip.starts /\ trip'.ends = trip.ends
    BY <1>0, <1>10
    DEF SetArchived, AutoArchive, AdminArchive, Delete, TripRow
  <2>2. QED  BY <2>1, RowStep, MatchesKept
<1>11. CASE UNCHANGED vars
  BY <1>11, RowStep, MatchesKept DEF vars
<1>12. QED
  BY <1>1, <1>2, <1>4, <1>5, <1>6, <1>7, <1>8, <1>9, <1>10, <1>11
  DEF Next, Continue

(* As long as requests do not overlap and none is cut short, the itinerary *)
(* covers exactly the window of the trip, up to the shift the user asked   *)
(* for, for any dates and any number of updates, generations and shifts.   *)
THEOREM ItineraryFollowsWindow == Spec => []ItineraryMatchesWindow
<1>1. Init => WindowInv
  BY IdleOp DEF Init, WindowInv, Matches, Ordered, Pc
<1>2. TInv /\ WindowInv /\ [Next]_vars => WindowInv'
  BY WindowStep
<1>3. WindowInv => ItineraryMatchesWindow
  BY DEF WindowInv, ItineraryMatchesWindow, Matches, Pc
<1>4. QED  BY <1>1, <1>2, <1>3, TypeCorrect, PTL DEF Spec
=============================================================================
