----------------------------- MODULE AccessProofs ----------------------------
(***************************************************************************)
(* Proofs about what lets a call or a request through: CircuitBreaker,     *)
(* Keyring, LoginGuard and LoginCodes, for any number of calls, processes, *)
(* keys and requests and every limit.                                      *)
(***************************************************************************)
EXTENDS BreakerRefinement, Keyring, LoginGuard, LoginCodes,
        FiniteSetTheorems, WellFoundedInduction, TLAPS

(***************************************************************************)
(* Circuit breaker: it implements the documented breaker as long as no     *)
(* call outlives its circuit period and none shares a half-open one.       *)
(***************************************************************************)

(***************************************************************************)
(* ClosedMeansHealthy is not inductive: why the code's own counter agrees  *)
(* with the history of outcomes has to be added.  The counter and the      *)
(* history agree while the breaker is closed; otherwise the counter may    *)
(* lag behind, because half-open failures are not counted.                 *)
(***************************************************************************)
CountsAgree ==
    /\ state = "closed" => consecutiveFailures = recent
    /\ consecutiveFailures <= recent
    /\ state = "closed" => recent < Threshold

BInv == TypeOK /\ CountsAgree

LEMMA BInvInit == Init => BInv
  <1> SUFFICES ASSUME Init PROVE BInv
    OBVIOUS
  <1>1. mixed \in BOOLEAN
    BY DEF Init
  <1> QED BY <1>1, BreakerAssumption DEF Init, BInv, TypeOK, CountsAgree

(* A saturating increment stays in range, grows by at most one, and        *)
(* reaches the bound exactly when the plain increment does.                *)
LEMMA UpToStep ==
    ASSUME NEW n \in 0..Threshold
    PROVE  /\ UpTo(n + 1, Threshold) \in 0..Threshold
           /\ n < Threshold => UpTo(n + 1, Threshold) = n + 1
           /\ n = Threshold => UpTo(n + 1, Threshold) = Threshold
  BY BreakerAssumption DEF UpTo

LEMMA BInvAdmit ==
    ASSUME BInv, NEW c \in Call, Admit(c)
    PROVE  BInv'
  <1>1. /\ state' = StateNow
        /\ UNCHANGED <<consecutiveFailures, elapsed, recent>>
        /\ running' = running \cup {c}
        /\ probes' \in SUBSET running'
    BY DEF Admit, BInv, TypeOK
  <1>2. StateNow \in {"half-open", state}
    BY DEF StateNow
  <1>m. mixed' \in BOOLEAN
    BY DEF Admit
  <1>3. TypeOK'
    BY <1>1, <1>2, <1>m DEF BInv, TypeOK
  <1>4. CountsAgree'
    BY <1>1, <1>2 DEF BInv, CountsAgree
  <1> QED BY <1>3, <1>4 DEF BInv

(* The bookkeeping of calls is the same for the three outcomes. *)
LEMMA CallsAfter ==
    ASSUME BInv, NEW c \in Call, Ended(c), ProbesAfter(c)
    PROVE  running' \in SUBSET Call /\ probes' \in SUBSET running'
  BY DEF BInv, TypeOK, Ended, ProbesAfter

LEMMA BInvSuccess ==
    ASSUME BInv, NEW c \in Call, Success(c)
    PROVE  BInv'
  <1>1. running' \in SUBSET Call /\ probes' \in SUBSET running'
    BY CallsAfter DEF Success
  <1>2. consecutiveFailures' = 0 /\ recent' = 0 /\ elapsed' = elapsed
    BY DEF Success, RecordSuccess
  <1>3. state' \in {"closed", state}
    BY DEF Success, RecordSuccess
  <1>m. mixed' \in BOOLEAN
    BY DEF Success, BInv, TypeOK
  <1> QED BY <1>1, <1>2, <1>3, <1>m, BreakerAssumption DEF BInv, TypeOK, CountsAgree

LEMMA BInvFailure ==
    ASSUME BInv, NEW c \in Call, Failure(c)
    PROVE  BInv'
  <1>1. running' \in SUBSET Call /\ probes' \in SUBSET running'
    BY CallsAfter DEF Failure
  <1>2. /\ recent' = UpTo(recent + 1, Threshold)
        /\ recent \in 0..Threshold
        /\ consecutiveFailures \in 0..Threshold
    BY DEF Failure, BInv, TypeOK
  <1>3. recent' \in 0..Threshold
    BY <1>2, UpToStep
  <1>m. mixed' \in BOOLEAN
    BY DEF Failure
  <1>4. CASE state = "half-open"
    <2>1. /\ consecutiveFailures' = consecutiveFailures
          /\ state' = "open" /\ elapsed' = 0
      BY <1>4 DEF Failure, RecordFailure
    <2>2. consecutiveFailures <= recent'
      BY <1>2, UpToStep, BreakerAssumption DEF BInv, CountsAgree
    <2> QED BY <1>1, <1>3, <1>m, <2>1, <2>2, BreakerAssumption
            DEF BInv, TypeOK, CountsAgree
  <1>5. CASE state # "half-open"
    <2>1. consecutiveFailures' = UpTo(consecutiveFailures + 1, Threshold)
      BY <1>5 DEF Failure, RecordFailure
    <2>2. consecutiveFailures' \in 0..Threshold
      BY <1>2, <2>1, UpToStep
    <2>3. consecutiveFailures' <= recent'
      BY <1>2, <2>1, UpToStep, BreakerAssumption DEF BInv, CountsAgree
    <2>4. CASE consecutiveFailures + 1 >= Threshold
      <3>1. state' = "open" /\ elapsed' = 0
        BY <1>5, <2>4 DEF Failure, RecordFailure
      <3> QED BY <1>1, <1>3, <1>m, <2>2, <2>3, <3>1, BreakerAssumption
              DEF BInv, TypeOK, CountsAgree
    <2>5. CASE ~(consecutiveFailures + 1 >= Threshold)
      <3>1. state' = state /\ elapsed' = elapsed
        BY <1>5, <2>5 DEF Failure, RecordFailure
      <3>2. state = "closed" => recent' = consecutiveFailures'
        BY <1>2, <2>1 DEF BInv, CountsAgree
      <3>3. consecutiveFailures' < Threshold
        BY <1>2, <2>1, <2>5, UpToStep, BreakerAssumption
      <3> QED BY <1>1, <1>3, <1>m, <2>2, <2>3, <3>1, <3>2, <3>3
              DEF BInv, TypeOK, CountsAgree
    <2> QED BY <2>4, <2>5
  <1> QED BY <1>4, <1>5

LEMMA BInvExempt ==
    ASSUME BInv, NEW c \in Call, Exempt(c)
    PROVE  BInv'
  <1>1. running' \in SUBSET Call /\ probes' \in SUBSET running'
    BY CallsAfter DEF Exempt
  <1>2. UNCHANGED <<state, consecutiveFailures, elapsed, recent>>
    BY DEF Exempt
  <1>m. mixed' \in BOOLEAN
    BY DEF Exempt, BInv, TypeOK
  <1> QED BY <1>1, <1>2, <1>m DEF BInv, TypeOK, CountsAgree

LEMMA BInvNext == BInv /\ [Next]_vars => BInv'
  <1> SUFFICES ASSUME BInv, [Next]_vars PROVE BInv'
    OBVIOUS
  <1>1. CASE \E c \in Call : Admit(c)
    BY <1>1, BInvAdmit
  <1>2. CASE \E c \in Call : Success(c)
    BY <1>2, BInvSuccess
  <1>3. CASE \E c \in Call : Failure(c)
    BY <1>3, BInvFailure
  <1>4. CASE \E c \in Call : Exempt(c)
    BY <1>4, BInvExempt
  <1>5. CASE GetState
    BY <1>5 DEF GetState, BInv, TypeOK, CountsAgree
  <1>6. CASE Tick
    <2>1. mixed' \in BOOLEAN
      BY <1>6 DEF Tick, BInv, TypeOK
    <2> QED BY <1>6, <2>1, BreakerAssumption DEF Tick, BInv, TypeOK, CountsAgree
  <1>7. CASE UNCHANGED vars
    BY <1>7 DEF vars, BInv, TypeOK, CountsAgree
  <1> QED BY <1>1, <1>2, <1>3, <1>4, <1>5, <1>6, <1>7 DEF Next

(* The inductive invariant holds in every reachable state. *)
THEOREM BreakerInvariant == Spec => []BInv
  BY BInvInit, BInvNext, PTL DEF Spec

(* For every threshold and any number of overlapping calls, a breaker that *)
(* has just seen Threshold failures in a row is not closed.                *)
THEOREM ClosedIsHealthy == Spec => []ClosedMeansHealthy
  <1>1. BInv => ClosedMeansHealthy
    BY DEF BInv, CountsAgree, ClosedMeansHealthy
  <1> QED BY <1>1, BreakerInvariant, PTL

(* Only a failure can trip a closed breaker, and only at the end of a      *)
(* streak of Threshold failures.                                           *)
THEOREM TripsAreEarned == Spec => TripNeedsStreak
  <1> DEFINE Earned ==
        state = "closed" /\ state' = "open" => recent' = Threshold
  <1>1. BInv /\ [Next]_vars => [Earned]_vars
    <2> SUFFICES ASSUME BInv, Next, state = "closed", state' = "open"
                 PROVE  recent' = Threshold
      OBVIOUS
    <2>1. ~Recovered /\ StateNow = "closed"
      BY DEF Recovered, StateNow
    <2>2. PICK c \in Call : Failure(c)
      BY <2>1 DEF Next, Admit, Success, RecordSuccess, Exempt, GetState, Tick
    <2>3. consecutiveFailures + 1 >= Threshold
      BY <2>2 DEF Failure, RecordFailure
    <2>4. recent \in 0..Threshold /\ recent = consecutiveFailures
      BY DEF BInv, TypeOK, CountsAgree
    <2>5. recent' = UpTo(recent + 1, Threshold)
      BY <2>2 DEF Failure
    <2> QED BY <2>3, <2>4, <2>5, UpToStep, BreakerAssumption
            DEF BInv, CountsAgree
  <1>2. Spec => [][Earned]_vars
    BY <1>1, BreakerInvariant, PTL DEF Spec
  <1> QED BY <1>2 DEF TripNeedsStreak

(***************************************************************************)
(* The refinement                                                          *)
(***************************************************************************)

(* Until then, what runs outside a closed period is its only probe. *)
Tidy ==
    /\ state = "closed" => probes = {}
    /\ state = "open" => running = {}
    /\ state = "half-open" => running = probes
    /\ \A c, d \in probes : c = d

SInv == ~mixed => Tidy

LEMMA MixedStays == ASSUME BInv, Next, ~mixed' PROVE ~mixed
  BY DEF Next, Admit, Success, Failure, Exempt, GetState, Tick

LEMMA TidyStep ==
    ASSUME BInv, Tidy, Next, ~mixed'
    PROVE  Tidy'
  <1>0. running \in SUBSET Call /\ probes \in SUBSET running
        /\ state \in {"closed", "open", "half-open"}
    BY DEF BInv, TypeOK
  <1>1. ASSUME NEW c \in Call, Admit(c) PROVE Tidy'
    <2>1. CASE StateNow = "half-open"
      <3>1. running = {} /\ probes = {}
        BY <1>0, <1>1, <2>1 DEF Admit
      <3>2. running' = {c} /\ probes' = {c} /\ state' = "half-open"
        BY <1>1, <2>1, <3>1 DEF Admit
      <3> QED BY <3>2 DEF Tidy
    <2>2. CASE StateNow # "half-open"
      <3>1. state' = "closed" /\ state = "closed" /\ probes' = probes
        BY <1>0, <1>1, <2>2 DEF Admit, StateNow
      <3> QED BY <3>1 DEF Tidy
    <2> QED BY <2>1, <2>2
  <1>2. ASSUME NEW c \in Call, Success(c) PROVE Tidy'
    BY <1>0, <1>2 DEF Success, Ended, RecordSuccess, ProbesAfter, Tidy
  <1>3. ASSUME NEW c \in Call, Failure(c) PROVE Tidy'
    <2>1. CASE state' = "open"
      <3>1. running' = {} /\ probes' \in SUBSET running'
        BY <1>3, <2>1, CallsAfter DEF Failure
      <3> QED BY <2>1, <3>1 DEF Tidy
    <2>2. CASE state' # "open"
      <3>1. state' = state /\ state = "closed"
        BY <1>0, <1>3, <2>2 DEF Failure, RecordFailure
      <3> QED BY <1>0, <1>3, <3>1 DEF Failure, ProbesAfter, Tidy
    <2> QED BY <2>1, <2>2
  <1>4. ASSUME NEW c \in Call, Exempt(c) PROVE Tidy'
    BY <1>0, <1>4 DEF Exempt, Ended, ProbesAfter, Tidy
  <1>5. CASE GetState
    BY <1>0, <1>5 DEF GetState, Recovered, Tidy
  <1>6. CASE Tick
    BY <1>6 DEF Tick, Tidy
  <1> QED BY <1>1, <1>2, <1>3, <1>4, <1>5, <1>6 DEF Next

LEMMA SInvInvariant == Spec => []SInv
  <1>1. Init => SInv
    BY DEF Init, SInv, Tidy
  <1>2. BInv /\ SInv /\ [Next]_vars => SInv'
    <2> SUFFICES ASSUME BInv, SInv, [Next]_vars PROVE SInv'
      OBVIOUS
    <2>1. CASE Next
      BY <2>1, MixedStays, TidyStep DEF SInv
    <2>2. CASE UNCHANGED vars
      BY <2>2 DEF vars, SInv, Tidy
    <2> QED BY <2>1, <2>2
  <1> QED BY <1>1, <1>2, BreakerInvariant, PTL DEF Spec

(* What the mapping says of the probe when there is at most one. *)
LEMMA ProbeOfOne ==
    ASSUME NEW c \in Call
    PROVE  /\ probes = {} => Probe = None
           /\ probes = {c} => Probe = c
           /\ probes' = {} => Probe' = None
           /\ probes' = {c} => Probe' = c
           /\ None # c
  <1>1. /\ probes = {} => Probe = None
        /\ probes = {c} => Probe = c
    BY DEF Probe
  <1>2. /\ probes' = {} => Probe' = None
        /\ probes' = {c} => Probe' = c
    BY DEF Probe
  <1> QED BY <1>1, <1>2, NoneAssumption

LEMMA IdealStep ==
    ASSUME BInv, BInv', Tidy, Tidy', Next, ~mixed'
    PROVE  Ideal!Next \/ UNCHANGED Ideal!ideal
  <1>0. /\ running \in SUBSET Call /\ probes \in SUBSET running
        /\ elapsed \in 0..OpenMs
        /\ state \in {"closed", "open", "half-open"}
    BY DEF BInv, TypeOK
  <1>1. ASSUME NEW c \in Call, Admit(c) PROVE Ideal!Next
    <2>1. CASE StateNow = "half-open"
      <3>1. running = {} /\ probes = {} /\ running' = {c} /\ probes' = {c}
        BY <1>0, <1>1, <2>1 DEF Admit
      <3>2. state = "open" => elapsed = OpenMs
        BY <1>0, <2>1, BreakerAssumption DEF StateNow, Recovered
      <3>3. Ideal!PassProbe(c)
        BY <1>0, <1>1, <2>1, <3>1, <3>2, ProbeOfOne
           DEF Admit, StateNow, Recovered, Ideal!PassProbe
      <3> QED BY <3>3 DEF Ideal!Next
    <2>2. CASE StateNow # "half-open"
      <3>1. state' = "closed" /\ state = "closed" /\ probes' = probes /\ probes = {}
        BY <1>0, <1>1, <2>2 DEF Admit, StateNow, Tidy
      <3>2. Ideal!PassClosed(c)
        BY <1>1, <3>1, ProbeOfOne DEF Admit, Ideal!PassClosed
      <3> QED BY <3>2 DEF Ideal!Next
    <2> QED BY <2>1, <2>2
  <1>d. ASSUME NEW c \in Call, c \in running, state # "closed"
        PROVE  /\ state = "half-open" /\ running = {c} /\ probes = {c}
               /\ Probe = c /\ None # c
    <2>1. state = "half-open" /\ running = {c} /\ probes = {c}
      BY <1>0, <1>d DEF Tidy
    <2> QED BY <2>1, ProbeOfOne
  <1>c. ASSUME NEW c \in Call, state = "closed", Ended(c), ProbesAfter(c)
        PROVE  /\ c \in running /\ running' = running \ {c}
               /\ Probe = None /\ Probe' = None /\ None # c
    <2>1. probes = {} /\ probes' = {}
      BY <1>c DEF ProbesAfter, Tidy
    <2> QED BY <1>c, <2>1, ProbeOfOne DEF Ended
  <1>2. ASSUME NEW c \in Call, Success(c) PROVE Ideal!Next
    <2>1. CASE state = "closed"
      <3>1. Ideal!Succeeds(c)
        BY <1>2, <1>c, <2>1 DEF Success, RecordSuccess, Ideal!Succeeds
      <3> QED BY <3>1 DEF Ideal!Next
    <2>2. CASE state # "closed"
      <3>1. state = "half-open" /\ running = {c} /\ probes = {c} /\ Probe = c
        BY <1>2, <1>d, <2>2 DEF Success, Ended
      <3>2. probes' = {} /\ running' = running \ {c} /\ state' = "closed"
        BY <1>2, <3>1 DEF Success, Ended, RecordSuccess, ProbesAfter
      <3>3. Ideal!ProbeSucceeds(c)
        BY <1>2, <3>1, <3>2, ProbeOfOne
           DEF Success, RecordSuccess, Ideal!ProbeSucceeds
      <3> QED BY <3>3 DEF Ideal!Next
    <2> QED BY <2>1, <2>2
  <1>3. ASSUME NEW c \in Call, Failure(c) PROVE Ideal!Next
    <2>1. CASE state = "closed"
      <3>1. consecutiveFailures \in 0..Threshold /\ consecutiveFailures < Threshold
        BY <2>1 DEF BInv, TypeOK, CountsAgree
      <3>2. consecutiveFailures' = consecutiveFailures + 1
        BY <1>3, <2>1, <3>1, UpToStep DEF Failure, RecordFailure
      <3>3. /\ c \in running /\ running' = running \ {c}
            /\ Probe = None /\ Probe' = None
        BY <1>3, <1>c, <2>1 DEF Failure
      <3>4. IF consecutiveFailures + 1 = Threshold
            THEN state' = "open" /\ elapsed' = 0
            ELSE consecutiveFailures + 1 < Threshold
                 /\ state' = state /\ elapsed' = elapsed
        BY <1>3, <2>1, <3>1, BreakerAssumption DEF Failure, RecordFailure
      <3>5. Ideal!Fails(c)
        BY <2>1, <3>1, <3>2, <3>3, <3>4, BreakerAssumption
           DEF Ideal!Fails
      <3> QED BY <3>5 DEF Ideal!Next
    <2>2. CASE state # "closed"
      <3>1. state = "half-open" /\ running = {c} /\ probes = {c} /\ Probe = c
        BY <1>3, <1>d, <2>2 DEF Failure, Ended
      <3>2. probes' = {} /\ running' = running \ {c}
            /\ state' = "open" /\ elapsed' = 0
            /\ consecutiveFailures' = consecutiveFailures
        BY <1>3, <3>1 DEF Failure, Ended, RecordFailure, ProbesAfter
      <3>3. Ideal!ProbeFails(c)
        BY <3>1, <3>2, ProbeOfOne DEF Ideal!ProbeFails
      <3> QED BY <3>3 DEF Ideal!Next
    <2> QED BY <2>1, <2>2
  <1>4. ASSUME NEW c \in Call, Exempt(c) PROVE Ideal!Next
    <2>1. CASE state = "closed"
      <3>1. Ideal!Ignored(c)
        BY <1>4, <1>c, <2>1 DEF Exempt, Ideal!Ignored
      <3> QED BY <3>1 DEF Ideal!Next
    <2>2. CASE state # "closed"
      <3>1. state = "half-open" /\ running = {c} /\ probes = {c} /\ Probe = c
        BY <1>4, <1>d, <2>2 DEF Exempt, Ended
      <3>2. probes' = {} /\ running' = running \ {c}
        BY <1>4, <3>1 DEF Exempt, Ended, ProbesAfter
      <3>3. Ideal!ProbeUndecided(c)
        BY <1>4, <3>1, <3>2, ProbeOfOne DEF Exempt, Ideal!ProbeUndecided
      <3> QED BY <3>3 DEF Ideal!Next
    <2> QED BY <2>1, <2>2
  <1>5. CASE GetState
    <2>1. Probe' = Probe
      BY <1>5 DEF GetState, Probe
    <2>2. elapsed = OpenMs
      BY <1>0, <1>5, BreakerAssumption DEF GetState, Recovered
    <2>3. Ideal!CoolDown
      BY <1>5, <2>1, <2>2 DEF GetState, Recovered, Ideal!CoolDown
    <2> QED BY <2>3 DEF Ideal!Next
  <1>6. CASE Tick
    <2>1. Probe' = Probe
      BY <1>6 DEF Tick, Probe
    <2> QED BY <1>6, <2>1 DEF Tick, Ideal!Next, Ideal!TimePasses
  <1> QED BY <1>1, <1>2, <1>3, <1>4, <1>5, <1>6 DEF Next

(* For any number of calls, a breaker whose calls neither outlive a        *)
(* circuit period nor share a half-open one is the breaker of exec's       *)
(* comment: it fails fast for OpenMs after a trip, lets one probe through, *)
(* and lets the probe decide.                                              *)
THEOREM TidyIsIdeal == Spec => ImplementsIdeal
  <1> DEFINE Step == ~mixed' => Ideal!Next \/ UNCHANGED Ideal!ideal
  <1>1. Init => Ideal!Init
    BY DEF Init, Ideal!Init, Probe
  <1>2. BInv /\ BInv' /\ SInv /\ SInv' /\ [Next]_vars => [Step]_vars
    <2> SUFFICES ASSUME BInv, BInv', SInv, SInv', Next, ~mixed'
                 PROVE  Ideal!Next \/ UNCHANGED Ideal!ideal
      OBVIOUS
    <2> QED BY MixedStays, IdealStep DEF SInv
  <1>3. Spec => [][Step]_vars
    BY <1>2, BreakerInvariant, SInvInvariant, PTL DEF Spec
  <1> QED BY <1>1, <1>3 DEF Spec, ImplementsIdeal

(***************************************************************************)
(* Key ring                                                                *)
(***************************************************************************)

AnyKey == Key \cup {Bootstrap}

CallRecord ==
    [pc : {"idle", "get", "read", "seed", "seeded", "write", "wrote"},
     at : Instance, rotates : BOOLEAN, ring : Ring]

LEMMA NoCallType == NoCall \in CallRecord
  BY KeyringAssumption DEF NoCall, CallRecord, Ring

LEMMA ProceedType ==
    ASSUME KeyringTypeOK, NEW c \in RingCall, NEW r \in Ring, Proceed(c, r)
    PROVE  ringCall' \in [RingCall -> CallRecord]
  BY NoCallType DEF KeyringTypeOK, Proceed, CallRecord

LEMMA KeyringTypeStep ==
    ASSUME KeyringTypeOK, [KeyringNext]_keyringVars
    PROVE  KeyringTypeOK'
  <1> USE DEF CallRecord
  <1>1. ASSUME NEW c \in RingCall, NEW n \in Instance, NEW rotates \in BOOLEAN,
               CallRing(c, n, rotates)
        PROVE  KeyringTypeOK'
    <2>1. PICK q \in CallRecord : ringCall' = [ringCall EXCEPT ![c] = q]
      <3>1. CASE copies[n] = {}
        BY <1>1, <3>1 DEF CallRing, Ring
      <3>2. CASE copies[n] # {}
        BY <1>1, <3>2 DEF CallRing, KeyringTypeOK
      <3> QED BY <3>1, <3>2
    <2> QED BY <1>1, <2>1 DEF KeyringTypeOK, CallRing
  <1>2. ASSUME NEW c \in RingCall, GetStored(c) PROVE KeyringTypeOK'
    BY <1>2 DEF KeyringTypeOK, GetStored
  <1>3. ASSUME NEW c \in RingCall, TakeCopy(c) PROVE KeyringTypeOK'
    <2>1. ringCall[c].ring \in Ring /\ ringCall[c].at \in Instance
      BY DEF KeyringTypeOK
    <2>2. CASE ringCall[c].ring # {}
      <3>1. /\ copies' = [copies EXCEPT ![ringCall[c].at] = ringCall[c].ring]
            /\ Proceed(c, ringCall[c].ring)
            /\ UNCHANGED <<stored, made>>
        BY <1>3, <2>2 DEF TakeCopy
      <3> QED BY <2>1, <3>1, ProceedType DEF KeyringTypeOK
    <2>3. CASE ringCall[c].ring = {}
      BY <1>3, <2>3 DEF TakeCopy, KeyringTypeOK, Ring
    <2> QED BY <2>2, <2>3
  <1>4. ASSUME NEW c \in RingCall, Seed(c) PROVE KeyringTypeOK'
    BY <1>4 DEF KeyringTypeOK, Seed, Ring
  <1>5. ASSUME NEW c \in RingCall, CopySeed(c) PROVE KeyringTypeOK'
    <2>1. ringCall[c].ring \in Ring /\ ringCall[c].at \in Instance
      BY DEF KeyringTypeOK
    <2> QED BY <1>5, <2>1, ProceedType DEF KeyringTypeOK, CopySeed
  <1>6. ASSUME NEW c \in RingCall, WriteRotated(c) PROVE KeyringTypeOK'
    <2>1. PICK k \in Key \ made :
             /\ stored' = RotatedRing(ringCall[c].ring, k)
             /\ made' = made \cup {k}
             /\ ringCall' = [ringCall EXCEPT ![c].pc = "wrote", ![c].ring = stored']
      BY <1>6 DEF WriteRotated
    <2>2. stored' \in Ring
      BY <2>1 DEF KeyringTypeOK, RotatedRing, Ring
    <2> QED BY <1>6, <2>1, <2>2, ZenonT(60) DEF KeyringTypeOK, WriteRotated
  <1>7. ASSUME NEW c \in RingCall, DeleteCopy(c) PROVE KeyringTypeOK'
    BY <1>7, NoCallType DEF KeyringTypeOK, DeleteCopy, Ring
  <1>8. ASSUME NEW c \in RingCall, CallFails(c) PROVE KeyringTypeOK'
    BY <1>8, NoCallType DEF KeyringTypeOK, CallFails
  <1>9. ASSUME NEW n \in Instance, CopyExpires(n) PROVE KeyringTypeOK'
    BY <1>9 DEF KeyringTypeOK, CopyExpires, Ring
  <1>10. CASE UNCHANGED keyringVars
    BY <1>10 DEF KeyringTypeOK, keyringVars
  <1> QED BY <1>1, <1>2, <1>3, <1>4, <1>5, <1>6, <1>7, <1>8, <1>9, <1>10
          DEF KeyringNext

(* The stored ring, the copies and the rings held by calls have only keys  *)
(* that were made and the bootstrap key.                                   *)
THEOREM KeyringTypes == KeyringSpec => []KeyringTypeOK
  <1>1. KeyringInit => KeyringTypeOK
    BY NoCallType DEF KeyringInit, KeyringTypeOK, Ring, CallRecord
  <1> QED BY <1>1, KeyringTypeStep, PTL DEF KeyringSpec

(* A key that every ring has is in every ring a step makes: a rotation     *)
(* adds to the ring its call holds, and a call that is about to store the  *)
(* first ring over a newer one holds that first ring already.              *)
LEMMA SpreadStep ==
    ASSUME KeyringTypeOK, KeyringNext, NEW k \in AnyKey, Spread(k)
    PROVE  Spread(k)'
  <1> DEFINE Has(c) == ringCall[c].pc \in {"idle", "get"} \/ k \in ringCall[c].ring
  <1>0. /\ k \in stored
        /\ \A n \in Instance : copies[n] = {} \/ k \in copies[n]
        /\ \A c \in RingCall : Has(c)
        /\ ringCall \in [RingCall -> CallRecord]
        /\ copies \in [Instance -> Ring]
    BY DEF Spread, KeyringTypeOK, CallRecord
  <1> SUFFICES /\ (k \in stored)'
               /\ \A n \in Instance : (copies[n] = {} \/ k \in copies[n])'
               /\ \A c \in RingCall : Has(c)'
    BY DEF Spread
  <1> HIDE DEF Has
  <1>p. ASSUME NEW c \in RingCall, NEW r \in Ring, k \in r, Proceed(c, r)
        PROVE  \A d \in RingCall : Has(d)'
    BY <1>0, <1>p DEF Proceed, NoCall, Has, CallRecord
  <1>1. ASSUME NEW c \in RingCall, NEW n \in Instance, NEW rotates \in BOOLEAN,
               CallRing(c, n, rotates)
        PROVE  /\ \A d \in RingCall : Has(d)'
               /\ UNCHANGED <<stored, copies>>
    BY <1>0, <1>1 DEF CallRing, Has, CallRecord
  <1>2. ASSUME NEW c \in RingCall, GetStored(c)
        PROVE  /\ \A d \in RingCall : Has(d)'
               /\ UNCHANGED <<stored, copies>>
    BY <1>0, <1>2 DEF GetStored, Has, CallRecord
  <1>3. ASSUME NEW c \in RingCall, TakeCopy(c)
        PROVE  /\ \A d \in RingCall : Has(d)'
               /\ \A n \in Instance : (copies[n] = {} \/ k \in copies[n])'
               /\ UNCHANGED stored
    <2>1. k \in ringCall[c].ring /\ ringCall[c].ring \in Ring /\ ringCall[c].at \in Instance
      BY <1>0, <1>3 DEF TakeCopy, Has, CallRecord
    <2>2. /\ copies' = [copies EXCEPT ![ringCall[c].at] = ringCall[c].ring]
          /\ Proceed(c, ringCall[c].ring)
          /\ UNCHANGED stored
      BY <1>3, <2>1 DEF TakeCopy
    <2> QED BY <1>0, <1>p, <2>1, <2>2
  <1>4. ASSUME NEW c \in RingCall, Seed(c)
        PROVE  /\ \A d \in RingCall : Has(d)'
               /\ (k \in stored)'
               /\ UNCHANGED copies
    BY <1>0, <1>4 DEF Seed, Has, CallRecord
  <1>5. ASSUME NEW c \in RingCall, CopySeed(c)
        PROVE  /\ \A d \in RingCall : Has(d)'
               /\ \A n \in Instance : (copies[n] = {} \/ k \in copies[n])'
               /\ UNCHANGED stored
    <2>1. k \in ringCall[c].ring /\ ringCall[c].ring \in Ring /\ ringCall[c].at \in Instance
      BY <1>0, <1>5 DEF CopySeed, Has, CallRecord
    <2> QED BY <1>0, <1>5, <1>p, <2>1 DEF CopySeed
  <1>6. ASSUME NEW c \in RingCall, WriteRotated(c)
        PROVE  /\ \A d \in RingCall : Has(d)'
               /\ (k \in stored)'
               /\ UNCHANGED copies
    <2>1. PICK fresh \in Key :
             /\ stored' = RotatedRing(ringCall[c].ring, fresh)
             /\ ringCall' = [ringCall EXCEPT ![c].pc = "wrote", ![c].ring = stored']
      BY <1>6 DEF WriteRotated
    <2>2. k \in ringCall[c].ring
      BY <1>0, <1>6 DEF WriteRotated, Has
    <2>3. k \in stored'
      BY <2>1, <2>2 DEF RotatedRing
    <2>4. \A d \in RingCall : Has(d)'
      BY <1>0, <2>1, <2>3 DEF Has, CallRecord
    <2> QED BY <1>6, <2>3, <2>4 DEF WriteRotated
  <1>7. ASSUME NEW c \in RingCall, DeleteCopy(c)
        PROVE  /\ \A d \in RingCall : Has(d)'
               /\ \A n \in Instance : (copies[n] = {} \/ k \in copies[n])'
               /\ UNCHANGED stored
    BY <1>0, <1>7 DEF DeleteCopy, NoCall, Has, CallRecord
  <1>8. ASSUME NEW c \in RingCall, CallFails(c)
        PROVE  /\ \A d \in RingCall : Has(d)'
               /\ UNCHANGED <<stored, copies>>
    BY <1>0, <1>8 DEF CallFails, NoCall, Has, CallRecord
  <1>9. ASSUME NEW n \in Instance, CopyExpires(n)
        PROVE  /\ \A m \in Instance : (copies[m] = {} \/ k \in copies[m])'
               /\ UNCHANGED <<stored, ringCall>>
    BY <1>0, <1>9 DEF CopyExpires
  <1>10. CASE \E c \in RingCall :
              \/ \E n \in Instance, rotates \in BOOLEAN : CallRing(c, n, rotates)
              \/ GetStored(c) \/ CallFails(c)
    BY <1>0, <1>1, <1>2, <1>8, <1>10
  <1>11. CASE \E c \in RingCall : TakeCopy(c) \/ CopySeed(c) \/ DeleteCopy(c)
    BY <1>0, <1>3, <1>5, <1>7, <1>11
  <1>12. CASE \E c \in RingCall : Seed(c) \/ WriteRotated(c)
    BY <1>0, <1>4, <1>6, <1>12
  <1>13. CASE \E n \in Instance : CopyExpires(n)
    BY <1>0, <1>9, <1>13 DEF Has
  <1> QED BY <1>10, <1>11, <1>12, <1>13 DEF KeyringNext

(* For any number of processes and rotations, however they overlap and     *)
(* fail: tokens signed with a key that every process has heard of are      *)
(* accepted everywhere ever after.                                         *)
THEOREM SpreadKeysAreKept == KeyringSpec => SpreadKeysStay
  <1> DEFINE Kept == \A k \in AnyKey : Spread(k) => Spread(k)'
  <1>1. KeyringTypeOK /\ [KeyringNext]_keyringVars => [Kept]_keyringVars
    BY SpreadStep
  <1>2. KeyringSpec => [][Kept]_keyringVars
    BY <1>1, KeyringTypes, PTL DEF KeyringSpec
  <1> QED BY <1>2 DEF SpreadKeysStay, AnyKey

(***************************************************************************)
(* Rotations that keep every key                                           *)
(***************************************************************************)

(* Calls of getRing and rotate do not overlap. *)
OneCallAtATime ==
    \A c, d \in RingCall :
        ringCall[c].pc # "idle" /\ ringCall[d].pc # "idle" => c = d

(* A rotation that has written ends with the copy deleted: neither the     *)
(* deletion nor the reply to the write is lost.                            *)
CopyIsDeleted ==
    \A c \in RingCall :
        ringCall[c].pc = "wrote" /\ ringCall'[c].pc = "idle"
            => copies'[ringCall[c].at] = {}

(* With calls one after the other in one process, whatever a call or a     *)
(* copy holds is what is stored, but for the copy a rotation has yet to    *)
(* delete.                                                                 *)
FreshRings ==
    /\ \A n \in Instance :
          \/ copies[n] = {} \/ copies[n] = stored
          \/ \E c \in RingCall : ringCall[c].pc = "wrote"
    /\ \A c \in RingCall :
          /\ ringCall[c].pc \in {"read", "write", "seeded", "wrote"}
                => ringCall[c].ring = stored
          /\ ringCall[c].pc = "seed" => stored = {}

LEMMA FreshStep ==
    ASSUME \A m, n \in Instance : m = n,
           KeyringTypeOK, FreshRings, OneCallAtATime, OneCallAtATime',
           [KeyringNext]_keyringVars, [CopyIsDeleted]_keyringVars
    PROVE  FreshRings' /\ stored \subseteq stored'
  <1>0. /\ ringCall \in [RingCall -> CallRecord]
        /\ copies \in [Instance -> Ring]
    BY DEF KeyringTypeOK, CallRecord
  <1>p. ASSUME NEW c \in RingCall, ringCall[c].ring = stored,
               Proceed(c, ringCall[c].ring)
        PROVE  /\ ringCall' \in [RingCall -> CallRecord]
               /\ \A d \in RingCall : d # c => ringCall'[d] = ringCall[d]
               /\ ringCall'[c].pc \in {"idle", "write"}
               /\ ringCall'[c].pc = "write" => ringCall'[c].ring = stored
    <2>1. ringCall[c].ring \in Ring
      BY <1>0 DEF CallRecord
    <2>2. ringCall' \in [RingCall -> CallRecord]
      BY <1>p, <2>1, ProceedType
    <2>3. PICK r \in CallRecord :
            /\ r.pc = "idle" \/ (r.pc = "write" /\ r.ring = stored)
            /\ ringCall' = [ringCall EXCEPT ![c] = r]
      <3>1. CASE ringCall[c].rotates
        <4>1. [ringCall[c] EXCEPT !.pc = "write", !.ring = ringCall[c].ring] \in CallRecord
          BY <1>0, <2>1 DEF CallRecord
        <4> QED BY <1>0, <1>p, <3>1, <4>1 DEF Proceed, CallRecord
      <3>2. CASE ~ringCall[c].rotates
        BY <1>0, <1>p, <3>2, NoCallType DEF Proceed, NoCall
      <3> QED BY <3>1, <3>2
    <2> QED BY <1>0, <2>2, <2>3
  <1>1. ASSUME NEW c \in RingCall, NEW n \in Instance, NEW rotates \in BOOLEAN,
               CallRing(c, n, rotates)
        PROVE  FreshRings' /\ stored \subseteq stored'
    <2>1. /\ \A d \in RingCall : d # c => ringCall'[d] = ringCall[d]
          /\ \/ ringCall'[c].pc = "get"
             \/ /\ ringCall'[c].pc = "write" /\ ringCall'[c].ring = copies[n]
                /\ copies[n] # {}
          /\ UNCHANGED <<stored, copies>>
      BY <1>0, <1>1 DEF CallRing, CallRecord
    <2>2. \A d \in RingCall : ringCall[d].pc # "wrote"
      BY <1>1, <2>1 DEF CallRing, OneCallAtATime
    <2>3. copies[n] = {} \/ copies[n] = stored
      BY <2>2 DEF FreshRings
    <2> QED BY <2>1, <2>2, <2>3 DEF FreshRings
  <1>2. ASSUME NEW c \in RingCall, GetStored(c)
        PROVE  FreshRings' /\ stored \subseteq stored'
    <2>1. /\ \A d \in RingCall : d # c => ringCall'[d] = ringCall[d]
          /\ ringCall[c].pc = "get" /\ ringCall'[c].pc = "read"
          /\ ringCall'[c].ring = stored
          /\ UNCHANGED <<stored, copies>>
      BY <1>0, <1>2 DEF GetStored, CallRecord
    <2> QED BY <2>1 DEF FreshRings
  <1>3. ASSUME NEW c \in RingCall, TakeCopy(c)
        PROVE  FreshRings' /\ stored \subseteq stored'
    <2>1. /\ ringCall[c].pc = "read" /\ ringCall[c].ring = stored
          /\ UNCHANGED stored
      BY <1>3 DEF TakeCopy, FreshRings
    <2>2. CASE stored # {}
      <3>1. /\ copies' = [copies EXCEPT ![ringCall[c].at] = stored]
            /\ Proceed(c, ringCall[c].ring)
        BY <1>3, <2>1, <2>2 DEF TakeCopy
      <3> QED BY <1>0, <1>p, <2>1, <3>1 DEF FreshRings
    <2>3. CASE stored = {}
      <3>1. /\ \A d \in RingCall : d # c => ringCall'[d] = ringCall[d]
            /\ ringCall'[c].pc = "seed"
            /\ UNCHANGED copies
        BY <1>0, <1>3, <2>1, <2>3 DEF TakeCopy, CallRecord
      <3> QED BY <2>1, <2>3, <3>1 DEF FreshRings
    <2> QED BY <2>2, <2>3
  <1>4. ASSUME NEW c \in RingCall, Seed(c)
        PROVE  FreshRings' /\ stored \subseteq stored'
    <2>1. /\ \A d \in RingCall : d # c => ringCall'[d] = ringCall[d]
          /\ ringCall[c].pc = "seed" /\ ringCall'[c].pc = "seeded"
          /\ ringCall'[c].ring = stored'
          /\ UNCHANGED copies
      BY <1>0, <1>4 DEF Seed, CallRecord
    <2>2. stored = {} /\ \A d \in RingCall : d # c => ringCall[d].pc = "idle"
      BY <2>1 DEF FreshRings, OneCallAtATime
    <2>3. \A n \in Instance : copies'[n] = {}
      BY <2>1, <2>2 DEF FreshRings
    <2> QED BY <2>1, <2>2, <2>3 DEF FreshRings
  <1>5. ASSUME NEW c \in RingCall, CopySeed(c)
        PROVE  FreshRings' /\ stored \subseteq stored'
    <2>1. /\ ringCall[c].pc = "seeded" /\ ringCall[c].ring = stored
          /\ copies' = [copies EXCEPT ![ringCall[c].at] = stored]
          /\ Proceed(c, ringCall[c].ring)
          /\ UNCHANGED stored
      BY <1>5 DEF CopySeed, FreshRings
    <2> QED BY <1>0, <1>p, <2>1 DEF FreshRings
  <1>6. ASSUME NEW c \in RingCall, WriteRotated(c)
        PROVE  FreshRings' /\ stored \subseteq stored'
    <2>1. /\ \A d \in RingCall : d # c => ringCall'[d] = ringCall[d]
          /\ ringCall[c].pc = "write" /\ ringCall'[c].pc = "wrote"
          /\ ringCall'[c].ring = stored'
          /\ UNCHANGED copies
      BY <1>0, <1>6 DEF WriteRotated, CallRecord
    <2>2. stored \subseteq stored'
      BY <1>6, <2>1 DEF WriteRotated, RotatedRing, FreshRings
    <2>3. \A d \in RingCall : d # c => ringCall[d].pc = "idle"
      BY <2>1 DEF OneCallAtATime
    <2> QED BY <2>1, <2>2, <2>3 DEF FreshRings
  <1>7. ASSUME NEW c \in RingCall, DeleteCopy(c) \/ CallFails(c)
        PROVE  FreshRings' /\ stored \subseteq stored'
    <2>1. /\ \A d \in RingCall : d # c => ringCall'[d] = ringCall[d]
          /\ ringCall'[c].pc = "idle"
          /\ UNCHANGED stored
          /\ \A n \in Instance : copies'[n] = copies[n] \/ copies'[n] = {}
          /\ ringCall[c].at \in Instance
      BY <1>0, <1>7 DEF DeleteCopy, CallFails, NoCall, CallRecord
    <2>2. CASE ringCall[c].pc = "wrote"
      <3>1. CopyIsDeleted
        BY <2>1, <2>2 DEF keyringVars
      <3>2. \A n \in Instance : copies'[n] = {}
        BY <2>1, <2>2, <3>1 DEF CopyIsDeleted
      <3> QED BY <2>1, <3>2 DEF FreshRings
    <2>3. CASE ringCall[c].pc # "wrote"
      BY <2>1, <2>3 DEF FreshRings
    <2> QED BY <2>2, <2>3
  <1>8. ASSUME NEW n \in Instance, CopyExpires(n)
        PROVE  FreshRings' /\ stored \subseteq stored'
    <2>1. /\ UNCHANGED <<stored, ringCall>>
          /\ \A m \in Instance : copies'[m] = copies[m] \/ copies'[m] = {}
      BY <1>0, <1>8 DEF CopyExpires
    <2> QED BY <2>1 DEF FreshRings
  <1>9. CASE UNCHANGED keyringVars
    BY <1>9 DEF FreshRings, keyringVars
  <1> QED BY <1>1, <1>2, <1>3, <1>4, <1>5, <1>6, <1>7, <1>8, <1>9
          DEF KeyringNext

(* What the comment on the store promises, no previous key lost, holds in  *)
(* one process whose calls do not overlap and whose rotations get as far   *)
(* as deleting the copy. Without any of the three it does not.             *)
THEOREM QuietRotationsKeepKeys ==
    ASSUME \A m, n \in Instance : m = n
    PROVE  KeyringSpec /\ []OneCallAtATime /\ [][CopyIsDeleted]_keyringVars
              => RotationKeepsKeys
  <1> DEFINE Grows == stored \subseteq stored'
  <1>1. KeyringInit => FreshRings
    BY DEF KeyringInit, FreshRings, NoCall
  <1>2. /\ KeyringTypeOK /\ FreshRings /\ OneCallAtATime /\ OneCallAtATime'
        /\ [KeyringNext]_keyringVars /\ [CopyIsDeleted]_keyringVars
        => FreshRings' /\ [Grows]_keyringVars
    BY FreshStep
  <1>3. KeyringSpec /\ []OneCallAtATime /\ [][CopyIsDeleted]_keyringVars
           => [][Grows]_keyringVars
    BY <1>1, <1>2, KeyringTypes, PTL DEF KeyringSpec
  <1> QED BY <1>3 DEF RotationKeepsKeys

(***************************************************************************)
(* Lock-out                                                                *)
(***************************************************************************)

Busy == {a \in Attempt : login[a] \in {"admitted", "factor", "counted"}}
Pending == {a \in Attempt : login[a] = "counted"}

(* GuessesAreBounded is not inductive. Every guess is in the counter, is   *)
(* about to be, or was lost; and the counter, with one more for every      *)
(* request past the gate, stays below the limit and all requests but one,  *)
(* because whoever passes the gate saw the counter below the limit.        *)
GuardInv ==
    /\ LoginTypeOK
    /\ guesses <= failures + Cardinality(Pending) + lost
    /\ failures + Cardinality(Busy) <= MaxFailedAttempts + Cardinality(Attempt) - 1

LEMMA Counting ==
    /\ Cardinality(Attempt) \in Nat
    /\ Cardinality(Busy) \in 0 .. Cardinality(Attempt)
    /\ Cardinality(Pending) \in 0 .. Cardinality(Busy)
    /\ Cardinality(Busy') \in 0 .. Cardinality(Attempt)
    /\ Cardinality(Pending') \in 0 .. Cardinality(Busy')
  <1>1. ASSUME NEW S, NEW T, IsFiniteSet(T), S \subseteq T
        PROVE  IsFiniteSet(S) /\ Cardinality(S) \in 0 .. Cardinality(T)
    BY <1>1, FS_Subset, FS_CardinalityType
  <1>2. Busy \subseteq Attempt /\ Pending \subseteq Busy
    BY DEF Busy, Pending
  <1>3. Busy' \subseteq Attempt /\ Pending' \subseteq Busy'
    BY DEF Busy, Pending
  <1> QED BY <1>1, <1>2, <1>3, AttemptAssumption, FS_CardinalityType

(* One request that changes its state changes each number by at most one.  *)
LEMMA OneMoves ==
    ASSUME LoginTypeOK, NEW a \in Attempt, NEW pc, Then(a, pc)
    PROVE  /\ Cardinality(Busy') =
                 IF a \in Busy
                 THEN IF pc \in {"admitted", "factor", "counted"}
                      THEN Cardinality(Busy) ELSE Cardinality(Busy) - 1
                 ELSE IF pc \in {"admitted", "factor", "counted"}
                      THEN Cardinality(Busy) + 1 ELSE Cardinality(Busy)
           /\ Cardinality(Pending') =
                 IF a \in Pending
                 THEN IF pc = "counted"
                      THEN Cardinality(Pending) ELSE Cardinality(Pending) - 1
                 ELSE IF pc = "counted"
                      THEN Cardinality(Pending) + 1 ELSE Cardinality(Pending)
  <1>1. /\ login'[a] = pc
        /\ \A b \in Attempt \ {a} : login'[b] = login[b]
    BY DEF Then, LoginTypeOK
  <1>2. /\ Busy' = IF pc \in {"admitted", "factor", "counted"}
                   THEN Busy \cup {a} ELSE Busy \ {a}
        /\ Pending' = IF pc = "counted" THEN Pending \cup {a} ELSE Pending \ {a}
    BY <1>1 DEF Busy, Pending
  <1>3. IsFiniteSet(Busy) /\ IsFiniteSet(Pending)
    <2>1. Busy \subseteq Attempt /\ Pending \subseteq Attempt
      BY DEF Busy, Pending
    <2> QED BY <2>1, AttemptAssumption, FS_Subset
  <1>4. ASSUME NEW S, IsFiniteSet(S)
        PROVE  /\ Cardinality(S \cup {a}) =
                     IF a \in S THEN Cardinality(S) ELSE Cardinality(S) + 1
               /\ Cardinality(S \ {a}) =
                     IF a \in S THEN Cardinality(S) - 1 ELSE Cardinality(S)
    BY <1>4, FS_AddElement, FS_RemoveElement
  <1> QED BY <1>2, <1>3, <1>4

LEMMA GuardTypeStep ==
    ASSUME LoginTypeOK, [LoginNext]_guardVars
    PROVE  LoginTypeOK'
  <1>t. ASSUME NEW a \in Attempt,
               NEW pc \in {"idle", "admitted", "factor", "counted", "cleared", "accepted"},
               Then(a, pc)
        PROVE  login' \in [Attempt -> {"idle", "admitted", "factor", "counted",
                                       "cleared", "accepted"}]
    BY <1>t DEF Then, LoginTypeOK
  <1>b. backup' \in BOOLEAN
    BY DEF LoginTypeOK, LoginNext, guardVars, Gate, WrongPassword, RightPassword,
           WrongCode, TotpCode, BackupCode, Increment, IncrementFails, Clear,
           LoginFails, WindowEnds
  <1>n. failures' \in Nat /\ guesses' \in Nat /\ lost' \in 0 .. MaxLost
    BY MaxLostAssumption
       DEF LoginTypeOK, LoginNext, guardVars, Gate, WrongPassword, RightPassword,
           WrongCode, TotpCode, BackupCode, Increment, IncrementFails, Clear,
           LoginFails, WindowEnds
  <1>l. login' \in [Attempt -> {"idle", "admitted", "factor", "counted",
                                "cleared", "accepted"}]
    <2>1. CASE \E a \in Attempt :
                 \/ Gate(a) \/ WrongPassword(a) \/ RightPassword(a) \/ WrongCode(a)
                 \/ TotpCode(a) \/ BackupCode(a) \/ Increment(a) \/ IncrementFails(a)
                 \/ Clear(a) \/ LoginFails(a)
      BY <1>t, <2>1 DEF Gate, WrongPassword, RightPassword, WrongCode, TotpCode,
           BackupCode, Increment, IncrementFails, Clear, LoginFails
    <2>2. CASE WindowEnds \/ UNCHANGED guardVars
      BY <2>2 DEF WindowEnds, guardVars, LoginTypeOK
    <2> QED BY <2>1, <2>2 DEF LoginNext
  <1> QED BY <1>b, <1>n, <1>l DEF LoginTypeOK

LEMMA GuardStep ==
    ASSUME GuardInv, [LoginNext]_guardVars
    PROVE  GuardInv'
  <1> DEFINE Bounds ==
        /\ guesses <= failures + Cardinality(Pending) + lost
        /\ failures + Cardinality(Busy) <= MaxFailedAttempts + Cardinality(Attempt) - 1
  <1>t. LoginTypeOK /\ LoginTypeOK'
    BY GuardTypeStep DEF GuardInv
  <1>n. /\ failures \in Nat /\ guesses \in Nat /\ lost \in Nat
        /\ MaxFailedAttempts \in Nat /\ MaxFailedAttempts > 0
    BY <1>t, MaxFailedAttemptsAssumption, MaxLostAssumption DEF LoginTypeOK
  <1>0. Bounds
    BY DEF GuardInv
  <1>1. ASSUME NEW a \in Attempt, Gate(a) PROVE Bounds'
    <2>1. a \notin Busy /\ a \notin Pending
      BY <1>1 DEF Gate, Busy, Pending
    <2>2. /\ Cardinality(Busy') = Cardinality(Busy) + 1
          /\ Cardinality(Pending') = Cardinality(Pending)
      BY <1>1, <1>t, <2>1, OneMoves DEF Gate
    <2>3. failures < MaxFailedAttempts /\ UNCHANGED <<failures, guesses, lost>>
      BY <1>1 DEF Gate
    <2>4. Cardinality(Busy') <= Cardinality(Attempt)
      BY Counting
    <2> QED BY <1>0, <1>n, <2>2, <2>3, <2>4, Counting
  <1>2. ASSUME NEW a \in Attempt, WrongPassword(a) \/ WrongCode(a) PROVE Bounds'
    <2>1. a \in Busy /\ a \notin Pending /\ Then(a, "counted")
      BY <1>2 DEF WrongPassword, WrongCode, Busy, Pending
    <2>2. /\ Cardinality(Busy') = Cardinality(Busy)
          /\ Cardinality(Pending') = Cardinality(Pending) + 1
      BY <1>t, <2>1, OneMoves
    <2>3. guesses' = guesses + 1 /\ UNCHANGED <<failures, lost>>
      BY <1>2 DEF WrongPassword, WrongCode
    <2> QED BY <1>0, <1>n, <2>2, <2>3, Counting
  <1>3. ASSUME NEW a \in Attempt, RightPassword(a) \/ TotpCode(a) \/ BackupCode(a)
        PROVE  Bounds'
    <2>1. PICK pc : Then(a, pc)
      BY <1>3 DEF RightPassword, TotpCode, BackupCode
    <2>2. a \in Busy /\ a \notin Pending
      BY <1>3 DEF RightPassword, TotpCode, BackupCode, Busy, Pending
    <2>3. /\ Cardinality(Busy') \in {Cardinality(Busy), Cardinality(Busy) - 1}
          /\ Cardinality(Pending') \in {Cardinality(Pending), Cardinality(Pending) + 1}
      BY <1>t, <2>1, <2>2, OneMoves
    <2>4. UNCHANGED <<failures, guesses, lost>>
      BY <1>3 DEF RightPassword, TotpCode, BackupCode
    <2> QED BY <1>0, <1>n, <2>3, <2>4, Counting
  <1>4. ASSUME NEW a \in Attempt, Increment(a) \/ IncrementFails(a) PROVE Bounds'
    <2>1. a \in Busy /\ a \in Pending /\ Then(a, "idle")
      BY <1>4 DEF Increment, IncrementFails, Busy, Pending
    <2>2. /\ Cardinality(Busy') = Cardinality(Busy) - 1
          /\ Cardinality(Pending') = Cardinality(Pending) - 1
      BY <1>t, <2>1, OneMoves
    <2>3. /\ guesses' = guesses
          /\ \/ failures' = failures + 1 /\ lost' = lost
             \/ failures' = failures /\ lost' = lost + 1
      BY <1>4 DEF Increment, IncrementFails
    <2> QED BY <1>0, <1>n, <2>2, <2>3, Counting
  <1>5. ASSUME (\E a \in Attempt : Clear(a)) \/ WindowEnds PROVE Bounds'
    <2>1. failures' = 0 /\ guesses' = 0 /\ lost' = lost
      BY <1>5 DEF Clear, WindowEnds
    <2>2. /\ Cardinality(Busy') <= Cardinality(Attempt)
          /\ Cardinality(Busy') \in Nat /\ Cardinality(Pending') \in Nat
          /\ Cardinality(Attempt) \in Nat
      BY Counting
    <2> QED BY <1>n, <2>1, <2>2
  <1>6. ASSUME NEW a \in Attempt, LoginFails(a) PROVE Bounds'
    <2>1. a \notin Pending /\ Then(a, "idle")
      BY <1>6 DEF LoginFails, Pending
    <2>2. /\ Cardinality(Busy') \in {Cardinality(Busy), Cardinality(Busy) - 1}
          /\ Cardinality(Pending') = Cardinality(Pending)
      BY <1>t, <2>1, OneMoves
    <2>3. UNCHANGED <<failures, guesses, lost>>
      BY <1>6 DEF LoginFails
    <2> QED BY <1>0, <1>n, <2>2, <2>3, Counting
  <1>7. ASSUME UNCHANGED guardVars PROVE Bounds'
    <2>1. Busy' = Busy /\ Pending' = Pending
      BY <1>7 DEF guardVars, Busy, Pending
    <2>2. UNCHANGED <<failures, guesses, lost>>
      BY <1>7 DEF guardVars
    <2> QED BY <1>0, <2>1, <2>2
  <1>8. Bounds'
    <2> HIDE DEF Bounds
    <2> QED BY <1>1, <1>2, <1>3, <1>4, <1>5, <1>6, <1>7 DEF LoginNext
  <1> QED BY <1>t, <1>8 DEF GuardInv

(* The inductive invariant of the guard: every guess is in the counter, on *)
(* its way there or lost, and the counter leaves room for the admitted.    *)
THEOREM GuardInvariant == LoginSpec => []GuardInv
  <1>1. LoginInit => GuardInv
    <2> SUFFICES ASSUME LoginInit PROVE GuardInv
      OBVIOUS
    <2>1. LoginTypeOK
      <3>1. failures \in Nat /\ guesses \in Nat /\ lost \in 0 .. MaxLost
        BY MaxLostAssumption DEF LoginInit
      <3>2. backup \in BOOLEAN
        BY DEF LoginInit
      <3>3. login \in [Attempt -> {"idle", "admitted", "factor", "counted",
                                  "cleared", "accepted"}]
        BY DEF LoginInit
      <3> QED BY <3>1, <3>2, <3>3 DEF LoginTypeOK
    <2>2. Busy = {} /\ failures = 0 /\ guesses = 0 /\ lost = 0
      BY DEF LoginInit, Busy
    <2>3. Cardinality(Busy) = 0
      BY <2>2, FS_EmptySet
    <2> QED BY <2>1, <2>2, <2>3, Counting, MaxFailedAttemptsAssumption DEF GuardInv
  <1> QED BY <1>1, GuardStep, PTL DEF LoginSpec

(* For every limit and any number of overlapping login requests: the wrong *)
(* guesses at one address in one window exceed the limit by at most the    *)
(* number of the others, and of the increments that were lost.             *)
THEOREM GuessesBounded == LoginSpec => []GuessesAreBounded
  <1>1. GuardInv => GuessesAreBounded
    <2> SUFFICES ASSUME GuardInv PROVE GuessesAreBounded
      OBVIOUS
    <2>1. /\ failures \in Nat /\ guesses \in Nat /\ lost \in Nat
          /\ MaxFailedAttempts \in Nat
      BY MaxFailedAttemptsAssumption, MaxLostAssumption DEF GuardInv, LoginTypeOK
    <2> QED BY <2>1, Counting DEF GuardInv, GuessesAreBounded
  <1> QED BY <1>1, GuardInvariant, PTL

(***************************************************************************)
(* Login codes                                                             *)
(***************************************************************************)

Allowed == {r \in Requester : requester[r] = "allowed"}
Wrongs(k) == {c \in Consumer : consumer[c].pc = "wrong" /\ consumer[c].row = k}

(* findActive finds a row whenever one can be used.                        *)
LEMMA NewestExists ==
    ASSUME NEW S \in SUBSET CodeRow, S # {}
    PROVE  Max(S) \in S
  <1> DEFINE R == OpToRel(<, Nat)
             T == {n \in Nat : MaxCodes - n \in S}
  <1>1. MaxCodes \in Nat /\ S \subseteq 1 .. MaxCodes
    BY LoginCodesAssumption DEF CodeRow
  <1>2. T \subseteq Nat /\ T # {}
    <2>1. PICK k \in S : TRUE
      OBVIOUS
    <2>2. MaxCodes - k \in Nat /\ MaxCodes - (MaxCodes - k) = k
      BY <1>1
    <2> QED BY <2>2
  <1>3. PICK n \in T : \A m \in T : ~(<<m, n>> \in R)
    <2> HIDE DEF T, R
    <2> QED BY <1>2, NatLessThanWellFounded, WFMin DEF R
  <1>4. \A m \in T : ~(m < n)
    BY <1>3 DEF OpToRel
  <1>5. \A k \in S : MaxCodes - n >= k
    <2> SUFFICES ASSUME NEW k \in S PROVE MaxCodes - n >= k
      OBVIOUS
    <2>1. MaxCodes - k \in T
      BY <1>1
    <2> QED BY <1>1, <1>4, <2>1
  <1>6. \E x \in S : \A y \in S : x >= y
    BY <1>5
  <1> QED BY <1>6, Zenon DEF Max

CodeRecord == [age : {"none", "valid", "expired", "old"}, consumed : BOOLEAN, attempts : Nat]
TryRecord == [pc : {"idle", "wrong", "right"}, row : CodeRow]

LEMMA CodeCounts ==
    /\ Cardinality(Requester) \in Nat /\ Cardinality(Consumer) \in Nat
    /\ MaxAttempts \in Nat /\ MaxAttempts > 0 /\ RateLimitMax \in Nat /\ RateLimitMax > 0
    /\ MaxUnregistered \in Nat
    /\ \A S \in SUBSET Requester :
          IsFiniteSet(S) /\ Cardinality(S) \in 0 .. Cardinality(Requester)
    /\ \A S \in SUBSET Consumer :
          IsFiniteSet(S) /\ Cardinality(S) \in 0 .. Cardinality(Consumer)
    /\ \A S \in SUBSET CodeRow : IsFiniteSet(S) /\ Cardinality(S) \in Nat
  <1>1. IsFiniteSet(CodeRow)
    BY LoginCodesAssumption, FS_Interval DEF CodeRow
  <1>2. ASSUME NEW T, IsFiniteSet(T)
        PROVE  /\ Cardinality(T) \in Nat
               /\ \A S \in SUBSET T : IsFiniteSet(S) /\ Cardinality(S) \in 0 .. Cardinality(T)
    <2>1. Cardinality(T) \in Nat
      BY <1>2, FS_CardinalityType
    <2>2. ASSUME NEW S \in SUBSET T
          PROVE  IsFiniteSet(S) /\ Cardinality(S) \in 0 .. Cardinality(T)
      <3>1. IsFiniteSet(S) /\ Cardinality(S) <= Cardinality(T)
        BY <1>2, <2>2, FS_Subset
      <3>2. Cardinality(S) \in Nat
        BY <3>1, FS_CardinalityType
      <3> QED BY <2>1, <3>1, <3>2
    <2> QED BY <2>1, <2>2
  <1>3. IsFiniteSet(Requester) /\ IsFiniteSet(Consumer)
    BY LoginCodesAssumption
  <1>4. /\ MaxAttempts \in Nat /\ MaxAttempts > 0 /\ RateLimitMax \in Nat /\ RateLimitMax > 0
        /\ MaxUnregistered \in Nat
    BY LoginCodesAssumption
  <1>5. \A S \in SUBSET CodeRow : IsFiniteSet(S) /\ Cardinality(S) \in Nat
    BY <1>1, <1>2
  <1> QED BY <1>2, <1>3, <1>4, <1>5

LEMMA CodesTypeStep == CodesTypeOK /\ [CodesNext]_codeVars => CodesTypeOK'
  <1> SUFFICES ASSUME CodesTypeOK, [CodesNext]_codeVars PROVE CodesTypeOK'
    OBVIOUS
  <1>0. /\ code \in [CodeRow -> CodeRecord] /\ consumer \in [Consumer -> TryRecord]
        /\ requester \in [Requester -> {"idle", "allowed"}]
        /\ wrong \in [CodeRow -> Nat] /\ signIns \in [CodeRow -> Nat]
        /\ unregistered \in 0 .. MaxUnregistered
    BY DEF CodesTypeOK, CodeRecord, TryRecord
  <1>2. ASSUME NEW k \in CodeRow
        PROVE  /\ \A a \in {"none", "valid", "expired", "old"} :
                     [code[k] EXCEPT !.age = a] \in CodeRecord
               /\ [code[k] EXCEPT !.attempts = @ + 1] \in CodeRecord
               /\ \A b \in BOOLEAN : [code[k] EXCEPT !.consumed = b] \in CodeRecord
               /\ code[k].consumed \in BOOLEAN
    BY <1>0 DEF CodeRecord
  <1>3. ASSUME NEW c \in Consumer
        PROVE  [consumer[c] EXCEPT !.pc = "idle"] \in TryRecord /\ consumer[c].row \in CodeRow
    BY <1>0 DEF TryRecord
  <1>4. ASSUME NEW r \in Requester, CountRecent(r) \/ CreateCode(r) \/ RequestFails(r)
        PROVE  CodesTypeOK'
    <2>1. code' \in [CodeRow -> CodeRecord]
      BY <1>0, <1>2, <1>4 DEF CountRecent, CreateCode, RequestFails
    <2> QED BY <1>0, <1>4, <2>1
            DEF CountRecent, CreateCode, RequestFails, CodesTypeOK, CodeRecord, TryRecord
  <1>5. ASSUME NEW k \in CodeRow, Ages(k) PROVE CodesTypeOK'
    <2>1. PICK a \in {"expired", "old"} : code' = [code EXCEPT ![k].age = a]
      BY <1>5 DEF Ages
    <2>2. code' \in [CodeRow -> CodeRecord]
      BY <1>0, <1>2, <2>1
    <2> QED BY <1>0, <1>5, <2>2 DEF Ages, CodesTypeOK, CodeRecord, TryRecord
  <1>6. ASSUME NEW c \in Consumer, NEW matches \in BOOLEAN, FindActive(c, matches)
        PROVE  CodesTypeOK'
    <2>1. PICK k : k = Max({q \in CodeRow : Usable(q)})
      OBVIOUS
    <2>2. k \in CodeRow
      BY <1>6, <2>1, NewestExists DEF FindActive
    <2>3. [pc |-> IF matches THEN "right" ELSE "wrong", row |-> k] \in TryRecord
      BY <2>2 DEF TryRecord
    <2>4. /\ consumer' = [consumer EXCEPT ![c] =
                 [pc |-> IF matches THEN "right" ELSE "wrong", row |-> k]]
          /\ wrong' = wrong \/ wrong' = [wrong EXCEPT ![k] = @ + 1]
          /\ UNCHANGED <<code, requester, unregistered, signIns>>
      BY <1>6, <2>1 DEF FindActive
    <2>5. consumer' \in [Consumer -> TryRecord] /\ wrong' \in [CodeRow -> Nat]
      BY <1>0, <2>2, <2>3, <2>4
    <2> QED BY <1>0, <2>4, <2>5 DEF CodesTypeOK, CodeRecord, TryRecord
  <1>7. ASSUME NEW c \in Consumer, RegisterFailedAttempt(c) \/ ConsumeCode(c) \/ TryFails(c)
        PROVE  CodesTypeOK'
    <2>1. PICK k \in CodeRow : k = consumer[c].row
      BY <1>3
    <2>2. consumer' \in [Consumer -> TryRecord] /\ requester' = requester /\ wrong' = wrong
      BY <1>0, <1>3, <1>7 DEF RegisterFailedAttempt, ConsumeCode, TryFails
    <2>3. code' \in [CodeRow -> CodeRecord]
      <3>1. CASE RegisterFailedAttempt(c)
        BY <1>0, <1>2, <2>1, <3>1 DEF RegisterFailedAttempt
      <3>2. CASE ConsumeCode(c)
        <4>1. PICK b \in BOOLEAN : b = (code[k].consumed \/ Usable(k))
          OBVIOUS
        <4>2. code' = [code EXCEPT ![k] = [code[k] EXCEPT !.consumed = b]]
          BY <1>0, <2>1, <3>2, <4>1 DEF ConsumeCode
        <4> QED BY <1>0, <1>2, <4>2
      <3>3. CASE TryFails(c)
        BY <1>0, <3>3 DEF TryFails
      <3> QED BY <1>7, <3>1, <3>2, <3>3
    <2>4. signIns' \in [CodeRow -> Nat]
      BY <1>0, <1>7, <2>1 DEF RegisterFailedAttempt, ConsumeCode, TryFails
    <2>5. unregistered' \in 0 .. MaxUnregistered
      BY <1>0, <1>7, CodeCounts DEF RegisterFailedAttempt, ConsumeCode, TryFails
    <2> QED BY <1>0, <2>2, <2>3, <2>4, <2>5 DEF CodesTypeOK, CodeRecord, TryRecord
  <1>8. CASE UNCHANGED codeVars
    BY <1>8 DEF codeVars, CodesTypeOK
  <1> QED BY <1>4, <1>5, <1>6, <1>7, <1>8 DEF CodesNext

(* A request that leaves or joins a set changes its size by one.           *)
LEMMA Joining ==
    ASSUME NEW S, NEW x, IsFiniteSet(S)
    PROVE  /\ Cardinality(S) \in Nat
           /\ x \notin S => Cardinality(S \cup {x}) = Cardinality(S) + 1
           /\ x \in S => Cardinality(S \ {x}) = Cardinality(S) - 1
  BY FS_AddElement, FS_RemoveElement, FS_CardinalityType

(* As for the guard: a row that counts, or a request allowed to create one, *)
(* and a try that is registered, or about to be, use up the same limit.    *)
RateBound == Cardinality(Recent) + Cardinality(Allowed)
                <= RateLimitMax + Cardinality(Requester) - 1

RowBound(k) ==
    /\ wrong[k] <= code[k].attempts + Cardinality(Wrongs(k)) + unregistered
    /\ code[k].attempts + Cardinality(Wrongs(k)) <= MaxAttempts + Cardinality(Consumer) - 1
    /\ signIns[k] <= 1
    /\ signIns[k] = 1 => code[k].consumed

LEMMA RateSteps ==
    ASSUME CodesTypeOK, RateBound, NEW r \in Requester,
           CountRecent(r) \/ CreateCode(r) \/ RequestFails(r)
    PROVE  RateBound'
  <1>1. /\ Recent \subseteq CodeRow /\ Allowed \subseteq Requester
        /\ Allowed' \subseteq Requester /\ Recent' \subseteq CodeRow
    BY DEF Recent, Allowed
  <1>2. /\ IsFiniteSet(Recent) /\ IsFiniteSet(Allowed)
        /\ Cardinality(Recent) \in Nat /\ Cardinality(Allowed) \in Nat
        /\ Cardinality(Recent') \in Nat /\ Cardinality(Allowed') \in Nat
        /\ Cardinality(Allowed') <= Cardinality(Requester)
        /\ Cardinality(Requester) \in Nat /\ RateLimitMax \in Nat
    BY <1>1, CodeCounts
  <1>3. CASE CountRecent(r)
    <2>1. Recent' = Recent /\ Cardinality(Recent) < RateLimitMax
      BY <1>3 DEF CountRecent, Recent
    <2> QED BY <1>2, <2>1 DEF RateBound
  <1>4. ASSUME CreateCode(r) \/ RequestFails(r)
        PROVE  Cardinality(Allowed') = Cardinality(Allowed) - 1
    <2>1. r \in Allowed /\ Allowed' = Allowed \ {r}
      BY <1>4 DEF CreateCode, RequestFails, Allowed, CodesTypeOK
    <2> QED BY <1>2, <2>1, Joining
  <1>5. CASE CreateCode(r)
    <2>1. PICK k \in CodeRow : code[k].age = "none" /\ code' = [code EXCEPT ![k].age = "valid"]
      BY <1>5 DEF CreateCode
    <2>2. k \notin Recent /\ Recent' = Recent \cup {k}
      BY <2>1 DEF Recent, CodesTypeOK
    <2>3. Cardinality(Recent') = Cardinality(Recent) + 1
      BY <1>2, <2>2, Joining
    <2> QED BY <1>2, <1>4, <1>5, <2>3 DEF RateBound
  <1>6. CASE RequestFails(r)
    <2>1. Recent' = Recent
      BY <1>6 DEF RequestFails, Recent
    <2> QED BY <1>2, <1>4, <1>6, <2>1 DEF RateBound
  <1> QED BY <1>3, <1>5, <1>6

LEMMA RateKept ==
    ASSUME CodesTypeOK, RateBound, requester' = requester,
           \A k \in CodeRow : code'[k].age \in {"valid", "expired"}
                                 => code[k].age \in {"valid", "expired"}
    PROVE  RateBound'
  <1>1. Recent' \subseteq Recent /\ Recent \subseteq CodeRow /\ Allowed' = Allowed
        /\ Allowed \subseteq Requester
    BY DEF Recent, Allowed
  <1>2. Cardinality(Recent') <= Cardinality(Recent) /\ IsFiniteSet(Recent)
        /\ Cardinality(Recent) \in Nat /\ Cardinality(Recent') \in Nat
    BY <1>1, CodeCounts, FS_Subset
  <1> QED BY <1>1, <1>2, CodeCounts DEF RateBound

(* Steps that leave tries, and what is recorded of them, alone.            *)
LEMMA RowKept ==
    ASSUME NEW k \in CodeRow, RowBound(k), consumer' = consumer,
           UNCHANGED <<wrong, signIns, unregistered>>,
           code'[k].attempts = code[k].attempts,
           code[k].consumed => code'[k].consumed
    PROVE  RowBound(k)'
  <1>1. Wrongs(k)' = Wrongs(k)
    BY DEF Wrongs
  <1> QED BY <1>1 DEF RowBound

LEMMA TryStep ==
    ASSUME CodesTypeOK, CodesTypeOK', NEW c \in Consumer, NEW k \in CodeRow, RowBound(k),
           \/ \E matches \in BOOLEAN : FindActive(c, matches)
           \/ RegisterFailedAttempt(c) \/ ConsumeCode(c) \/ TryFails(c)
    PROVE  RowBound(k)'
  <1>1. /\ Wrongs(k) \subseteq Consumer /\ Wrongs(k)' \subseteq Consumer
        /\ consumer \in [Consumer -> TryRecord]
    BY DEF Wrongs, CodesTypeOK, TryRecord
  <1>2. /\ IsFiniteSet(Wrongs(k)) /\ Cardinality(Wrongs(k)) \in Nat
        /\ IsFiniteSet(Wrongs(k)') /\ Cardinality(Wrongs(k)') \in Nat
        /\ Cardinality(Wrongs(k)') <= Cardinality(Consumer) /\ Cardinality(Consumer) \in Nat
        /\ MaxAttempts \in Nat
    BY <1>1, CodeCounts
  <1>3. /\ wrong[k] \in Nat /\ code[k].attempts \in Nat /\ unregistered \in Nat
        /\ signIns[k] \in Nat /\ code[k].consumed \in BOOLEAN
        /\ unregistered' \in Nat
    BY CodeCounts DEF CodesTypeOK
  <1>4. CASE \E matches \in BOOLEAN : FindActive(c, matches)
    <2>1. PICK matches \in BOOLEAN : FindActive(c, matches)
      BY <1>4
    <2>2. PICK n : n = Max({q \in CodeRow : Usable(q)})
      OBVIOUS
    <2>3. n \in CodeRow
      BY <2>1, <2>2, NewestExists DEF FindActive
    <2>4. /\ consumer[c].pc = "idle" /\ code[n].attempts < MaxAttempts
          /\ consumer' = [consumer EXCEPT ![c] =
                 [pc |-> IF matches THEN "right" ELSE "wrong", row |-> n]]
          /\ wrong' = IF matches THEN wrong ELSE [wrong EXCEPT ![n] = @ + 1]
          /\ UNCHANGED <<code, requester, unregistered, signIns>>
      BY <2>1, <2>2 DEF FindActive
    <2>5. CASE ~matches /\ n = k
      <3>1. c \notin Wrongs(k) /\ Wrongs(k)' = Wrongs(k) \cup {c}
        BY <1>1, <2>4, <2>5 DEF Wrongs
      <3>2. Cardinality(Wrongs(k)') = Cardinality(Wrongs(k)) + 1
        BY <1>2, <3>1, Joining
      <3>3. wrong'[k] = wrong[k] + 1
        BY <2>4, <2>5 DEF CodesTypeOK
      <3> QED BY <1>2, <1>3, <2>4, <2>5, <3>2, <3>3 DEF RowBound
    <2>6. CASE matches \/ n # k
      <3>1. Wrongs(k)' = Wrongs(k)
        BY <1>1, <2>4, <2>6 DEF Wrongs
      <3>2. wrong'[k] = wrong[k]
        BY <2>4, <2>6 DEF CodesTypeOK
      <3> QED BY <2>4, <3>1, <3>2 DEF RowBound
    <2> QED BY <2>5, <2>6
  <1>5. CASE RegisterFailedAttempt(c)
    <2>1. /\ consumer[c].pc = "wrong" /\ consumer' = [consumer EXCEPT ![c].pc = "idle"]
          /\ code' = [code EXCEPT ![consumer[c].row].attempts = @ + 1]
          /\ UNCHANGED <<requester, wrong, unregistered, signIns>>
      BY <1>5 DEF RegisterFailedAttempt
    <2>2. CASE consumer[c].row = k
      <3>1. c \in Wrongs(k) /\ Wrongs(k)' = Wrongs(k) \ {c}
        BY <1>1, <2>1, <2>2 DEF Wrongs
      <3>2. Cardinality(Wrongs(k)') = Cardinality(Wrongs(k)) - 1
        BY <1>2, <3>1, Joining
      <3>3. code'[k].attempts = code[k].attempts + 1 /\ code'[k].consumed = code[k].consumed
        BY <2>1, <2>2 DEF CodesTypeOK
      <3> QED BY <1>2, <1>3, <2>1, <3>2, <3>3 DEF RowBound
    <2>3. CASE consumer[c].row # k
      <3>1. Wrongs(k)' = Wrongs(k)
        BY <1>1, <2>1, <2>3 DEF Wrongs
      <3>2. code'[k] = code[k]
        BY <2>1, <2>3 DEF CodesTypeOK
      <3> QED BY <2>1, <3>1, <3>2 DEF RowBound
    <2> QED BY <2>2, <2>3
  <1>6. CASE ConsumeCode(c)
    <2>1. PICK n \in CodeRow : n = consumer[c].row
      BY <1>1 DEF TryRecord
    <2>2. PICK won \in BOOLEAN : won = Usable(n)
      BY DEF Usable
    <2>3. /\ consumer[c].pc = "right" /\ consumer' = [consumer EXCEPT ![c].pc = "idle"]
          /\ code' = [code EXCEPT ![n].consumed = @ \/ won]
          /\ signIns' = IF won THEN [signIns EXCEPT ![n] = @ + 1] ELSE signIns
          /\ UNCHANGED <<requester, wrong, unregistered>>
      BY <1>6, <2>1, <2>2 DEF ConsumeCode
    <2>4. Wrongs(k)' = Wrongs(k)
      BY <1>1, <2>3 DEF Wrongs
    <2>5. code'[k].attempts = code[k].attempts
      BY <2>3 DEF CodesTypeOK
    <2>6. /\ signIns'[k] <= 1
          /\ signIns'[k] = 1 => code'[k].consumed
      <3>1. CASE k = n /\ won
        <4>1. ~code[k].consumed
          BY <2>2, <3>1 DEF Usable
        <4>2. signIns[k] = 0
          BY <1>3, <4>1 DEF RowBound
        <4>3. signIns'[k] = 1
          BY <2>3, <3>1, <4>2 DEF CodesTypeOK
        <4>4. code'[k].consumed
          BY <2>3, <3>1 DEF CodesTypeOK
        <4> QED BY <4>3, <4>4
      <3>2. CASE ~(k = n /\ won)
        <4>1. signIns'[k] = signIns[k]
          BY <2>3, <3>2 DEF CodesTypeOK
        <4>2. code[k].consumed => code'[k].consumed
          BY <2>3 DEF CodesTypeOK
        <4> QED BY <4>1, <4>2 DEF RowBound
      <3> QED BY <3>1, <3>2
    <2> QED BY <2>3, <2>4, <2>5, <2>6 DEF RowBound
  <1>7. CASE TryFails(c)
    <2>1. /\ consumer' = [consumer EXCEPT ![c].pc = "idle"]
          /\ unregistered' = unregistered + (IF consumer[c].pc = "wrong" THEN 1 ELSE 0)
          /\ UNCHANGED <<code, requester, wrong, signIns>>
      BY <1>7 DEF TryFails
    <2>2. CASE c \in Wrongs(k)
      <3>1. Wrongs(k)' = Wrongs(k) \ {c} /\ consumer[c].pc = "wrong"
        BY <1>1, <2>1, <2>2 DEF Wrongs
      <3>2. Cardinality(Wrongs(k)') = Cardinality(Wrongs(k)) - 1
        BY <1>2, <2>2, <3>1, Joining
      <3>3. unregistered' = unregistered + 1
        BY <2>1, <3>1
      <3> QED BY <1>2, <1>3, <2>1, <3>2, <3>3 DEF RowBound
    <2>3. CASE c \notin Wrongs(k)
      <3>1. Wrongs(k)' = Wrongs(k)
        BY <1>1, <2>1, <2>3 DEF Wrongs
      <3>2. unregistered' >= unregistered
        BY <1>3, <2>1
      <3> QED BY <1>2, <1>3, <2>1, <3>1, <3>2 DEF RowBound
    <2> QED BY <2>2, <2>3
  <1> QED BY <1>4, <1>5, <1>6, <1>7

CodesInv == CodesTypeOK /\ RateBound /\ \A k \in CodeRow : RowBound(k)

LEMMA CodesStart == CodesInit => CodesInv
  <1> SUFFICES ASSUME CodesInit PROVE CodesInv
    OBVIOUS
  <1>1. CodesTypeOK
    <2>1. 1 \in CodeRow
      BY LoginCodesAssumption DEF CodeRow
    <2> QED BY <2>1, CodeCounts DEF CodesInit, CodesTypeOK
  <1>2. Recent = {} /\ Allowed = {} /\ Cardinality({}) = 0
    BY FS_EmptySet DEF CodesInit, Recent, Allowed
  <1>3. RateBound
    BY <1>2, CodeCounts DEF RateBound
  <1>4. ASSUME NEW k \in CodeRow PROVE RowBound(k)
    <2>1. Wrongs(k) = {}
      BY DEF CodesInit, Wrongs
    <2>2. code[k].attempts = 0 /\ wrong[k] = 0 /\ signIns[k] = 0 /\ unregistered = 0
      BY DEF CodesInit
    <2> QED BY <1>2, <2>1, <2>2, CodeCounts DEF RowBound
  <1> QED BY <1>1, <1>3, <1>4 DEF CodesInv

LEMMA CodesStep == CodesInv /\ [CodesNext]_codeVars => CodesInv'
  <1> SUFFICES ASSUME CodesInv, [CodesNext]_codeVars PROVE CodesInv'
    OBVIOUS
  <1>1. CodesTypeOK /\ CodesTypeOK' /\ RateBound /\ \A k \in CodeRow : RowBound(k)
    BY CodesTypeStep DEF CodesInv
  <1>2. ASSUME NEW r \in Requester, CountRecent(r) \/ CreateCode(r) \/ RequestFails(r)
        PROVE  RateBound' /\ \A k \in CodeRow : RowBound(k)'
    <2>1. RateBound'
      BY <1>1, <1>2, RateSteps
    <2>2. ASSUME NEW k \in CodeRow PROVE RowBound(k)'
      <3>1. consumer' = consumer /\ UNCHANGED <<wrong, signIns, unregistered>>
        BY <1>2 DEF CountRecent, CreateCode, RequestFails
      <3>2. /\ code'[k].attempts = code[k].attempts
            /\ code[k].consumed => code'[k].consumed
        BY <1>1, <1>2 DEF CountRecent, CreateCode, RequestFails, CodesTypeOK
      <3> QED BY <1>1, <3>1, <3>2, RowKept
    <2> QED BY <2>1, <2>2
  <1>3. ASSUME NEW l \in CodeRow, Ages(l)
        PROVE  RateBound' /\ \A k \in CodeRow : RowBound(k)'
    <2>1. PICK a \in {"expired", "old"} : code' = [code EXCEPT ![l].age = a]
      BY <1>3 DEF Ages
    <2>2. l \in Recent /\ UNCHANGED <<requester, consumer, wrong, unregistered, signIns>>
      BY <1>3 DEF Ages
    <2>3. \A k \in CodeRow : code'[k].age \in {"valid", "expired"}
                                => code[k].age \in {"valid", "expired"}
      BY <1>1, <2>1, <2>2 DEF CodesTypeOK, Recent
    <2>4. RateBound'
      BY <1>1, <2>2, <2>3, RateKept
    <2>5. ASSUME NEW k \in CodeRow PROVE RowBound(k)'
      <3>1. /\ code'[k].attempts = code[k].attempts
            /\ code[k].consumed => code'[k].consumed
        BY <1>1, <2>1 DEF CodesTypeOK
      <3> QED BY <1>1, <2>2, <3>1, RowKept
    <2> QED BY <2>4, <2>5
  <1>4. ASSUME NEW c \in Consumer,
               \/ \E matches \in BOOLEAN : FindActive(c, matches)
               \/ RegisterFailedAttempt(c) \/ ConsumeCode(c) \/ TryFails(c)
        PROVE  RateBound' /\ \A k \in CodeRow : RowBound(k)'
    <2>1. requester' = requester /\ \A k \in CodeRow : code'[k].age = code[k].age
      <3>1. CASE \E matches \in BOOLEAN : FindActive(c, matches)
        BY <3>1 DEF FindActive
      <3>2. CASE RegisterFailedAttempt(c)
        BY <1>1, <3>2 DEF RegisterFailedAttempt, CodesTypeOK
      <3>3. CASE ConsumeCode(c)
        <4>1. PICK n, b : code' = [code EXCEPT ![n].consumed = b] /\ requester' = requester
          BY <3>3 DEF ConsumeCode
        <4> QED BY <1>1, <4>1 DEF CodesTypeOK
      <3>4. CASE TryFails(c)
        BY <3>4 DEF TryFails
      <3> QED BY <1>4, <3>1, <3>2, <3>3, <3>4
    <2>2. RateBound'
      BY <1>1, <2>1, RateKept
    <2>3. \A k \in CodeRow : RowBound(k)'
      BY <1>1, <1>4, TryStep
    <2> QED BY <2>2, <2>3
  <1>5. ASSUME UNCHANGED codeVars
        PROVE  RateBound' /\ \A k \in CodeRow : RowBound(k)'
    <2>1. \A k \in CodeRow : code'[k] = code[k]
      BY <1>5 DEF codeVars
    <2>2. RateBound'
      BY <1>1, <1>5, <2>1, RateKept DEF codeVars
    <2>3. ASSUME NEW k \in CodeRow PROVE RowBound(k)'
      BY <1>1, <1>5, <2>1, RowKept DEF codeVars
    <2> QED BY <2>2, <2>3
  <1>6. RateBound' /\ \A k \in CodeRow : RowBound(k)'
    BY <1>2, <1>3, <1>4, <1>5 DEF CodesNext
  <1> QED BY <1>1, <1>6 DEF CodesInv

(* Whatever requests for codes and with codes overlap, expire or fail,     *)
(* both counts and the sign-ins of each row stay within their bounds.      *)
THEOREM CodesInvariant == CodesSpec => []CodesInv
  <1>1. CodesInit => CodesInv
    BY CodesStart
  <1>2. CodesInv /\ [CodesNext]_codeVars => CodesInv'
    BY CodesStep
  <1> QED BY <1>1, <1>2, PTL DEF CodesSpec

(* One window holds at most RateLimitMax codes and one for each further    *)
(* request in progress; a code takes at most MaxAttempts wrong tries, one  *)
(* for each further try in progress and one for each that was never        *)
(* registered; and no code signs in twice.                                 *)
THEOREM CodesBounded == CodesSpec => []CodesAreBounded
  <1>1. CodesInv => CodesAreBounded
    <2> SUFFICES ASSUME CodesInv PROVE CodesAreBounded
      OBVIOUS
    <2>1. Recent \subseteq CodeRow /\ Allowed \subseteq Requester
      BY DEF Recent, Allowed
    <2>2. Cardinality(Recent) <= RateLimitMax + Cardinality(Requester) - 1
      BY <2>1, CodeCounts DEF CodesInv, RateBound
    <2>3. ASSUME NEW k \in CodeRow
          PROVE  /\ wrong[k] <= MaxAttempts + Cardinality(Consumer) - 1 + unregistered
                 /\ signIns[k] <= 1
      <3>1. Wrongs(k) \subseteq Consumer
        BY DEF Wrongs
      <3>2. Cardinality(Wrongs(k)) \in Nat /\ Cardinality(Consumer) \in Nat /\ MaxAttempts \in Nat
        BY <3>1, CodeCounts
      <3>3. wrong[k] \in Nat /\ code[k].attempts \in Nat /\ unregistered \in Nat
        BY CodeCounts DEF CodesInv, CodesTypeOK
      <3> QED BY <3>2, <3>3 DEF CodesInv, RowBound
    <2> QED BY <2>2, <2>3 DEF CodesAreBounded
  <1> QED BY <1>1, CodesInvariant, PTL
=============================================================================
