----------------------------- MODULE EventStream ----------------------------
(***************************************************************************)
(* One Redis stream and one consumer group of RedisStreamsEventBus         *)
(* (packages/events).  A consumer is one subscription of one process: it   *)
(* reads a batch of new entries, works it off entry by entry, and only     *)
(* ever asks for entries nobody has been given (XREADGROUP with >).        *)
(*                                                                         *)
(* An entry is its position in the stream.  Because a read returns         *)
(* consecutive entries, the rest of a batch is the interval next..last.    *)
(* A restarted process reads under a new CONSUMER_NAME, so what matters of *)
(* the group's pending list is only which entries are on it.               *)
(***************************************************************************)
EXTENDS Integers, FiniteSets

CONSTANTS
    Consumer,       \* subscriptions to the group
    Attempts,       \* deadLetterAfterAttempts
    ReadCount,      \* READ_COUNT
    MaxEvent,       \* bound: entries ever published
    MaxFaults,      \* bound: crashes and failed Redis commands
    MaxStops        \* bound: unsubscribe and close calls

ASSUME StreamAssumption ==
    /\ Attempts \in Nat \ {0}
    /\ ReadCount \in Nat \ {0}
    /\ MaxEvent \in Nat
    /\ MaxFaults \in Nat
    /\ MaxStops \in Nat

VARIABLES
    published,      \* the stream's last entry
    malformed,      \* entries without a readable data field
    group,          \* the consumer group exists
    start,          \* history: the stream's last entry when it was created
    cursor,         \* the group's last delivered entry
    pel,            \* the group's pending list: delivered, not acknowledged
    dlq,            \* how often each entry is in the dead-letter stream
    consumer,       \* the local state of each runConsumer loop
    runs,           \* history: how often each entry's handler ran
    handled,        \* history: how often it succeeded
    faults, stops   \* how much of the bounds is used

vars == <<published, malformed, group, start, cursor, pel, dlq, consumer,
          runs, handled, faults, stops>>

Entry == 1..MaxEvent

Loop == [pc: {"down", "create", "read", "drop", "handle", "ack", "dead",
              "deadAck"},
         next: 1..MaxEvent + 1, last: 0..MaxEvent,
         attempt: 1..Attempts + 1, stop: BOOLEAN]

Down == [pc |-> "down", next |-> 1, last |-> 0, attempt |-> 1, stop |-> FALSE]

TypeOK ==
    /\ published \in 0..MaxEvent
    /\ malformed \in SUBSET Entry
    /\ group \in BOOLEAN
    /\ start \in 0..published
    /\ cursor \in start..published
    /\ pel \in SUBSET Entry
    /\ dlq \in [Entry -> Nat]
    /\ consumer \in [Consumer -> Loop]
    /\ runs \in [Entry -> Nat]
    /\ handled \in [Entry -> Nat]
    /\ faults \in 0..MaxFaults
    /\ stops \in 0..MaxStops

Init ==
    /\ published = 0
    /\ malformed = {}
    /\ group = FALSE
    /\ start = 0
    /\ cursor = 0
    /\ pel = {}
    /\ dlq = [e \in Entry |-> 0]
    /\ consumer = [c \in Consumer |-> Down]
    /\ runs = [e \in Entry |-> 0]
    /\ handled = [e \in Entry |-> 0]
    /\ faults = 0
    /\ stops = 0

stream == <<published, malformed>>
history == <<runs, handled>>
bounds == <<faults, stops>>

Pc(c) == consumer[c].pc
Current(c) == consumer[c].next
Batch(c) == consumer[c].next .. consumer[c].last

Become(c, loop) == consumer' = [consumer EXCEPT ![c] = loop]

(* The loop of consumer c at pc, with entries next..last to work off. *)
At(c, pc, next, last, attempt) ==
    [pc |-> pc, next |-> next, last |-> last, attempt |-> attempt,
     stop |-> consumer[c].stop]

(* handleEntry begins with entry next, or the batch is done. *)
Turn(c, next, last) ==
    At(c, CASE next > last -> "read"
            [] next <= last /\ next \in malformed -> "drop"
            [] OTHER -> "handle",
       next, last, 1)

(* Fault: the loop leaves as soon as it is told to stop. *)
Advance_Abrupt(c) ==
    Become(c, IF consumer[c].stop
              THEN Down
              ELSE Turn(c, Current(c) + 1, consumer[c].last))

Advance(c) == Become(c, Turn(c, Current(c) + 1, consumer[c].last))

(***************************************************************************)
(* Publishing and subscribing                                              *)
(***************************************************************************)

Publish ==
    /\ published < MaxEvent
    /\ published' = published + 1
    /\ malformed' \in {malformed, malformed \cup {published + 1}}
    /\ UNCHANGED <<group, start, cursor, pel, dlq, consumer, history, bounds>>

(* subscribe starts the loop; a process that ended is started again. *)
Subscribe(c) ==
    /\ Pc(c) = "down"
    /\ Become(c, [Down EXCEPT !.pc = "create"])
    /\ UNCHANGED <<stream, group, start, cursor, pel, dlq, history, bounds>>

(* XGROUP CREATE at $; a group that exists is left alone (BUSYGROUP). *)
CreateGroup(c) ==
    /\ Pc(c) = "create"
    /\ \/ /\ ~group
          /\ group' = TRUE
          /\ start' = published
          /\ cursor' = published
       \/ /\ group
          /\ UNCHANGED <<group, start, cursor>>
    /\ Become(c, At(c, "read", 1, 0, 1))
    /\ UNCHANGED <<stream, pel, dlq, history, bounds>>

(* unsubscribe and close only set the flag and wait for the loop. *)
Stop(c) ==
    /\ Pc(c) # "down" /\ ~consumer[c].stop
    /\ stops < MaxStops
    /\ Become(c, [consumer[c] EXCEPT !.stop = TRUE])
    /\ stops' = stops + 1
    /\ UNCHANGED <<stream, group, start, cursor, pel, dlq, history, faults>>

Quit(c) ==
    /\ Pc(c) = "read" /\ consumer[c].stop
    /\ Become(c, Down)
    /\ UNCHANGED <<stream, group, start, cursor, pel, dlq, history, bounds>>

(***************************************************************************)
(* The consumer loop                                                       *)
(***************************************************************************)

(* Fault: the read leaves the group's cursor where it was. *)
CursorAfter_Stays(last) == cursor

CursorAfter(last) == last

(* XREADGROUP >: up to ReadCount entries no consumer has been given.       *)
Read(c) ==
    /\ Pc(c) = "read" /\ ~consumer[c].stop
    /\ cursor < published
    /\ LET last == IF published > cursor + ReadCount
                   THEN cursor + ReadCount
                   ELSE published
       IN /\ cursor' = CursorAfter(last)
          /\ pel' = pel \cup (cursor + 1 .. last)
          /\ Become(c, Turn(c, cursor + 1, last))
    /\ UNCHANGED <<stream, group, start, dlq, history, bounds>>

(* A malformed entry is acknowledged and forgotten. *)
Drop(c) ==
    /\ Pc(c) = "drop"
    /\ pel' = pel \ {Current(c)}
    /\ Advance(c)
    /\ UNCHANGED <<stream, group, start, cursor, dlq, history, bounds>>

Succeed(c) ==
    /\ Pc(c) = "handle"
    /\ runs' = [runs EXCEPT ![Current(c)] = @ + 1]
    /\ handled' = [handled EXCEPT ![Current(c)] = @ + 1]
    /\ Become(c, At(c, "ack", Current(c), consumer[c].last,
                    consumer[c].attempt))
    /\ UNCHANGED <<stream, group, start, cursor, pel, dlq, bounds>>

(* Fault: a failed acknowledgement does not count as an attempt. *)
NextAttempt_KeepsCount(c) ==
    At(c, IF Pc(c) = "handle" /\ consumer[c].attempt = Attempts
          THEN "dead"
          ELSE "handle",
       Current(c), consumer[c].last,
       IF Pc(c) = "handle" THEN consumer[c].attempt + 1
                           ELSE consumer[c].attempt)

(* Fault: the attempt loop runs once too often. *)
NextAttempt_OneMore(c) ==
    LET attempt == consumer[c].attempt + 1
    IN At(c, IF attempt <= Attempts + 1 THEN "handle" ELSE "dead",
          Current(c), consumer[c].last, attempt)

(* The end of one turn of the attempt loop. *)
NextAttempt(c) ==
    LET attempt == consumer[c].attempt + 1
    IN At(c, IF attempt <= Attempts THEN "handle" ELSE "dead",
          Current(c), consumer[c].last, attempt)

Reject(c) ==
    /\ Pc(c) = "handle"
    /\ runs' = [runs EXCEPT ![Current(c)] = @ + 1]
    /\ Become(c, NextAttempt(c))
    /\ UNCHANGED <<stream, group, start, cursor, pel, dlq, handled, bounds>>

(* Fault: the attempt loop does not return after a successful XACK. *)
Ack_GoesOn(c) ==
    /\ Pc(c) = "ack"
    /\ pel' = pel \ {Current(c)}
    /\ Become(c, NextAttempt(c))
    /\ UNCHANGED <<stream, group, start, cursor, dlq, history, bounds>>

Ack(c) ==
    /\ Pc(c) = "ack"
    /\ pel' = pel \ {Current(c)}
    /\ Advance(c)
    /\ UNCHANGED <<stream, group, start, cursor, dlq, history, bounds>>

(* XACK rejects, whether or not Redis applied it: the catch of the attempt *)
(* loop takes it for a failure of the handler.                             *)
AckFails(c) ==
    /\ Pc(c) = "ack"
    /\ faults < MaxFaults
    /\ faults' = faults + 1
    /\ pel' \in {pel, pel \ {Current(c)}}
    /\ Become(c, NextAttempt(c))
    /\ UNCHANGED <<stream, group, start, cursor, dlq, history, stops>>

(* Fault: the entry is acknowledged, and the dead-letter entry is left out. *)
DeadLetter_NoRecord(c) ==
    /\ Pc(c) = "dead"
    /\ pel' = pel \ {Current(c)}
    /\ Become(c, At(c, "deadAck", Current(c), consumer[c].last,
                    consumer[c].attempt))
    /\ UNCHANGED <<stream, group, start, cursor, dlq, history, bounds>>

DeadLetter(c) ==
    /\ Pc(c) = "dead"
    /\ dlq' = [dlq EXCEPT ![Current(c)] = @ + 1]
    /\ Become(c, At(c, "deadAck", Current(c), consumer[c].last,
                    consumer[c].attempt))
    /\ UNCHANGED <<stream, group, start, cursor, pel, history, bounds>>

(* Fault: the acknowledgement after the dead letter is missing. *)
DeadAck_Missing(c) ==
    /\ Pc(c) = "deadAck"
    /\ Become(c, At(c, "deadAck", Current(c), consumer[c].last, 1))
    /\ UNCHANGED <<stream, group, start, cursor, pel, dlq, history, bounds>>

DeadAck(c) ==
    /\ Pc(c) = "deadAck"
    /\ pel' = pel \ {Current(c)}
    /\ Advance(c)
    /\ UNCHANGED <<stream, group, start, cursor, dlq, history, bounds>>

(* The process crashes, or a Redis command outside the attempt loop        *)
(* rejects and ends the loop; the rest of the batch is forgotten.  A       *)
(* command that Redis applied before it rejected is its action followed    *)
(* by this one.                                                            *)
Die(c) ==
    /\ Pc(c) # "down"
    /\ faults < MaxFaults
    /\ faults' = faults + 1
    /\ Become(c, Down)
    /\ UNCHANGED <<stream, group, start, cursor, pel, dlq, history, stops>>

Work(c) ==
    \/ Subscribe(c) \/ CreateGroup(c) \/ Quit(c) \/ Read(c) \/ Drop(c)
    \/ Succeed(c) \/ Reject(c) \/ Ack(c) \/ DeadLetter(c) \/ DeadAck(c)

Next ==
    \/ Publish
    \/ \E c \in Consumer : Work(c) \/ Stop(c) \/ AckFails(c) \/ Die(c)

Spec == Init /\ [][Next]_vars

(* Handlers and Redis commands settle, the loop goes on, and a process     *)
(* that ended is started again; nothing is assumed of publishers, stops    *)
(* and faults.                                                             *)
FairSpec == Spec /\ \A c \in Consumer : WF_vars(Work(c))

(***************************************************************************)
(* Properties                                                              *)
(***************************************************************************)

(* The entries the group has been given. *)
Delivered == IF group THEN start + 1 .. cursor ELSE {}

(* An entry leaves the pending list only after its handler succeeded or    *)
(* it reached the dead-letter stream, whatever crashes in between.         *)
SettledIsAnswered ==
    \A e \in Delivered \ (pel \cup malformed) : handled[e] > 0 \/ dlq[e] > 0

(* Competing consumers: no entry is in the hands of two of them. *)
OneHolder ==
    \A c, d \in Consumer : c # d => Batch(c) \cap Batch(d) = {}

(* The handler runs at most Attempts times for an entry, and an entry is   *)
(* dead-lettered at most once and only after all its attempts.             *)
AttemptsAreBounded ==
    \A e \in Entry :
        /\ runs[e] <= Attempts
        /\ dlq[e] > 0 => dlq[e] = 1 /\ runs[e] = Attempts

(* Without a fault every pending entry is in the hands of a running loop:  *)
(* unsubscribe and close let the loop finish its batch.                    *)
NothingStranded ==
    faults = 0 => pel = UNION {Batch(c) : c \in Consumer}

(* As long as no process crashed and no Redis command failed, the group    *)
(* gets no event twice, whoever stops and restarts meanwhile ...           *)
OnceWithoutFaults ==
    faults = 0 => \A e \in Entry : handled[e] + dlq[e] <= 1

(* ... and acknowledges each one in the end.                               *)
SettlesWithoutFaults ==
    \A e \in Entry :
        (e \in Delivered) ~> ((e \in Delivered /\ e \notin pel) \/ faults > 0)

(***************************************************************************)
(* What the comments of the port say, and a run refutes                    *)
(***************************************************************************)

(* At-least-once delivery: an entry delivered to the group is handled or   *)
(* dead-lettered in the end, crashes and restarts included.                *)
AtLeastOnce ==
    \A e \in Entry :
        e \in Delivered \ malformed ~> handled[e] > 0 \/ dlq[e] > 0
=============================================================================
