------------------------------- MODULE Keyring -------------------------------
(***************************************************************************)
(* RedisJwtKeyringStore: a key ring in Redis, and in each API process a    *)
(* copy of it that lives 30 seconds. A token names the key it was signed   *)
(* with, and is accepted by a process whose ring has that key. The rings   *)
(* for access and refresh tokens do not concern each other.                *)
(***************************************************************************)
CONSTANTS
    Instance,   \* API processes
    RingCall,   \* calls of getRing and rotate in progress
    Key,        \* random keys that rotations may ever make
    Bootstrap   \* the key made of the environment's secret

ASSUME KeyringAssumption == Bootstrap \notin Key /\ Instance # {}

VARIABLES
    stored,     \* keys of the ring in Redis; {} if there is none
    copies,     \* keys of each process's copy; {} if none or expired
    ringCall,   \* the calls
    made        \* history: keys made so far

keyringVars == <<stored, copies, ringCall, made>>

(* The current key and the previous ones; which is current decides what a  *)
(* process signs with and nothing about the ring.                          *)
Ring == SUBSET (Key \cup {Bootstrap})

NoCall == [pc |-> "idle", at |-> CHOOSE n \in Instance : TRUE,
             rotates |-> FALSE, ring |-> {}]

\* get, seed, write: before a command to Redis; read, seeded, wrote: its
\* effect has happened and the reply is on the way
KeyringTypeOK ==
    /\ stored \in Ring
    /\ copies \in [Instance -> Ring]
    /\ ringCall \in [RingCall ->
           [pc : {"idle", "get", "read", "seed", "seeded", "write", "wrote"},
            at : Instance, rotates : BOOLEAN, ring : Ring]]
    /\ made \subseteq Key

KeyringInit ==
    /\ stored = {}
    /\ copies = [n \in Instance |-> {}]
    /\ ringCall = [c \in RingCall |-> NoCall]
    /\ made = {}

(* A call goes on, having this ring. *)
Proceed(c, ring) ==
    ringCall' = [ringCall EXCEPT ![c] =
        IF @.rotates THEN [@ EXCEPT !.pc = "write", !.ring = ring] ELSE NoCall]

(* A valid copy answers without an await; then getRing changes nothing,    *)
(* and rotate goes straight to its write.                                  *)
CallRing(c, n, rotates) ==
    /\ ringCall[c].pc = "idle"
    /\ \/ /\ copies[n] = {}
          /\ ringCall' = [ringCall EXCEPT ![c] =
                 [pc |-> "get", at |-> n, rotates |-> rotates, ring |-> {}]]
       \/ /\ copies[n] # {} /\ rotates
          /\ ringCall' = [ringCall EXCEPT ![c] =
                 [pc |-> "write", at |-> n, rotates |-> TRUE, ring |-> copies[n]]]
    /\ UNCHANGED <<stored, copies, made>>

GetStored(c) ==
    /\ ringCall[c].pc = "get"
    /\ ringCall' = [ringCall EXCEPT ![c].pc = "read", ![c].ring = stored]
    /\ UNCHANGED <<stored, copies, made>>

TakeCopy(c) ==
    LET ring == ringCall[c].ring IN
    /\ ringCall[c].pc = "read"
    /\ \/ /\ ring # {}
          /\ copies' = [copies EXCEPT ![ringCall[c].at] = ring]
          /\ Proceed(c, ring)
       \/ /\ ring = {}
          /\ ringCall' = [ringCall EXCEPT ![c].pc = "seed", ![c].ring = {Bootstrap}]
          /\ UNCHANGED copies
    /\ UNCHANGED <<stored, made>>

(* A plain SET, whatever another process has stored since the GET. *)
Seed(c) ==
    /\ ringCall[c].pc = "seed"
    /\ stored' = ringCall[c].ring
    /\ ringCall' = [ringCall EXCEPT ![c].pc = "seeded"]
    /\ UNCHANGED <<copies, made>>

CopySeed(c) ==
    /\ ringCall[c].pc = "seeded"
    /\ copies' = [copies EXCEPT ![ringCall[c].at] = ringCall[c].ring]
    /\ Proceed(c, ringCall[c].ring)
    /\ UNCHANGED <<stored, made>>

RotatedRing_LastTwo(ring, k) == {k} \cup {p \in ring : p = CHOOSE q \in ring : TRUE}

(* The fresh key becomes current; every other is kept as previous. *)
RotatedRing(ring, k) == {k} \cup ring

(* A plain SET again, not a transaction that watches the ring read. *)
WriteRotated(c) ==
    /\ ringCall[c].pc = "write"
    /\ \E k \in Key \ made :
          /\ stored' = RotatedRing(ringCall[c].ring, k)
          /\ made' = made \cup {k}
          /\ ringCall' = [ringCall EXCEPT ![c].pc = "wrote", ![c].ring = stored']
    /\ UNCHANGED copies

(* The copy of this process is deleted; others keep theirs. *)
DeleteCopy(c) ==
    /\ ringCall[c].pc = "wrote"
    /\ copies' = [copies EXCEPT ![ringCall[c].at] = {}]
    /\ ringCall' = [ringCall EXCEPT ![c] = NoCall]
    /\ UNCHANGED <<stored, made>>

(* 30 seconds; and the end of the process. *)
CopyExpires(n) ==
    /\ copies[n] # {}
    /\ copies' = [copies EXCEPT ![n] = {}]
    /\ UNCHANGED <<stored, ringCall, made>>

(* A command is rejected, with or without effect, or the process ends. *)
CallFails(c) ==
    /\ ringCall[c].pc # "idle"
    /\ ringCall' = [ringCall EXCEPT ![c] = NoCall]
    /\ UNCHANGED <<stored, copies, made>>

KeyringNext ==
    \/ \E c \in RingCall :
          \/ \E n \in Instance, rotates \in BOOLEAN : CallRing(c, n, rotates)
          \/ GetStored(c) \/ TakeCopy(c) \/ Seed(c) \/ CopySeed(c)
          \/ WriteRotated(c) \/ DeleteCopy(c) \/ CallFails(c)
    \/ \E n \in Instance : CopyExpires(n)

KeyringSpec == KeyringInit /\ [][KeyringNext]_keyringVars

(***************************************************************************)
(* Properties                                                              *)
(***************************************************************************)

(* k is in the stored ring, in every copy, and in every ring a call under  *)
(* way may still copy or write.                                            *)
Spread(k) ==
    /\ k \in stored
    /\ \A n \in Instance : copies[n] = {} \/ k \in copies[n]
    /\ \A c \in RingCall :
          ringCall[c].pc \in {"idle", "get"} \/ k \in ringCall[c].ring

(* Once every process has heard of a key, tokens signed with it are        *)
(* accepted everywhere ever after: rotations and first rings that are      *)
(* written over one another lose only keys that some process had not read. *)
SpreadKeysStay == [][\A k \in Key \cup {Bootstrap} : Spread(k) => Spread(k)']_keyringVars

(* What the comment on the store says, refuted by a run: concurrent        *)
(* rotations lose no previous key.                                         *)
RotationKeepsKeys == [][stored \subseteq stored']_keyringVars
=============================================================================
