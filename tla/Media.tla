------------------------------- MODULE Media --------------------------------
(***************************************************************************)
(* Media assets: rows in PostgreSQL, bytes in a bucket, and the daily      *)
(* sweep that deletes objects no row refers to. A client creates a row,    *)
(* uploads to the presigned URL it gets, and confirms; the confirmation    *)
(* also stores the resized variants of an image next to the original.      *)
(***************************************************************************)
EXTENDS FiniteSets

CONSTANTS
    Asset,      \* media rows that may ever be created; keys are random, so
                \* no two rows share one
    Label,      \* the variants the image processor makes
    Confirmer,  \* requests that confirm an upload
    Sweeper     \* API instances, each with its timer

ASSUME RawAssumption == "raw" \notin Label
ASSUME AssetAssumption == Asset # {}

VARIABLES
    media,      \* MediaAsset rows
    url,        \* assets whose presigned upload URL is still valid
    bucket,     \* keys of the objects stored
    confirm,    \* ConfirmUploadUseCase in progress
    sweep       \* OrphanS3SweepUseCase in progress

mediaVars == <<media, url, bucket, confirm, sweep>>

Raw(a) == <<a, "raw">>
MediaKey == Asset \X (Label \cup {"raw"})

NoMedia == [status |-> "none", kind |-> "image", variants |-> {}]
MediaRow == [status : {"none", "processing", "ready", "deleted"},
             kind : {"image", "video"},
             variants : SUBSET Label]

HasRow(a) == media[a].status \in {"processing", "ready"}

(* Keys found by listAllS3Keys: the column s3KeyRaw and nothing else. *)
KnownKeys == {Raw(a) : a \in {b \in Asset : HasRow(b)}}

MediaTypeOK ==
    /\ media \in [Asset -> MediaRow]
    /\ url \subseteq Asset
    /\ bucket \subseteq MediaKey
    /\ confirm \in [Confirmer ->
           [pc : {"idle", "found", "landed", "ready", "stripped", "putting"},
            asset : Asset, put : SUBSET Label]]
    /\ sweep \in [Sweeper ->
           [pc : {"idle", "half", "deleting"}, listed : SUBSET MediaKey]]

MediaInit ==
    /\ media = [a \in Asset |-> NoMedia]
    /\ url = {}
    /\ bucket = {}
    /\ confirm = [c \in Confirmer |->
           [pc |-> "idle", asset |-> CHOOSE a \in Asset : TRUE, put |-> {}]]
    /\ sweep = [s \in Sweeper |-> [pc |-> "idle", listed |-> {}]]

(***************************************************************************)
(* Upload and moderation                                                   *)
(***************************************************************************)

(* The row comes first, the URL under which bytes may arrive second, in    *)
(* one step here: a request that ends in between leaves a row whose URL    *)
(* nobody uses, which the model has as well.                               *)
CreateUpload(a, kind) ==
    /\ media[a].status = "none"
    /\ media' = [media EXCEPT ![a].status = "processing", ![a].kind = kind]
    /\ url' = url \cup {a}
    /\ UNCHANGED <<bucket, confirm, sweep>>

(* The client's PUT, at any time before the URL expires, also more than    *)
(* once and also after an administrator has deleted the row.               *)
Upload(a) ==
    /\ a \in url
    /\ bucket' = bucket \cup {Raw(a)}
    /\ UNCHANGED <<media, url, confirm, sweep>>

UrlExpires(a) ==
    /\ a \in url
    /\ url' = url \ {a}
    /\ UNCHANGED <<media, bucket, confirm, sweep>>

(* adminDelete removes the row and leaves the bytes to the sweep. *)
AdminDelete(a) ==
    /\ HasRow(a)
    /\ media' = [media EXCEPT ![a].status = "deleted"]
    /\ UNCHANGED <<url, bucket, confirm, sweep>>

(***************************************************************************)
(* ConfirmUploadUseCase, one action per awaited call                       *)
(***************************************************************************)

(* A ready asset is returned as it is, a missing one is an error. *)
FindToConfirm(c, a) ==
    /\ confirm[c].pc = "idle" /\ media[a].status = "processing"
    /\ confirm' = [confirm EXCEPT ![c] = [pc |-> "found", asset |-> a, put |-> {}]]
    /\ UNCHANGED <<media, url, bucket, sweep>>

CheckObject_Trusting(c) ==
    /\ confirm[c].pc = "found"
    /\ confirm' = [confirm EXCEPT ![c].pc = "landed"]
    /\ UNCHANGED <<media, url, bucket, sweep>>

CheckObject(c) ==
    /\ confirm[c].pc = "found"
    /\ confirm' = [confirm EXCEPT
           ![c].pc = IF Raw(confirm[c].asset) \in bucket THEN "landed" ELSE "idle"]
    /\ UNCHANGED <<media, url, bucket, sweep>>

(* The update asks for id and owner only; a video is done with it. *)
MarkReady(c) ==
    LET a == confirm[c].asset IN
    /\ confirm[c].pc = "landed"
    /\ media' = IF HasRow(a) THEN [media EXCEPT ![a].status = "ready"] ELSE media
    /\ confirm' = [confirm EXCEPT
           ![c].pc = IF HasRow(a) /\ media[a].kind = "image" THEN "ready" ELSE "idle"]
    /\ UNCHANGED <<url, bucket, sweep>>

(* markExifStrippedForOwner sets a flag nothing here depends on, and the   *)
(* use case goes on whether or not it found the row.                       *)
StripExif(c) ==
    /\ confirm[c].pc = "ready"
    /\ confirm' = [confirm EXCEPT ![c].pc = "stripped"]
    /\ UNCHANGED <<media, url, bucket, sweep>>

GetOriginal(c) ==
    /\ confirm[c].pc = "stripped"
    /\ confirm' = [confirm EXCEPT
           ![c].pc = IF Raw(confirm[c].asset) \in bucket THEN "putting" ELSE "idle"]
    /\ UNCHANGED <<media, url, bucket, sweep>>

PutVariant(c, l) ==
    /\ confirm[c].pc = "putting" /\ l \notin confirm[c].put
    /\ bucket' = bucket \cup {<<confirm[c].asset, l>>}
    /\ confirm' = [confirm EXCEPT ![c].put = @ \cup {l}]
    /\ UNCHANGED <<media, url, sweep>>

UpdateVariants(c) ==
    LET a == confirm[c].asset IN
    /\ confirm[c].pc = "putting" /\ confirm[c].put = Label
    /\ media' = IF HasRow(a) THEN [media EXCEPT ![a].variants = Label] ELSE media
    /\ confirm' = [confirm EXCEPT ![c].pc = "idle"]
    /\ UNCHANGED <<url, bucket, sweep>>

(* A rejected call or a crash; after markReady it is swallowed, and no     *)
(* later confirmation repeats the rest.                                    *)
ConfirmFails(c) ==
    /\ confirm[c].pc # "idle"
    /\ confirm' = [confirm EXCEPT ![c].pc = "idle"]
    /\ UNCHANGED <<media, url, bucket, sweep>>

(***************************************************************************)
(* OrphanS3SweepUseCase                                                    *)
(***************************************************************************)

Diff_RowsFirst(s) ==
    /\ \/ /\ sweep[s].pc = "idle"
          /\ sweep' = [sweep EXCEPT ![s] = [pc |-> "half", listed |-> KnownKeys]]
       \/ /\ sweep[s].pc = "half"
          /\ \E keys \in SUBSET bucket :
                sweep' = [sweep EXCEPT ![s] =
                    [pc |-> "deleting", listed |-> keys \ @.listed]]
    /\ UNCHANGED <<media, url, bucket, confirm>>

(* First the bucket, page by page and at most 1000 pages, so that any part *)
(* of it may be listed; then the rows. What is listed and not known is     *)
(* deleted.                                                                *)
Diff(s) ==
    /\ \/ /\ sweep[s].pc = "idle"
          /\ \E keys \in SUBSET bucket :
                sweep' = [sweep EXCEPT ![s] = [pc |-> "half", listed |-> keys]]
       \/ /\ sweep[s].pc = "half"
          /\ sweep' = [sweep EXCEPT ![s] =
                 [pc |-> "deleting", listed |-> @.listed \ KnownKeys]]
    /\ UNCHANGED <<media, url, bucket, confirm>>

(* One DELETE; a key whose deletion fails is left for the next sweep. The  *)
(* order of the listing is immaterial.                                     *)
DeleteOrphan(s, k) ==
    /\ sweep[s].pc = "deleting" /\ k \in sweep[s].listed
    /\ bucket' \in {bucket, bucket \ {k}}
    /\ sweep' = [sweep EXCEPT ![s].listed = @ \ {k}]
    /\ UNCHANGED <<media, url, confirm>>

(* The last key, a listing that rejects, or a crash. *)
SweepEnds(s) ==
    /\ sweep[s].pc # "idle"
    /\ sweep' = [sweep EXCEPT ![s] = [pc |-> "idle", listed |-> {}]]
    /\ UNCHANGED <<media, url, bucket, confirm>>

MediaNext ==
    \/ \E a \in Asset, kind \in {"image", "video"} : CreateUpload(a, kind)
    \/ \E a \in Asset : Upload(a) \/ UrlExpires(a) \/ AdminDelete(a)
    \/ \E c \in Confirmer :
          \/ \E a \in Asset : FindToConfirm(c, a)
          \/ CheckObject(c) \/ MarkReady(c) \/ StripExif(c) \/ GetOriginal(c)
          \/ \E l \in Label : PutVariant(c, l)
          \/ UpdateVariants(c) \/ ConfirmFails(c)
    \/ \E s \in Sweeper :
          \/ Diff(s) \/ SweepEnds(s)
          \/ \E k \in MediaKey : DeleteOrphan(s, k)

MediaSpec == MediaInit /\ [][MediaNext]_mediaVars

(***************************************************************************)
(* Properties                                                              *)
(***************************************************************************)

(* A ready asset can be downloaded: however uploads, confirmations,        *)
(* deletions and sweeps of several instances overlap, no sweep takes the   *)
(* original of a row that exists, and none is confirmed without it.        *)
ReadyHasBytes ==
    \A a \in Asset : media[a].status = "ready" => Raw(a) \in bucket

(* What the comments on the sweep say, refuted by a run: an object that    *)
(* the row of an asset names is not an orphan.                             *)
VariantsExist ==
    \A a \in Asset : HasRow(a) =>
        \A l \in media[a].variants : <<a, l>> \in bucket
=============================================================================
