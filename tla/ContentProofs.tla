---------------------------- MODULE ContentProofs ----------------------------
(***************************************************************************)
(* Proofs about Media, SettleUp, TripBalances, Subscription and LocalBus   *)
(* for any number of assets, sweeps, members, readers, webhook deliveries, *)
(* events and handlers.                                                    *)
(***************************************************************************)
EXTENDS Media, SettleUp, TripBalances, Subscription, LocalBus, NaturalLemmas

(***************************************************************************)
(* Media                                                                   *)
(***************************************************************************)

ConfirmRecord ==
    [pc : {"idle", "found", "landed", "ready", "stripped", "putting"},
     asset : Asset, put : SUBSET Label]
SweepRecord == [pc : {"idle", "half", "deleting"}, listed : SUBSET MediaKey]

(* Bytes only come after the row of their asset.                           *)
BytesOK ==
    /\ \A a \in url : media[a].status # "none"
    /\ \A a \in Asset : Raw(a) \in bucket => media[a].status # "none"

(* A confirmation that has seen the bytes may count on them as long as the *)
(* row is there.                                                           *)
ConfirmOK(c) ==
    confirm[c].pc = "landed" =>
        /\ media[confirm[c].asset].status # "none"
        /\ HasRow(confirm[c].asset) => Raw(confirm[c].asset) \in bucket

(* A sweep has only listed originals that came after their row, and only   *)
(* deletes those whose row is gone.                                        *)
SweepOK(s) ==
    \A a \in Asset : Raw(a) \in sweep[s].listed =>
        /\ sweep[s].pc = "half" => media[a].status # "none"
        /\ sweep[s].pc = "deleting" => media[a].status = "deleted"

MediaInv ==
    /\ MediaTypeOK
    /\ BytesOK
    /\ \A c \in Confirmer : ConfirmOK(c)
    /\ \A s \in Sweeper : SweepOK(s)
    /\ ReadyHasBytes

LEMMA RawKeys ==
    /\ \A a \in Asset : Raw(a) \in MediaKey
    /\ \A a, b : Raw(a) = Raw(b) => a = b
    /\ \A a, b, l : l \in Label => Raw(a) # <<b, l>>
  BY RawAssumption DEF Raw, MediaKey

LEMMA MediaStart == MediaInit => MediaInv
  <1> SUFFICES ASSUME MediaInit PROVE MediaInv
    OBVIOUS
  <1> DEFINE a0 == CHOOSE a \in Asset : TRUE
  <1>1. a0 \in Asset
    BY AssetAssumption
  <1> HIDE DEF a0
  <1>2. confirm = [c \in Confirmer |-> [pc |-> "idle", asset |-> a0, put |-> {}]]
    BY DEF MediaInit, a0
  <1>3. confirm \in [Confirmer -> ConfirmRecord]
    BY <1>1, <1>2 DEF ConfirmRecord
  <1>4. MediaTypeOK
    BY <1>3 DEF MediaInit, MediaTypeOK, ConfirmRecord, NoMedia, MediaRow
  <1>5. \A c \in Confirmer : ConfirmOK(c)
    BY <1>2 DEF ConfirmOK
  <1> QED BY <1>4, <1>5
          DEF MediaInit, MediaInv, BytesOK, SweepOK, ReadyHasBytes, NoMedia

LEMMA MediaTypeStep == MediaTypeOK /\ [MediaNext]_mediaVars => MediaTypeOK'
  <1> SUFFICES ASSUME MediaTypeOK, [MediaNext]_mediaVars PROVE MediaTypeOK'
    OBVIOUS
  <1> USE DEF MediaTypeOK
  <1>1. ASSUME NEW a \in Asset, NEW kind \in {"image", "video"},
               CreateUpload(a, kind) \/ Upload(a) \/ UrlExpires(a) \/ AdminDelete(a)
        PROVE  MediaTypeOK'
    <2>1. media[a] \in MediaRow
      OBVIOUS
    <2>2. media' \in [Asset -> MediaRow]
      <3>1. CASE CreateUpload(a, kind)
        <4>1. media' = [media EXCEPT ![a] = [media[a] EXCEPT !.status = "processing",
                                                             !.kind = kind]]
          BY <3>1 DEF CreateUpload
        <4>2. [media[a] EXCEPT !.status = "processing", !.kind = kind] \in MediaRow
          BY <2>1 DEF MediaRow
        <4> QED BY <4>1, <4>2
      <3>2. CASE AdminDelete(a)
        <4>1. [media[a] EXCEPT !.status = "deleted"] \in MediaRow
          BY <2>1 DEF MediaRow
        <4> QED BY <3>2, <4>1 DEF AdminDelete
      <3>3. CASE Upload(a) \/ UrlExpires(a)
        BY <3>3 DEF Upload, UrlExpires
      <3> QED BY <1>1, <3>1, <3>2, <3>3
    <2> QED BY <1>1, <2>2, RawKeys DEF CreateUpload, Upload, UrlExpires, AdminDelete
  <1>2. ASSUME NEW c \in Confirmer, NEW a \in Asset,
               FindToConfirm(c, a) \/ CheckObject(c) \/ StripExif(c) \/ GetOriginal(c)
               \/ ConfirmFails(c)
        PROVE  MediaTypeOK'
    BY <1>2 DEF FindToConfirm, CheckObject, StripExif, GetOriginal, ConfirmFails
  <1>3. ASSUME NEW c \in Confirmer, MarkReady(c) \/ UpdateVariants(c)
        PROVE  MediaTypeOK'
    <2>1. PICK a \in Asset : a = confirm[c].asset
      OBVIOUS
    <2>2. /\ [media[a] EXCEPT !.status = "ready"] \in MediaRow
          /\ [media[a] EXCEPT !.variants = Label] \in MediaRow
      BY DEF MediaRow
    <2>3. media' \in [Asset -> MediaRow]
      BY <1>3, <2>1, <2>2 DEF MarkReady, UpdateVariants
    <2> QED BY <1>3, <2>3 DEF MarkReady, UpdateVariants
  <1>4. ASSUME NEW c \in Confirmer, NEW l \in Label, PutVariant(c, l)
        PROVE  MediaTypeOK'
    BY <1>4 DEF PutVariant, MediaKey
  <1>5. ASSUME NEW s \in Sweeper, Diff(s) \/ SweepEnds(s)
        PROVE  MediaTypeOK'
    BY <1>5 DEF Diff, SweepEnds
  <1>6. ASSUME NEW s \in Sweeper, NEW k \in MediaKey, DeleteOrphan(s, k)
        PROVE  MediaTypeOK'
    BY <1>6 DEF DeleteOrphan
  <1>7. CASE UNCHANGED mediaVars
    BY <1>7 DEF mediaVars
  <1> QED BY AssetAssumption, <1>1, <1>2, <1>3, <1>4, <1>5, <1>6, <1>7 DEF MediaNext

(* The statements about rows, bytes, confirmations and sweeps.             *)
LEMMA MediaStep == MediaInv /\ [MediaNext]_mediaVars => MediaInv'
  <1> SUFFICES ASSUME MediaInv, [MediaNext]_mediaVars PROVE MediaInv'
    OBVIOUS
  <1>0. MediaTypeOK /\ MediaTypeOK'
    BY MediaTypeStep DEF MediaInv
  <1>1. ASSUME NEW a \in Asset, NEW kind \in {"image", "video"},
               CreateUpload(a, kind) \/ Upload(a) \/ UrlExpires(a) \/ AdminDelete(a)
        PROVE  MediaInv'
    <2>1. /\ UNCHANGED <<confirm, sweep>> /\ bucket \subseteq bucket'
          /\ \A b \in Asset :
                /\ media[b].status # "none" => media'[b].status # "none"
                /\ media[b].status = "deleted" => media'[b].status = "deleted"
                /\ media'[b].status = "ready" => media[b].status = "ready"
                /\ HasRow(b)' => HasRow(b) \/ media[b].status = "none"
      BY <1>0, <1>1 DEF CreateUpload, Upload, UrlExpires, AdminDelete, HasRow,
                        MediaTypeOK, MediaRow
    <2>2. BytesOK'
      <3>1. \A b \in url' : b \in url \/ media'[b].status # "none"
        BY <1>0, <1>1
           DEF CreateUpload, Upload, UrlExpires, AdminDelete, MediaTypeOK, MediaRow
      <3>2. \A b \in Asset : Raw(b) \in bucket' => Raw(b) \in bucket \/ b \in url
        BY <1>1, RawKeys DEF CreateUpload, Upload, UrlExpires, AdminDelete
      <3>3. url' \subseteq Asset /\ url \subseteq Asset
        BY <1>0 DEF MediaTypeOK
      <3> QED BY <2>1, <3>1, <3>2, <3>3 DEF MediaInv, BytesOK
    <2>3. \A c \in Confirmer : ConfirmOK(c)'
      BY <1>0, <2>1 DEF MediaInv, ConfirmOK, MediaTypeOK
    <2>4. \A s \in Sweeper : SweepOK(s)'
      BY <2>1 DEF MediaInv, SweepOK
    <2>5. ReadyHasBytes'
      BY <2>1 DEF MediaInv, ReadyHasBytes
    <2> QED BY <1>0, <2>2, <2>3, <2>4, <2>5 DEF MediaInv
  <1>2. ASSUME NEW c \in Confirmer,
               \/ \E a \in Asset : FindToConfirm(c, a)
               \/ CheckObject(c) \/ StripExif(c) \/ GetOriginal(c)
               \/ \E l \in Label : PutVariant(c, l)
               \/ ConfirmFails(c)
        PROVE  MediaInv'
    <2>1. /\ UNCHANGED <<media, url, sweep>>
          /\ bucket \subseteq bucket'
          /\ \A b \in Asset : Raw(b) \in bucket' => Raw(b) \in bucket
          /\ \A d \in Confirmer : d # c => confirm'[d] = confirm[d]
      BY <1>0, <1>2, RawKeys
         DEF FindToConfirm, CheckObject, StripExif, GetOriginal, PutVariant,
             ConfirmFails, MediaTypeOK
    <2>2. confirm'[c].pc = "landed" =>
             /\ confirm'[c].asset = confirm[c].asset /\ Raw(confirm[c].asset) \in bucket
             /\ confirm[c].asset \in Asset
      BY <1>0, <1>2
         DEF FindToConfirm, CheckObject, StripExif, GetOriginal, PutVariant,
             ConfirmFails, MediaTypeOK
    <2>3. \A d \in Confirmer : ConfirmOK(d)'
      BY <2>1, <2>2 DEF MediaInv, ConfirmOK, BytesOK, HasRow
    <2> QED BY <1>0, <2>1, <2>3
            DEF MediaInv, BytesOK, SweepOK, ReadyHasBytes
  <1>3. ASSUME NEW c \in Confirmer, MarkReady(c) \/ UpdateVariants(c)
        PROVE  MediaInv'
    <2>1. PICK a \in Asset : a = confirm[c].asset
      BY <1>0 DEF MediaTypeOK
    <2>2. /\ UNCHANGED <<url, bucket, sweep>>
          /\ confirm'[c].pc # "landed"
          /\ \A d \in Confirmer : d # c => confirm'[d] = confirm[d]
      BY <1>0, <1>3 DEF MarkReady, UpdateVariants, MediaTypeOK
    <2>3. \A b \in Asset :
            /\ media'[b].status = "none" <=> media[b].status = "none"
            /\ media'[b].status = "deleted" <=> media[b].status = "deleted"
            /\ HasRow(b)' <=> HasRow(b)
            /\ media'[b].status = "ready" =>
                  media[b].status = "ready" \/ Raw(b) \in bucket
      <3>1. CASE MarkReady(c)
        <4>1. /\ confirm[c].pc = "landed"
              /\ media' = IF HasRow(a) THEN [media EXCEPT ![a].status = "ready"] ELSE media
          BY <2>1, <3>1 DEF MarkReady
        <4>2. HasRow(a) => Raw(a) \in bucket
          BY <2>1, <4>1 DEF MediaInv, ConfirmOK
        <4> QED BY <1>0, <4>1, <4>2 DEF HasRow, MediaTypeOK, MediaRow
      <3>2. CASE UpdateVariants(c)
        <4>1. media' = media \/ media' = [media EXCEPT ![a].variants = Label]
          BY <2>1, <3>2 DEF UpdateVariants
        <4> QED BY <1>0, <4>1 DEF HasRow, MediaTypeOK, MediaRow
      <3> QED BY <1>3, <3>1, <3>2
    <2>4. \A d \in Confirmer : ConfirmOK(d)'
      BY <1>0, <2>2, <2>3 DEF MediaInv, ConfirmOK, MediaTypeOK
    <2>5. BytesOK'
      BY <1>0, <2>2, <2>3 DEF MediaInv, BytesOK, MediaTypeOK
    <2>6. (\A s \in Sweeper : SweepOK(s)') /\ ReadyHasBytes'
      BY <2>2, <2>3 DEF MediaInv, SweepOK, ReadyHasBytes
    <2> QED BY <1>0, <2>4, <2>5, <2>6 DEF MediaInv
  <1>4. ASSUME NEW s \in Sweeper, Diff(s) \/ SweepEnds(s)
        PROVE  MediaInv'
    <2>1. /\ UNCHANGED <<media, url, bucket, confirm>>
          /\ \A r \in Sweeper : r # s => sweep'[r] = sweep[r]
      BY <1>0, <1>4 DEF Diff, SweepEnds, MediaTypeOK
    <2>2. SweepOK(s)'
      <3>1. CASE SweepEnds(s)
        BY <1>0, <3>1 DEF SweepEnds, SweepOK, MediaTypeOK
      <3>2. CASE sweep[s].pc = "idle" /\ Diff(s)
        <4>1. sweep'[s].pc = "half" /\ sweep'[s].listed \subseteq bucket
          BY <1>0, <3>2 DEF Diff, MediaTypeOK
        <4> QED BY <2>1, <4>1 DEF MediaInv, BytesOK, SweepOK
      <3>3. CASE sweep[s].pc = "half" /\ Diff(s)
        <4>1. sweep'[s].pc = "deleting" /\ sweep'[s].listed = sweep[s].listed \ KnownKeys
          BY <1>0, <3>3 DEF Diff, MediaTypeOK
        <4>2. \A a \in Asset : Raw(a) \notin KnownKeys /\ media[a].status # "none"
                                  => media[a].status = "deleted"
          BY <1>0 DEF KnownKeys, HasRow, MediaTypeOK, MediaRow
        <4> QED BY <2>1, <3>3, <4>1, <4>2 DEF MediaInv, SweepOK
      <3> QED BY <1>4, <3>1, <3>2, <3>3 DEF Diff
    <2> QED BY <1>0, <2>1, <2>2
            DEF MediaInv, BytesOK, ConfirmOK, SweepOK, ReadyHasBytes, HasRow
  <1>5. ASSUME NEW s \in Sweeper, NEW k \in MediaKey, DeleteOrphan(s, k)
        PROVE  MediaInv'
    <2>1. /\ UNCHANGED <<media, url, confirm>> /\ bucket' \subseteq bucket
          /\ \A q \in bucket : q # k => q \in bucket'
          /\ sweep[s].pc = "deleting" /\ k \in sweep[s].listed
          /\ \A r \in Sweeper : sweep'[r].pc = sweep[r].pc
                                /\ sweep'[r].listed \subseteq sweep[r].listed
      BY <1>0, <1>5 DEF DeleteOrphan, MediaTypeOK
    <2>2. \A a \in Asset : HasRow(a) /\ Raw(a) \in bucket => Raw(a) \in bucket'
      BY <2>1 DEF MediaInv, SweepOK, HasRow
    <2>3. ReadyHasBytes'
      BY <2>1, <2>2 DEF MediaInv, ReadyHasBytes, HasRow
    <2>4. \A c \in Confirmer : ConfirmOK(c)'
      BY <1>0, <2>1, <2>2 DEF MediaInv, ConfirmOK, HasRow, MediaTypeOK
    <2>5. (\A r \in Sweeper : SweepOK(r)') /\ BytesOK'
      BY <2>1 DEF MediaInv, SweepOK, BytesOK
    <2> QED BY <1>0, <2>3, <2>4, <2>5 DEF MediaInv
  <1>6. CASE UNCHANGED mediaVars
    BY <1>0, <1>6
       DEF mediaVars, MediaInv, BytesOK, ConfirmOK, SweepOK, ReadyHasBytes, HasRow
  <1> QED BY <1>1, <1>2, <1>3, <1>4, <1>5, <1>6 DEF MediaNext

(* The inductive invariant of uploads, confirmations and sweeps, types     *)
(* included.                                                               *)
THEOREM MediaInvariant == MediaSpec => []MediaInv
  BY MediaStart, MediaStep, PTL DEF MediaSpec

(* No overlap of confirmations, administrators' deletions and sweeps of    *)
(* any number of instances leaves a ready asset without its bytes.         *)
THEOREM ReadyIsThere == MediaSpec => []ReadyHasBytes
  BY MediaInvariant, PTL DEF MediaInv

(* The sweep leaves the variants alone. *)
VariantsAreLeft ==
    \A a \in Asset, l \in Label : <<a, l>> \in bucket => <<a, l>> \in bucket'

(* What a confirmation has stored is still there when the row names it,    *)
(* and a new row names nothing.                                            *)
VariantInv ==
    /\ \A c \in Confirmer : \A l \in confirm[c].put :
          <<confirm[c].asset, l>> \in bucket
    /\ \A a \in Asset : media[a].status = "none" => media[a].variants = {}
    /\ VariantsExist

LEMMA VariantStep ==
    ASSUME MediaTypeOK, VariantInv, [MediaNext]_mediaVars,
           [VariantsAreLeft]_mediaVars
    PROVE  VariantInv'
  <1>0. /\ VariantsAreLeft
        /\ confirm \in [Confirmer -> ConfirmRecord]
        /\ media \in [Asset -> MediaRow]
    BY DEF VariantsAreLeft, mediaVars, MediaTypeOK, ConfirmRecord
  <1> DEFINE Stored(c) == \A l \in confirm[c].put : <<confirm[c].asset, l>> \in bucket
             Named(a) == /\ media[a].status = "none" => media[a].variants = {}
                         /\ HasRow(a) => \A l \in media[a].variants : <<a, l>> \in bucket
  <1>1. /\ \A c \in Confirmer : Stored(c)
        /\ \A a \in Asset : Named(a)
    BY DEF VariantInv, VariantsExist
  <1>2. ASSUME NEW c \in Confirmer, UNCHANGED confirm[c] PROVE Stored(c)'
    BY <1>0, <1>1, <1>2 DEF VariantsAreLeft, ConfirmRecord
  <1>3. ASSUME NEW a \in Asset, UNCHANGED media[a] PROVE Named(a)'
    BY <1>0, <1>1, <1>3 DEF VariantsAreLeft, HasRow, MediaRow
  <1> SUFFICES /\ \A c \in Confirmer : Stored(c)'
               /\ \A a \in Asset : Named(a)'
    BY DEF VariantInv, VariantsExist
  <1> HIDE DEF Stored, Named
  <1>4. CASE UNCHANGED <<media, confirm>>
    BY <1>2, <1>3, <1>4
  <1>5. ASSUME NEW a \in Asset, NEW kind \in {"image", "video"},
               CreateUpload(a, kind) \/ AdminDelete(a)
        PROVE  /\ \A c \in Confirmer : Stored(c)'
               /\ \A b \in Asset : Named(b)'
    <2>1. /\ UNCHANGED confirm
          /\ \A b \in Asset : b # a => UNCHANGED media[b]
          /\ media'[a].status # "none" /\ media'[a].variants = media[a].variants
          /\ HasRow(a)' => media[a].status = "none"
      BY <1>0, <1>5 DEF CreateUpload, AdminDelete, HasRow, MediaRow
    <2>2. Named(a)'
      BY <1>1, <2>1 DEF Named
    <2> QED BY <1>2, <1>3, <2>1, <2>2
  <1>6. ASSUME NEW c \in Confirmer,
               \/ \E a \in Asset : FindToConfirm(c, a)
               \/ CheckObject(c) \/ StripExif(c) \/ GetOriginal(c) \/ ConfirmFails(c)
        PROVE  /\ \A d \in Confirmer : Stored(d)'
               /\ \A b \in Asset : Named(b)'
    <2>1. /\ UNCHANGED media
          /\ \A d \in Confirmer : d # c => UNCHANGED confirm[d]
          /\ \/ confirm'[c].put = {}
             \/ UNCHANGED <<confirm[c].put, confirm[c].asset>>
      BY <1>0, <1>6 DEF FindToConfirm, CheckObject, StripExif, GetOriginal,
                        ConfirmFails, ConfirmRecord
    <2>2. Stored(c)'
      BY <1>0, <1>1, <2>1 DEF Stored, VariantsAreLeft, ConfirmRecord
    <2> QED BY <1>2, <1>3, <2>1, <2>2
  <1>7. ASSUME NEW c \in Confirmer, MarkReady(c)
        PROVE  /\ \A d \in Confirmer : Stored(d)'
               /\ \A b \in Asset : Named(b)'
    <2>1. PICK a \in Asset : a = confirm[c].asset
      BY <1>0 DEF ConfirmRecord
    <2>2. /\ \A d \in Confirmer : d # c => UNCHANGED confirm[d]
          /\ UNCHANGED <<confirm[c].put, confirm[c].asset, bucket>>
      BY <1>0, <1>7 DEF MarkReady, ConfirmRecord
    <2>3. /\ \A b \in Asset : b # a => UNCHANGED media[b]
          /\ \/ UNCHANGED media[a]
             \/ /\ HasRow(a) /\ media'[a].status = "ready"
                /\ media'[a].variants = media[a].variants
      BY <1>0, <1>7, <2>1 DEF MarkReady, MediaRow
    <2>4. Stored(c)'
      BY <1>1, <2>2 DEF Stored
    <2>5. Named(a)'
      BY <1>1, <1>3, <2>2, <2>3 DEF Named
    <2> QED BY <1>2, <1>3, <2>2, <2>3, <2>4, <2>5
  <1>8. ASSUME NEW c \in Confirmer, NEW l \in Label, PutVariant(c, l)
        PROVE  /\ \A d \in Confirmer : Stored(d)'
               /\ \A b \in Asset : Named(b)'
    <2>1. /\ UNCHANGED media
          /\ \A d \in Confirmer : d # c => UNCHANGED confirm[d]
          /\ confirm'[c].put = confirm[c].put \cup {l}
          /\ confirm'[c].asset = confirm[c].asset
          /\ bucket' = bucket \cup {<<confirm[c].asset, l>>}
      BY <1>0, <1>8 DEF PutVariant, ConfirmRecord
    <2>2. Stored(c)'
      BY <1>1, <2>1 DEF Stored
    <2> QED BY <1>2, <1>3, <2>1, <2>2
  <1>9. ASSUME NEW c \in Confirmer, UpdateVariants(c)
        PROVE  /\ \A d \in Confirmer : Stored(d)'
               /\ \A b \in Asset : Named(b)'
    <2>1. PICK a \in Asset : a = confirm[c].asset
      BY <1>0 DEF ConfirmRecord
    <2>2. /\ \A d \in Confirmer : d # c => UNCHANGED confirm[d]
          /\ UNCHANGED <<confirm[c].put, confirm[c].asset, bucket>>
          /\ confirm[c].put = Label
      BY <1>0, <1>9 DEF UpdateVariants, ConfirmRecord
    <2>3. /\ \A b \in Asset : b # a => UNCHANGED media[b]
          /\ \/ UNCHANGED media[a]
             \/ /\ HasRow(a) /\ media'[a].status = media[a].status
                /\ media'[a].variants = Label
      BY <1>0, <1>9, <2>1 DEF UpdateVariants, MediaRow
    <2>4. Stored(c)'
      BY <1>1, <2>2 DEF Stored
    <2>5. Named(a)'
      BY <1>1, <1>3, <2>1, <2>2, <2>3 DEF Named, Stored, HasRow
    <2> QED BY <1>2, <1>3, <2>2, <2>3, <2>4, <2>5
  <1>10. CASE \/ \E a \in Asset : Upload(a) \/ UrlExpires(a)
              \/ \E s \in Sweeper :
                    \/ Diff(s) \/ SweepEnds(s)
                    \/ \E k \in MediaKey : DeleteOrphan(s, k)
    BY <1>4, <1>10 DEF Upload, UrlExpires, Diff, SweepEnds, DeleteOrphan
  <1>11. CASE UNCHANGED mediaVars
    BY <1>4, <1>11 DEF mediaVars
  <1>12. CASE \E a \in Asset : \/ \E kind \in {"image", "video"} : CreateUpload(a, kind)
                               \/ AdminDelete(a)
    BY <1>5, <1>12
  <1>13. CASE \E c \in Confirmer :
                 \/ \E a \in Asset : FindToConfirm(c, a)
                 \/ CheckObject(c) \/ MarkReady(c) \/ StripExif(c) \/ GetOriginal(c)
                 \/ \E l \in Label : PutVariant(c, l)
                 \/ UpdateVariants(c) \/ ConfirmFails(c)
    BY <1>6, <1>7, <1>8, <1>9, <1>13
  <1> QED BY <1>10, <1>11, <1>12, <1>13 DEF MediaNext

(* The sweep is all that takes the variants of an existing row: unless it  *)
(* deletes one, no overlap of confirmations, failed or not, with one       *)
(* another and with deletions makes a row name a variant that is not there.*)
THEOREM OnlySweepsTakeVariants ==
    MediaSpec /\ [][VariantsAreLeft]_mediaVars => []VariantsExist
  <1>1. MediaInit => VariantInv
    BY DEF MediaInit, VariantInv, VariantsExist, NoMedia
  <1>2. MediaTypeOK /\ VariantInv /\ [MediaNext]_mediaVars
           /\ [VariantsAreLeft]_mediaVars => VariantInv'
    BY VariantStep
  <1>3. MediaInv => MediaTypeOK
    BY DEF MediaInv
  <1>4. VariantInv => VariantsExist
    BY DEF VariantInv
  <1> QED BY <1>1, <1>2, <1>3, <1>4, MediaInvariant, PTL DEF MediaSpec

(***************************************************************************)
(* SettleUp                                                                *)
(***************************************************************************)

(* Every iteration is paid for by a creditor or a debtor it finishes, and  *)
(* none begins after the last of either.                                   *)
SettleInv ==
    /\ left \in [Member -> Int]
    /\ creditors \in Seq(Member) /\ debtors \in Seq(Member)
    /\ \A m \in DOMAIN creditors : owed[creditors[m]] > 0
    /\ \A m \in DOMAIN debtors : owed[debtors[m]] < 0
    /\ owed \in [Member -> Int]
    /\ i \in Nat \ {0} /\ j \in Nat \ {0}
    /\ plan \in Seq([from : Member, to : Member, cents : Int])
    /\ Len(plan) <= (i - 1) + (j - 1)
    /\ Len(creditors) + Len(debtors) > 0
          => Len(plan) <= Len(creditors) + Len(debtors) - 1

LEMMA SettleStart == SettleInit => SettleInv
  <1> SUFFICES ASSUME SettleInit PROVE SettleInv
    OBVIOUS
  <1> DEFINE C == {m \in Member : owed[m] > 0}
             D == {m \in Member : owed[m] < 0}
  <1>1. Cardinality(C) \in Nat /\ Cardinality(D) \in Nat
    BY MemberAssumption, FS_Subset, FS_CardinalityType
  <1>2. creditors \in [1 .. Cardinality(C) -> C] /\ debtors \in [1 .. Cardinality(D) -> D]
    BY DEF SettleInit, Sortings
  <1> HIDE DEF C, D
  <1>3. C \subseteq Member /\ D \subseteq Member
        /\ (\A m \in C : owed[m] > 0) /\ (\A m \in D : owed[m] < 0)
    BY DEF C, D
  <1>4. creditors \in Seq(Member) /\ debtors \in Seq(Member)
    BY <1>1, <1>2, <1>3
  <1>5. owed \in [Member -> Int] /\ left = owed /\ i = 1 /\ j = 1 /\ plan = <<>>
    BY MaxCentsAssumption DEF SettleInit, Sortings
  <1>6. plan \in Seq([from : Member, to : Member, cents : Int]) /\ Len(plan) = 0
    BY <1>5
  <1>7. Len(creditors) \in Nat /\ Len(debtors) \in Nat
    BY <1>4
  <1>8. DOMAIN creditors = 1 .. Cardinality(C) /\ DOMAIN debtors = 1 .. Cardinality(D)
    BY <1>2
  <1>9. /\ \A m \in DOMAIN creditors : owed[creditors[m]] > 0
        /\ \A m \in DOMAIN debtors : owed[debtors[m]] < 0
    BY <1>2, <1>3, <1>8
  <1>10. left \in [Member -> Int] /\ i \in Nat \ {0} /\ j \in Nat \ {0}
         /\ i - 1 + (j - 1) = 0
    BY <1>5
  <1> QED BY <1>4, <1>5, <1>6, <1>7, <1>9, <1>10 DEF SettleInv

LEMMA SettleStep == SettleInv /\ [SettleNext]_settleVars => SettleInv'
  <1> SUFFICES ASSUME SettleInv, [SettleNext]_settleVars PROVE SettleInv'
    OBVIOUS
  <1>1. CASE UNCHANGED settleVars
    BY <1>1 DEF settleVars, SettleInv
  <1>2. CASE Pair
    <2>1. PICK c, d, t : c = creditors[i] /\ d = debtors[j] /\ t = Transfer(c, d)
      OBVIOUS
    <2>2. /\ i <= Len(creditors) /\ j <= Len(debtors)
          /\ UNCHANGED <<owed, creditors, debtors>>
          /\ i' = Advance(i, left'[c]) /\ j' = Advance(j, left'[d])
      BY <1>2, <2>1 DEF Pair
    <2>c. left' = [left EXCEPT ![c] = @ - t, ![d] = @ + t]
      BY <1>2, <2>1 DEF Pair
    <2>d. \/ plan' = plan
          \/ plan' = Append(plan, [from |-> d, to |-> c, cents |-> t])
      BY <1>2, <2>1 DEF Pair
    <2>3. c \in Member /\ d \in Member /\ c # d
      <3>1. /\ creditors \in Seq(Member) /\ debtors \in Seq(Member)
            /\ i \in Nat \ {0} /\ j \in Nat \ {0}
        BY DEF SettleInv
      <3>2. i \in DOMAIN creditors /\ j \in DOMAIN debtors
        BY <2>2, <3>1
      <3>3. owed[creditors[i]] > 0 /\ owed[debtors[j]] < 0
        BY <3>2 DEF SettleInv
      <3>4. creditors[i] \in Member /\ debtors[j] \in Member
        BY <3>1, <3>2
      <3>5. owed \in [Member -> Int]
        BY DEF SettleInv
      <3> QED BY <2>1, <3>3, <3>4, <3>5
    <2>a. /\ left \in [Member -> Int] /\ owed \in [Member -> Int]
          /\ creditors \in Seq(Member) /\ debtors \in Seq(Member)
          /\ i \in Nat \ {0} /\ j \in Nat \ {0}
      BY DEF SettleInv
    <2>b. /\ plan \in Seq([from : Member, to : Member, cents : Int])
          /\ Len(plan) <= (i - 1) + (j - 1)
      BY DEF SettleInv
    <2>4. /\ left[c] \in Int /\ left[d] \in Int /\ t \in Int
          /\ t = left[c] \/ t = -left[d]
      BY <2>1, <2>3, <2>a, SMTT(30) DEF Transfer, Smaller
    <2>5. /\ left' \in [Member -> Int]
          /\ left'[c] = left[c] - t /\ left'[d] = left[d] + t
      BY <2>3, <2>4, <2>a, <2>c
    <2>6. /\ i' \in {i, i + 1} /\ j' \in {j, j + 1}
          /\ i' = i + 1 \/ j' = j + 1
      BY <2>2, <2>4, <2>5 DEF Advance
    <2>7. /\ plan' \in Seq([from : Member, to : Member, cents : Int])
          /\ Len(plan) \in Nat /\ Len(plan') <= Len(plan) + 1 /\ Len(plan') \in Nat
      <3> DEFINE T == [from : Member, to : Member, cents : Int]
                 r == [from |-> d, to |-> c, cents |-> t]
      <3>1. r \in T /\ plan \in Seq(T) /\ (plan' = plan \/ plan' = Append(plan, r))
        BY <2>3, <2>4, <2>b, <2>d
      <3> HIDE DEF T, r
      <3>2. plan' \in Seq(T)
        BY <3>1
      <3>3. Len(plan) \in Nat /\ Len(plan') <= Len(plan) + 1 /\ Len(plan') \in Nat
        BY <3>1
      <3> QED BY <3>2, <3>3 DEF T
    <2>8. Len(creditors) \in Nat /\ Len(debtors) \in Nat
      BY <2>a
    <2>9. /\ Len(plan') <= (i' - 1) + (j' - 1)
          /\ Len(plan') <= Len(creditors) + Len(debtors) - 1
      <3>1. i <= Len(creditors) /\ j <= Len(debtors)
        BY <2>2
      <3>2. /\ Len(plan) <= (i - 1) + (j - 1)
            /\ Len(plan) \in Nat /\ Len(plan') <= Len(plan) + 1 /\ Len(plan') \in Nat
        BY <2>7, <2>b
      <3>3. i \in Nat /\ j \in Nat
        BY <2>a
      <3>4. PICK a \in Nat, b \in Nat : a = i' /\ b = j' /\ a >= i /\ b >= j
                                         /\ (a = i + 1 \/ b = j + 1)
        BY <2>6, <3>3
      <3>5. PICK n \in Nat, m \in Nat : n = Len(plan) /\ m = Len(plan')
        BY <3>2
      <3>6. m <= (a - 1) + (b - 1)
        BY <3>2, <3>3, <3>4, <3>5
      <3>7. m <= Len(creditors) + Len(debtors) - 1
        BY <2>8, <3>1, <3>2, <3>3, <3>5
      <3> QED BY <3>4, <3>5, <3>6, <3>7
    <2>10. /\ \A m \in DOMAIN creditors : owed[creditors[m]] > 0
           /\ \A m \in DOMAIN debtors : owed[debtors[m]] < 0
      BY DEF SettleInv
    <2>11. /\ creditors' = creditors /\ debtors' = debtors /\ owed' = owed
           /\ i' \in Nat \ {0} /\ j' \in Nat \ {0}
      <3>1. creditors' = creditors /\ debtors' = debtors /\ owed' = owed
        BY <2>2
      <3> QED BY <3>1, <2>6, <2>a
    <2> QED BY <2>5, <2>7, <2>9, <2>10, <2>11, <2>a DEF SettleInv
  <1> QED BY <1>1, <1>2 DEF SettleNext

(* No index runs further than one past the end of its list.                *)
IndexesInRange == i \in 1 .. Len(creditors) + 1 /\ j \in 1 .. Len(debtors) + 1

(* Type correctness: the loop reads neither list beyond its end, and every *)
(* transfer is between members, for any balances.                          *)
THEOREM SettleTypes == SettleSpec => []SettleTypeOK
  <1>1. SettleInit => IndexesInRange
    <2> SUFFICES ASSUME SettleInit PROVE IndexesInRange
      OBVIOUS
    <2>1. creditors \in Seq(Member) /\ debtors \in Seq(Member)
      BY SettleStart DEF SettleInv
    <2>2. i = 1 /\ j = 1
      BY DEF SettleInit
    <2>3. Len(creditors) \in Nat /\ Len(debtors) \in Nat
      BY <2>1
    <2> QED BY <2>2, <2>3 DEF IndexesInRange
  <1>2. SettleInv /\ IndexesInRange /\ [SettleNext]_settleVars => IndexesInRange'
    <2> SUFFICES ASSUME SettleInv, IndexesInRange, SettleNext PROVE IndexesInRange'
      BY DEF settleVars, IndexesInRange
    <2>1. /\ creditors \in Seq(Member) /\ debtors \in Seq(Member)
          /\ i \in Nat \ {0} /\ j \in Nat \ {0}
      BY DEF SettleInv
    <2>2. /\ i <= Len(creditors) /\ j <= Len(debtors)
          /\ i' \in {i, i + 1} /\ j' \in {j, j + 1}
          /\ creditors' = creditors /\ debtors' = debtors
      BY DEF SettleNext, Pair, Advance
    <2> QED BY <2>1, <2>2 DEF IndexesInRange
  <1>3. SettleInv /\ IndexesInRange => SettleTypeOK
    BY DEF SettleInv, IndexesInRange, SettleTypeOK
  <1> QED BY <1>1, <1>2, <1>3, SettleStart, SettleStep, PTL DEF SettleSpec

(* For any number of members and any balances, rounded ones included, K    *)
(* members with a balance are sent at most K - 1 transfers.                *)
THEOREM FewTransfers == SettleSpec => []PlanIsShort
  <1>1. SettleInv => PlanIsShort
    <2> SUFFICES ASSUME SettleInv, creditors # <<>> \/ debtors # <<>>
                 PROVE  Len(creditors) + Len(debtors) > 0
      BY DEF SettleInv, PlanIsShort
    <2>1. Len(creditors) \in Nat /\ Len(debtors) \in Nat
      BY DEF SettleInv
    <2>2. ASSUME NEW q \in Seq(Member), Len(q) = 0 PROVE q = <<>>
      BY <2>2
    <2> QED BY <2>1, <2>2 DEF SettleInv
  <1> QED BY <1>1, SettleStart, SettleStep, PTL DEF SettleSpec

(* The running totals of a sequence of amounts are what their equations    *)
(* say: a function that satisfies them exists, by induction on its length. *)
LEMMA TotalsEquations ==
    ASSUME NEW s \in Seq(Int)
    PROVE  /\ Totals(s) \in [0 .. Len(s) -> Int]
           /\ Totals(s)[0] = 0
           /\ \A n \in 1 .. Len(s) : Totals(s)[n] = Totals(s)[n - 1] + s[n]
           /\ Total(s) = Totals(s)[Len(s)] /\ Total(s) \in Int
  <1> DEFINE l == Len(s)
             Sums(g, k) == /\ g \in [0 .. k -> Int] /\ g[0] = 0
                           /\ \A n \in 1 .. k : g[n] = g[n - 1] + s[n]
             Body(g) == [n \in 0 .. l |-> IF n = 0 THEN 0 ELSE g[n - 1] + s[n]]
             Have == {k \in Nat : k <= l => \E g : Sums(g, k)}
  <1>1. l \in Nat /\ \A n \in 1 .. l : s[n] \in Int
    OBVIOUS
  <1>2. 0 \in Have
    <2> DEFINE g == [n \in 0 .. 0 |-> 0]
    <2>1. Sums(g, 0)
      OBVIOUS
    <2> QED BY <2>1
  <1>3. ASSUME NEW k \in Nat, k \in Have PROVE k + 1 \in Have
    <2> SUFFICES ASSUME k + 1 <= l PROVE \E g : Sums(g, k + 1)
      OBVIOUS
    <2>1. PICK g : Sums(g, k)
      <3>1. k <= l
        BY <1>1
      <3> HIDE DEF Sums, l
      <3> QED BY <1>3, <3>1
    <2> DEFINE h == [n \in 0 .. k + 1 |-> IF n = k + 1 THEN g[k] + s[k + 1] ELSE g[n]]
    <2>2. s[k + 1] \in Int /\ g[k] \in Int
      BY <1>1, <2>1
    <2>3. h \in [0 .. k + 1 -> Int] /\ h[0] = 0
      BY <2>1, <2>2
    <2>4. ASSUME NEW n \in 1 .. k + 1 PROVE h[n] = h[n - 1] + s[n]
      <3>1. CASE n = k + 1
        BY <3>1
      <3>2. CASE n \in 1 .. k
        <4>1. h[n] = g[n] /\ h[n - 1] = g[n - 1]
          BY <3>2
        <4> QED BY <2>1, <3>2, <4>1
      <3> QED BY <3>1, <3>2
    <2>5. Sums(h, k + 1)
      BY <2>3, <2>4
    <2> QED BY <2>5
  <1>4. PICK g : Sums(g, l)
    <2> HIDE DEF Sums
    <2>1. l \in Have
      <3> HIDE DEF Have
      <3> QED BY <1>1, <1>2, <1>3, NaturalInduction
    <2> QED BY <1>1, <2>1
  <1>5. g = Body(g)
    <2>1. \A n \in 0 .. l : g[n] = Body(g)[n]
      BY <1>1, <1>4
    <2> QED BY <1>4, <2>1
  <1>6. Totals(s) = Body(Totals(s))
    BY <1>5 DEF Totals
  <1> DEFINE t == Totals(s)
             Typed == {k \in Nat : k <= l => t[k] \in Int}
  <1>7. /\ t[0] = 0
        /\ \A n \in 1 .. l : t[n] = t[n - 1] + s[n]
    <2>1. \A n \in 0 .. l : t[n] = IF n = 0 THEN 0 ELSE t[n - 1] + s[n]
      <3> HIDE DEF t
      <3> QED BY <1>6 DEF t
    <2> HIDE DEF t
    <2> QED BY <1>1, <2>1
  <1>8. \A k \in 0 .. l : t[k] \in Int
    <2> HIDE DEF t
    <2>1. 0 \in Typed
      BY <1>7
    <2>2. ASSUME NEW k \in Nat, k \in Typed PROVE k + 1 \in Typed
      <3> SUFFICES ASSUME k + 1 <= l PROVE t[k + 1] \in Int
        OBVIOUS
      <3>1. t[k + 1] = t[k] + s[k + 1] /\ t[k] \in Int /\ s[k + 1] \in Int
        BY <1>1, <1>7, <2>2
      <3> QED BY <3>1
    <2>3. \A k \in Nat : k \in Typed
      <3> HIDE DEF Typed
      <3> QED BY <2>1, <2>2, NaturalInduction
    <2> QED BY <1>1, <2>3
  <1>9. t \in [0 .. l -> Int]
    BY <1>6, <1>8
  <1> HIDE DEF t
  <1>10. t[l] \in Int
    BY <1>1, <1>8
  <1> QED BY <1>7, <1>9, <1>10 DEF t, Total

(* Amounts that differ in place p by x, and nowhere else, total the same   *)
(* before that place and x more from it on.                                *)
LEMMA TotalsDiffer ==
    ASSUME NEW s \in Seq(Int), NEW q \in Seq(Int), NEW k \in Nat, k <= Len(s), k <= Len(q),
           NEW p \in Nat \ {0}, NEW x \in Int,
           \A n \in 1 .. k : q[n] = IF n = p THEN s[n] + x ELSE s[n]
    PROVE  Totals(q)[k] = IF p <= k THEN Totals(s)[k] + x ELSE Totals(s)[k]
  <1> DEFINE a == Totals(s)
             b == Totals(q)
             Have == {n \in Nat : n <= k => b[n] = IF p <= n THEN a[n] + x ELSE a[n]}
  <1>0. Len(s) \in Nat /\ Len(q) \in Nat
    OBVIOUS
  <1>1. /\ a[0] = 0 /\ b[0] = 0
        /\ \A n \in 1 .. k : a[n] = a[n - 1] + s[n] /\ b[n] = b[n - 1] + q[n]
        /\ \A n \in 0 .. k : a[n] \in Int
    <2>1. /\ a \in [0 .. Len(s) -> Int] /\ a[0] = 0 /\ b[0] = 0
          /\ \A n \in 1 .. Len(s) : a[n] = a[n - 1] + s[n]
          /\ \A n \in 1 .. Len(q) : b[n] = b[n - 1] + q[n]
      BY TotalsEquations
    <2> HIDE DEF a, b
    <2>2. (\A n \in 0 .. k : n \in 0 .. Len(s))
          /\ (\A n \in 1 .. k : n \in 1 .. Len(s) /\ n \in 1 .. Len(q))
      BY <1>0
    <2> QED BY <2>1, <2>2
  <1>t. \A n \in 1 .. k : s[n] \in Int
    BY <1>0
  <1> HIDE DEF a, b
  <1>2. 0 \in Have
    BY <1>1
  <1>3. ASSUME NEW n \in Nat, n \in Have PROVE n + 1 \in Have
    <2> SUFFICES ASSUME n + 1 <= k
                 PROVE  b[n + 1] = IF p <= n + 1 THEN a[n + 1] + x ELSE a[n + 1]
      OBVIOUS
    <2>1. a[n + 1] = a[n] + s[n + 1] /\ b[n + 1] = b[n] + q[n + 1]
      BY <1>1
    <2>2. b[n] = (IF p <= n THEN a[n] + x ELSE a[n])
      BY <1>3
    <2>3. a[n] \in Int /\ s[n + 1] \in Int
      BY <1>1, <1>t
    <2>4. q[n + 1] = IF n + 1 = p THEN s[n + 1] + x ELSE s[n + 1]
      OBVIOUS
    <2>5. p <= n + 1 <=> (p <= n \/ n + 1 = p)
      OBVIOUS
    <2>6. CASE p <= n
      <3>1. b[n] = a[n] + x /\ q[n + 1] = s[n + 1] /\ p <= n + 1
        BY <2>2, <2>4, <2>5, <2>6
      <3>2. b[n + 1] = a[n + 1] + x
        BY <2>1, <2>3, <3>1
      <3> QED BY <3>1, <3>2
    <2>7. CASE n + 1 = p
      <3>1. b[n] = a[n] /\ q[n + 1] = s[n + 1] + x /\ p <= n + 1
        BY <2>2, <2>4, <2>7
      <3>2. b[n + 1] = a[n + 1] + x
        BY <2>1, <2>3, <3>1
      <3> QED BY <3>1, <3>2
    <2>8. CASE ~(p <= n \/ n + 1 = p)
      <3>1. b[n] = a[n] /\ q[n + 1] = s[n + 1] /\ ~(p <= n + 1)
        BY <2>2, <2>4, <2>5, <2>8
      <3> QED BY <2>1, <3>1
    <2> QED BY <2>6, <2>7, <2>8
  <1>4. k \in Have
    <2> HIDE DEF Have
    <2> QED BY <1>2, <1>3, NaturalInduction
  <1> QED BY <1>4 DEF a, b

(* Amounts of one sign total nothing exactly when there are none.          *)
LEMMA TotalOfOneSign ==
    ASSUME NEW s \in Seq(Int),
           \/ \A n \in 1 .. Len(s) : s[n] >= 0
           \/ \A n \in 1 .. Len(s) : s[n] <= 0
    PROVE  Total(s) = 0 <=> \A n \in 1 .. Len(s) : s[n] = 0
  <1> DEFINE l == Len(s)
             t == Totals(s)
             Up == \A n \in 1 .. l : s[n] >= 0
             Have == {k \in Nat : k <= l =>
                        /\ IF Up THEN t[k] >= 0 ELSE t[k] <= 0
                        /\ t[k] = 0 <=> \A n \in 1 .. k : s[n] = 0}
  <1>1. l \in Nat /\ \A n \in 1 .. l : s[n] \in Int
    OBVIOUS
  <1>2. /\ t \in [0 .. l -> Int] /\ t[0] = 0 /\ Total(s) = t[l]
        /\ \A n \in 1 .. l : t[n] = t[n - 1] + s[n]
    BY TotalsEquations
  <1> HIDE DEF t, l
  <1>3. 0 \in Have
    BY <1>2
  <1>4. ASSUME NEW k \in Nat, k \in Have PROVE k + 1 \in Have
    <2> SUFFICES ASSUME k + 1 <= l
                 PROVE  /\ IF Up THEN t[k + 1] >= 0 ELSE t[k + 1] <= 0
                        /\ t[k + 1] = 0 <=> \A n \in 1 .. k + 1 : s[n] = 0
      OBVIOUS
    <2>1. /\ t[k + 1] = t[k] + s[k + 1] /\ t[k] \in Int /\ s[k + 1] \in Int
          /\ IF Up THEN s[k + 1] >= 0 ELSE s[k + 1] <= 0
      BY <1>1, <1>2 DEF l
    <2>2. /\ IF Up THEN t[k] >= 0 ELSE t[k] <= 0
          /\ t[k] = 0 <=> \A n \in 1 .. k : s[n] = 0
      BY <1>1, <1>4
    <2>3. (\A n \in 1 .. k + 1 : s[n] = 0) <=> (s[k + 1] = 0 /\ \A n \in 1 .. k : s[n] = 0)
      OBVIOUS
    <2> HIDE DEF Up
    <2> QED BY <2>1, <2>2, <2>3
  <1>5. l \in Have
    <2> HIDE DEF Have
    <2> QED BY <1>1, <1>3, <1>4, NaturalInduction
  <1> QED BY <1>1, <1>2, <1>5 DEF l
(* A sorting of a set lists each member once.                              *)
Listed(members, S) ==
    /\ \A m, n \in 1 .. Len(members) : members[m] = members[n] => m = n
    /\ \A m \in S : \E n \in 1 .. Len(members) : m = members[n]

LEMMA SortingLists ==
    ASSUME NEW S, IsFiniteSet(S), NEW q \in [1 .. Cardinality(S) -> S],
           \A m, n \in 1 .. Cardinality(S) : m < n => q[m] # q[n]
    PROVE  Len(q) = Cardinality(S) /\ Listed(q, S)
  <1>1. Cardinality(S) \in Nat
    BY FS_CardinalityType
  <1>2. q \in Seq(S) /\ Len(q) = Cardinality(S)
    BY <1>1
  <1>3. \A m, n \in 1 .. Cardinality(S) : q[m] = q[n] => m = n
    BY <1>1
  <1>4. q \in Injection(1 .. Cardinality(S), S)
    BY <1>3 DEF Injection, IsInjective
  <1>5. IsFiniteSet(1 .. Cardinality(S)) /\ Cardinality(1 .. Cardinality(S)) = Cardinality(S)
    BY <1>1, FS_Interval
  <1>6. q \in Surjection(1 .. Cardinality(S), S)
    BY <1>4, <1>5, FS_Injection
  <1>7. \A m \in S : \E n \in 1 .. Cardinality(S) : q[n] = m
    BY <1>6 DEF Surjection
  <1> QED BY <1>2, <1>3, <1>7 DEF Listed

(* What makes PlanSettles inductive: what is left of a balance is what the *)
(* plan so far leaves of it, nobody is taken past zero, the members the    *)
(* indexes have passed are settled, and a transfer moves cents but makes   *)
(* none.                                                                   *)
PlanInv ==
    /\ Listed(creditors, {m \in Member : owed[m] > 0})
    /\ Listed(debtors, {m \in Member : owed[m] < 0})
    /\ \A m \in Member : left[m] = owed[m] + Net(m)
    /\ \A m \in Member : owed[m] = 0 => left[m] = 0
    /\ \A n \in 1 .. Len(creditors) :
          /\ left[creditors[n]] \in 0 .. owed[creditors[n]]
          /\ n < i => left[creditors[n]] = 0
    /\ \A n \in 1 .. Len(debtors) :
          /\ left[debtors[n]] \in owed[debtors[n]] .. 0
          /\ n < j => left[debtors[n]] = 0
    /\ Balance(left) = Balance(owed)

LEMMA PlanStart == SettleInit => PlanInv
  <1> SUFFICES ASSUME SettleInit PROVE PlanInv
    OBVIOUS
  <1>0. SettleInv
    BY SettleStart
  <1> DEFINE C == {m \in Member : owed[m] > 0}
             D == {m \in Member : owed[m] < 0}
  <1>1. IsFiniteSet(C) /\ IsFiniteSet(D)
    BY MemberAssumption, FS_Subset
  <1>2. /\ creditors \in [1 .. Cardinality(C) -> C]
        /\ \A m, n \in 1 .. Cardinality(C) : m < n => creditors[m] # creditors[n]
        /\ debtors \in [1 .. Cardinality(D) -> D]
        /\ \A m, n \in 1 .. Cardinality(D) : m < n => debtors[m] # debtors[n]
    BY DEF SettleInit, Sortings
  <1>3. Listed(creditors, C) /\ Listed(debtors, D)
    <2> HIDE DEF C, D
    <2> QED BY <1>1, <1>2, SortingLists
  <1>4. /\ left = owed /\ i = 1 /\ j = 1 /\ plan = <<>>
        /\ owed \in [Member -> Int] /\ creditors \in Seq(Member) /\ debtors \in Seq(Member)
    BY <1>0 DEF SettleInit, SettleInv
  <1>5. ASSUME NEW m \in Member PROVE Net(m) = 0 /\ left[m] = owed[m]
    <2>1. Flow(m) \in Seq(Int) /\ Len(Flow(m)) = 0
      BY <1>4 DEF Flow
    <2>2. Total(Flow(m)) = 0
      BY <2>1, TotalsEquations
    <2> QED BY <1>4, <2>2 DEF Net
  <1>6. \A n \in 1 .. Len(creditors) : owed[creditors[n]] \in Int /\ owed[creditors[n]] > 0
    BY <1>0, <1>4 DEF SettleInv
  <1>7. \A n \in 1 .. Len(debtors) : owed[debtors[n]] \in Int /\ owed[debtors[n]] < 0
    BY <1>0, <1>4 DEF SettleInv
  <1>8. /\ \A m \in Member : left[m] = owed[m] + Net(m)
        /\ \A m \in Member : owed[m] = 0 => left[m] = 0
    BY <1>4, <1>5
  <1>9. \A n \in 1 .. Len(creditors) :
          /\ left[creditors[n]] \in 0 .. owed[creditors[n]]
          /\ n < i => left[creditors[n]] = 0
    BY <1>4, <1>6
  <1>10. \A n \in 1 .. Len(debtors) :
          /\ left[debtors[n]] \in owed[debtors[n]] .. 0
          /\ n < j => left[debtors[n]] = 0
    BY <1>4, <1>7
  <1>11. Balance(left) = Balance(owed)
    BY <1>4
  <1> QED BY <1>3, <1>8, <1>9, <1>10, <1>11 DEF PlanInv

(* Taking x from the one place a member has in a list takes x from its     *)
(* total.                                                                  *)
LEMMA TotalOfMoved ==
    ASSUME NEW f \in [Member -> Int], NEW g \in [Member -> Int],
           NEW members \in Seq(Member), NEW p \in 1 .. Len(members), NEW x \in Int,
           g[members[p]] = f[members[p]] + x,
           \A n \in 1 .. Len(members) : n # p => g[members[n]] = f[members[n]]
    PROVE  Total(Of(g, members)) = Total(Of(f, members)) + x
  <1> DEFINE s == Of(f, members)
             q == Of(g, members)
             k == Len(members)
  <1>1. k \in Nat /\ \A n \in 1 .. k : members[n] \in Member
    OBVIOUS
  <1>2. \A n \in 1 .. k : f[members[n]] \in Int /\ g[members[n]] \in Int
    BY <1>1
  <1>3. s \in Seq(Int) /\ Len(s) = k /\ \A n \in 1 .. k : s[n] = f[members[n]]
    BY <1>1, <1>2 DEF Of
  <1>4. q \in Seq(Int) /\ Len(q) = k /\ \A n \in 1 .. k : q[n] = g[members[n]]
    BY <1>1, <1>2 DEF Of
  <1>5. p \in Nat \ {0} /\ p <= k
    BY <1>1
  <1> HIDE DEF s, q
  <1>6. \A n \in 1 .. k : q[n] = IF n = p THEN s[n] + x ELSE s[n]
    BY <1>3, <1>4
  <1> HIDE DEF k
  <1>7. Totals(q)[k] = Totals(s)[k] + x
    <2>1. k <= Len(s) /\ k <= Len(q)
      BY <1>1, <1>3, <1>4
    <2>2. Totals(q)[k] = IF p <= k THEN Totals(s)[k] + x ELSE Totals(s)[k]
      <3>1. s \in Seq(Int) /\ q \in Seq(Int) /\ k \in Nat /\ p \in Nat \ {0}
        BY <1>1, <1>3, <1>4, <1>5
      <3> QED BY <1>6, <2>1, <3>1, TotalsDiffer, ZenonT(60)
    <2> QED BY <1>5, <2>2
  <1>8. Total(q) = Totals(q)[k] /\ Total(s) = Totals(s)[k]
    BY <1>3, <1>4 DEF Total
  <1> QED BY <1>7, <1>8 DEF s, q

(* One amount more adds it to the total.                                   *)
LEMMA TotalOfAppended ==
    ASSUME NEW s \in Seq(Int), NEW x \in Int
    PROVE  Total(Append(s, x)) = Total(s) + x
  <1> DEFINE q == Append(s, x)
             k == Len(s)
  <1>1. /\ k \in Nat /\ q \in Seq(Int) /\ Len(q) = k + 1 /\ q[k + 1] = x
        /\ \A n \in 1 .. k : q[n] = s[n] /\ s[n] \in Int
    OBVIOUS
  <1> HIDE DEF q, k
  <1>2. Totals(q)[k] = Totals(s)[k]
    <2>1. \A n \in 1 .. k : q[n] = IF n = k + 1 THEN s[n] + 0 ELSE s[n]
      BY <1>1
    <2>2. k <= Len(s) /\ k <= Len(q) /\ k + 1 \in Nat \ {0} /\ 0 \in Int /\ ~(k + 1 <= k)
      BY <1>1 DEF k
    <2>3. Totals(q)[k] = IF k + 1 <= k THEN Totals(s)[k] + 0 ELSE Totals(s)[k]
      BY <1>1, <2>1, <2>2, TotalsDiffer, ZenonT(60)
    <2> QED BY <2>2, <2>3
  <1>3. Total(q) = Totals(q)[k + 1] /\ Totals(q)[k + 1] = Totals(q)[k] + x
    <2>1. k + 1 \in 1 .. Len(q) /\ k + 1 - 1 = k
      BY <1>1
    <2>2. /\ \A n \in 1 .. Len(q) : Totals(q)[n] = Totals(q)[n - 1] + q[n]
          /\ Total(q) = Totals(q)[Len(q)]
      BY <1>1, TotalsEquations
    <2>3. PICK n \in 1 .. Len(q) : n = k + 1
      BY <2>1
    <2>4. Totals(q)[n] = Totals(q)[n - 1] + q[n] /\ n - 1 = k
      BY <1>1, <2>2, <2>3
    <2> QED BY <1>1, <2>2, <2>3, <2>4
  <1>4. Total(s) = Totals(s)[k]
    BY DEF Total, k
  <1> QED BY <1>2, <1>3, <1>4 DEF q

(* A step moves t cents between the pair under consideration, no more than *)
(* either has left.                                                        *)
LEMMA PairMoves ==
    ASSUME SettleInv, PlanInv, Pair
    PROVE  LET c == creditors[i]  d == debtors[j]  t == Transfer(c, d)
           IN  /\ i \in 1 .. Len(creditors) /\ j \in 1 .. Len(debtors)
               /\ c \in Member /\ d \in Member /\ owed[c] > 0 /\ owed[d] < 0
               /\ left[c] \in 0 .. owed[c] /\ left[d] \in owed[d] .. 0
               /\ owed[c] \in Int /\ owed[d] \in Int
               /\ t \in 0 .. left[c] /\ t \in 0 .. -left[d]
               /\ left' \in [Member -> Int]
               /\ left'[c] = left[c] - t /\ left'[d] = left[d] + t
               /\ \A m \in Member \ {c, d} : left'[m] = left[m]
               /\ i' = Advance(i, left'[c]) /\ j' = Advance(j, left'[d])
  <1> DEFINE c == creditors[i]
             d == debtors[j]
             t == Transfer(c, d)
  <1>1. /\ left \in [Member -> Int] /\ owed \in [Member -> Int]
        /\ creditors \in Seq(Member) /\ debtors \in Seq(Member)
        /\ i \in Nat \ {0} /\ j \in Nat \ {0}
    BY DEF SettleInv
  <1>2. i \in 1 .. Len(creditors) /\ j \in 1 .. Len(debtors)
    BY <1>1 DEF Pair
  <1>3. c \in Member /\ d \in Member /\ owed[c] > 0 /\ owed[d] < 0
    <2>1. i \in DOMAIN creditors /\ j \in DOMAIN debtors
      BY <1>1, <1>2
    <2> QED BY <1>1, <2>1 DEF SettleInv
  <1>4. /\ left[c] \in 0 .. owed[c] /\ left[d] \in owed[d] .. 0
        /\ left[c] \in Int /\ left[d] \in Int /\ owed[c] \in Int /\ owed[d] \in Int
        /\ c # d
    <2>1. left[c] \in 0 .. owed[c] /\ left[d] \in owed[d] .. 0
      BY <1>2 DEF PlanInv
    <2>2. owed[c] \in Int /\ owed[d] \in Int /\ left[c] \in Int /\ left[d] \in Int
      BY <1>1, <1>3
    <2> QED BY <1>3, <2>1, <2>2
  <1>5. /\ left' = [left EXCEPT ![c] = @ - t, ![d] = @ + t]
        /\ i' = Advance(i, left'[c]) /\ j' = Advance(j, left'[d])
    BY DEF Pair
  <1> HIDE DEF c, d
  <1>6. t \in 0 .. left[c] /\ t \in 0 .. -left[d]
    BY <1>4 DEF Transfer, Smaller
  <1> HIDE DEF t
  <1>7. /\ left' \in [Member -> Int]
        /\ left'[c] = left[c] - t /\ left'[d] = left[d] + t
        /\ \A m \in Member \ {c, d} : left'[m] = left[m]
    BY <1>1, <1>3, <1>4, <1>5, <1>6
  <1> QED BY <1>2, <1>3, <1>4, <1>5, <1>6, <1>7 DEF c, d, t

LEMMA FlowTyped ==
    ASSUME SettleInv, NEW m \in Member
    PROVE  Flow(m) \in Seq(Int)
  <1> DEFINE T == [from : Member, to : Member, cents : Int]
  <1>1. Len(plan) \in Nat /\ \A n \in 1 .. Len(plan) : plan[n] \in T
    <2>1. plan \in Seq(T)
      BY DEF SettleInv
    <2> HIDE DEF T
    <2> QED BY <2>1
  <1>2. \A n \in 1 .. Len(plan) : plan[n].cents \in Int
    BY <1>1
  <1>3. \A n \in 1 .. Len(plan) : -plan[n].cents \in Int
    BY <1>2
  <1>4. Flow(m) \in [1 .. Len(plan) -> Int]
    BY <1>2, <1>3 DEF Flow
  <1> QED BY <1>1, <1>4

(* What a step does to what each member receives or pays by the plan.      *)
LEMMA PairFlows ==
    ASSUME SettleInv, PlanInv, Pair, NEW m \in Member
    PROVE  Net(m)' = Net(m) + (left'[m] - left[m])
  <1>1. PICK c, d, t : c = creditors[i] /\ d = debtors[j] /\ t = Transfer(c, d)
    OBVIOUS
  <1>2. /\ owed[c] > 0 /\ owed[d] < 0 /\ owed[c] \in Int /\ owed[d] \in Int
        /\ left[c] \in 0 .. owed[c] /\ left[d] \in owed[d] .. 0
        /\ c \in Member /\ d \in Member /\ t \in 0 .. left[c]
        /\ left'[c] = left[c] - t /\ left'[d] = left[d] + t
        /\ \A k \in Member \ {c, d} : left'[k] = left[k]
    BY <1>1, PairMoves
  <1>3. plan' = IF t > 0 THEN Append(plan, [from |-> d, to |-> c, cents |-> t]) ELSE plan
    BY <1>1 DEF Pair
  <1>4. plan \in Seq([from : Member, to : Member, cents : Int]) /\ left[m] \in Int
    BY DEF SettleInv
  <1>5. c # d /\ t \in Int
    BY <1>2
  <1>6. Flow(m) \in Seq(Int)
    BY FlowTyped
  <1>7. Total(Flow(m)) \in Int
    BY <1>6, TotalsEquations
  <1>8. left'[m] - left[m] = IF m = d THEN t ELSE IF m = c THEN -t ELSE 0
    <2>1. left[c] \in Int /\ left[d] \in Int
      BY <1>2
    <2> QED BY <1>2, <1>4, <1>5, <2>1
  <1>9. CASE t > 0
    <2> DEFINE x == IF d = m THEN t ELSE IF c = m THEN -t ELSE 0
               r == [from |-> d, to |-> c, cents |-> t]
    <2>1. plan' = Append(plan, r) /\ r.from = d /\ r.to = c /\ r.cents = t
      BY <1>3, <1>9
    <2> HIDE DEF r
    <2>2. /\ Len(plan) \in Nat /\ Len(plan') = Len(plan) + 1
          /\ plan'[Len(plan) + 1] = r /\ \A n \in 1 .. Len(plan) : plan'[n] = plan[n]
      BY <1>4, <2>1
    <2>3. Flow(m)' = Append(Flow(m), x)
      <3>1. Len(Flow(m)) = Len(plan) /\ \A n \in 1 .. Len(plan) + 1 :
               n <= Len(plan) => n \in 1 .. Len(plan)
        BY <1>4 DEF Flow
      <3>2. Append(Flow(m), x) = [n \in 1 .. Len(plan) + 1 |->
                IF n <= Len(plan) THEN Flow(m)[n] ELSE x]
        BY <1>6, <2>2, <3>1
      <3>3. \A n \in 1 .. Len(plan) + 1 :
               (IF plan'[n].from = m THEN plan'[n].cents
                ELSE IF plan'[n].to = m THEN -plan'[n].cents ELSE 0)
               = (IF n <= Len(plan) THEN Flow(m)[n] ELSE x)
        BY <2>1, <2>2 DEF Flow
      <3>4. Flow(m)' = [n \in 1 .. Len(plan) + 1 |->
                IF plan'[n].from = m THEN plan'[n].cents
                ELSE IF plan'[n].to = m THEN -plan'[n].cents ELSE 0]
        BY <2>2 DEF Flow
      <3> QED BY <3>2, <3>3, <3>4
    <2>4. x \in Int /\ x = left'[m] - left[m]
      BY <1>5, <1>8
    <2> HIDE DEF x
    <2>5. Total(Append(Flow(m), x)) = Total(Flow(m)) + x
      BY <1>6, <2>4, TotalOfAppended
    <2> QED BY <2>3, <2>4, <2>5 DEF Net
  <1>10. CASE ~(t > 0)
    <2>1. t = 0 /\ plan' = plan
      BY <1>2, <1>3, <1>10
    <2>2. Net(m)' = Net(m)
      BY <2>1 DEF Net, Flow
    <2> QED BY <1>5, <1>7, <1>8, <2>1, <2>2 DEF Net
  <1> QED BY <1>9, <1>10

LEMMA PlanStep == SettleInv /\ PlanInv /\ [SettleNext]_settleVars => PlanInv'
  <1> SUFFICES ASSUME SettleInv, PlanInv, [SettleNext]_settleVars PROVE PlanInv'
    OBVIOUS
  <1>1. CASE UNCHANGED settleVars
    <2>1. /\ left' = left /\ owed' = owed /\ creditors' = creditors /\ debtors' = debtors
          /\ i' = i /\ j' = j /\ plan' = plan
      BY <1>1 DEF settleVars
    <2>2. /\ \A m \in Member : Net(m)' = Net(m)
          /\ Balance(left)' = Balance(left) /\ Balance(owed)' = Balance(owed)
      BY <2>1 DEF Net, Flow, Balance, Of
    <2>3. /\ Listed(creditors, {m \in Member : owed[m] > 0})'
          /\ Listed(debtors, {m \in Member : owed[m] < 0})'
      BY <2>1 DEF PlanInv, Listed
    <2>4. \A m \in Member : left'[m] = owed'[m] + Net(m)'
      BY <2>1, <2>2 DEF PlanInv
    <2>5. Balance(left)' = Balance(owed)'
      BY <2>2 DEF PlanInv
    <2> QED BY <2>1, <2>3, <2>4, <2>5 DEF PlanInv
  <1>2. CASE Pair
    <2>1. PICK c, d, t : c = creditors[i] /\ d = debtors[j] /\ t = Transfer(c, d)
      OBVIOUS
    <2>2. /\ i \in 1 .. Len(creditors) /\ j \in 1 .. Len(debtors)
          /\ c \in Member /\ d \in Member /\ owed[c] > 0 /\ owed[d] < 0
          /\ left[c] \in 0 .. owed[c] /\ left[d] \in owed[d] .. 0
          /\ owed[c] \in Int /\ owed[d] \in Int
          /\ t \in 0 .. left[c] /\ t \in 0 .. -left[d]
          /\ left' \in [Member -> Int]
          /\ left'[c] = left[c] - t /\ left'[d] = left[d] + t
          /\ \A m \in Member \ {c, d} : left'[m] = left[m]
          /\ i' = Advance(i, left'[c]) /\ j' = Advance(j, left'[d])
      BY <1>2, <2>1, PairMoves
    <2>3. owed' = owed /\ creditors' = creditors /\ debtors' = debtors
      BY <1>2 DEF Pair
    <2>4. /\ left \in [Member -> Int] /\ owed \in [Member -> Int]
          /\ creditors \in Seq(Member) /\ debtors \in Seq(Member)
          /\ i \in Nat /\ j \in Nat
      BY DEF SettleInv
    <2>5. /\ \A n \in 1 .. Len(creditors) : creditors[n] \in Member /\ owed[creditors[n]] > 0
          /\ \A n \in 1 .. Len(debtors) : debtors[n] \in Member /\ owed[debtors[n]] < 0
      <3>1. DOMAIN creditors = 1 .. Len(creditors) /\ DOMAIN debtors = 1 .. Len(debtors)
        BY <2>4
      <3>2. /\ \A n \in 1 .. Len(creditors) : owed[creditors[n]] > 0
            /\ \A n \in 1 .. Len(debtors) : owed[debtors[n]] < 0
        BY <3>1 DEF SettleInv
      <3> QED BY <2>4, <3>2
    <2>6. /\ \A n \in 1 .. Len(creditors) : creditors[n] = c => n = i
          /\ \A n \in 1 .. Len(debtors) : debtors[n] = d => n = j
          /\ \A n \in 1 .. Len(creditors) : creditors[n] # d
          /\ \A n \in 1 .. Len(debtors) : debtors[n] # c
      <3>1. /\ \A n, m \in 1 .. Len(creditors) : creditors[n] = creditors[m] => n = m
            /\ \A n, m \in 1 .. Len(debtors) : debtors[n] = debtors[m] => n = m
        BY DEF PlanInv, Listed
      <3>2. ~(owed[c] < 0) /\ ~(owed[d] > 0)
        BY <2>2
      <3> QED BY <2>1, <2>2, <2>5, <3>1, <3>2
    <2>7. /\ Listed(creditors, {m \in Member : owed[m] > 0})'
          /\ Listed(debtors, {m \in Member : owed[m] < 0})'
      BY <2>3 DEF PlanInv, Listed
    <2>8. \A m \in Member : left'[m] = owed'[m] + Net(m)'
      <3> SUFFICES ASSUME NEW m \in Member PROVE left'[m] = owed[m] + Net(m)'
        BY <2>3
      <3>1. Net(m)' = Net(m) + (left'[m] - left[m]) /\ left[m] = owed[m] + Net(m)
        BY <1>2, PairFlows DEF PlanInv
      <3>2. left[m] \in Int /\ left'[m] \in Int /\ owed[m] \in Int
        BY <2>2, <2>4
      <3>3. Net(m) \in Int
        <4>1. Flow(m) \in Seq(Int)
          BY FlowTyped
        <4> QED BY <4>1, TotalsEquations DEF Net
      <3> QED BY <3>1, <3>2, <3>3
    <2>9. \A m \in Member : owed'[m] = 0 => left'[m] = 0
      <3> SUFFICES ASSUME NEW m \in Member, owed[m] = 0 PROVE left'[m] = 0
        BY <2>3
      <3>1. m # c /\ m # d /\ left[m] = 0
        BY <2>2 DEF PlanInv
      <3> QED BY <2>2, <3>1
    <2>10. \A n \in 1 .. Len(creditors') :
              /\ left'[creditors'[n]] \in 0 .. owed'[creditors'[n]]
              /\ n < i' => left'[creditors'[n]] = 0
      <3> SUFFICES ASSUME NEW n \in 1 .. Len(creditors)
                   PROVE  /\ left'[creditors[n]] \in 0 .. owed[creditors[n]]
                          /\ n < i' => left'[creditors[n]] = 0
        BY <2>3
      <3>1. /\ left[creditors[n]] \in 0 .. owed[creditors[n]]
            /\ n < i => left[creditors[n]] = 0
        BY DEF PlanInv
      <3>2. CASE n = i
        <4>1. creditors[n] = c
          BY <2>1, <3>2
        <4>2. left'[c] \in 0 .. owed[c]
          <5>1. left[c] \in 0 .. owed[c] /\ t \in 0 .. left[c] /\ owed[c] \in Int
            BY <2>2
          <5>2. left'[c] = left[c] - t
            BY <2>2
          <5> QED BY <5>1, <5>2
        <4>3. n < i' => left'[c] = 0
          BY <2>2, <2>4, <3>2 DEF Advance
        <4> QED BY <4>1, <4>2, <4>3
      <3>3. CASE n # i
        <4>1. left'[creditors[n]] = left[creditors[n]]
          BY <2>2, <2>5, <2>6, <3>3
        <4>2. n < i' => n < i
          BY <2>2, <2>4, <3>3 DEF Advance
        <4> QED BY <3>1, <4>1, <4>2
      <3> QED BY <3>2, <3>3
    <2>11. \A n \in 1 .. Len(debtors') :
              /\ left'[debtors'[n]] \in owed'[debtors'[n]] .. 0
              /\ n < j' => left'[debtors'[n]] = 0
      <3> SUFFICES ASSUME NEW n \in 1 .. Len(debtors)
                   PROVE  /\ left'[debtors[n]] \in owed[debtors[n]] .. 0
                          /\ n < j' => left'[debtors[n]] = 0
        BY <2>3
      <3>1. /\ left[debtors[n]] \in owed[debtors[n]] .. 0
            /\ n < j => left[debtors[n]] = 0
        BY DEF PlanInv
      <3>2. CASE n = j
        <4>1. debtors[n] = d
          BY <2>1, <3>2
        <4>2. left'[d] \in owed[d] .. 0
          <5>1. left[d] \in owed[d] .. 0 /\ t \in 0 .. -left[d] /\ owed[d] \in Int
            BY <2>2
          <5>2. left'[d] = left[d] + t
            BY <2>2
          <5> QED BY <5>1, <5>2
        <4>3. n < j' => left'[d] = 0
          BY <2>2, <2>4, <3>2 DEF Advance
        <4> QED BY <4>1, <4>2, <4>3
      <3>3. CASE n # j
        <4>1. left'[debtors[n]] = left[debtors[n]]
          BY <2>2, <2>5, <2>6, <3>3
        <4>2. n < j' => n < j
          BY <2>2, <2>4, <3>3 DEF Advance
        <4> QED BY <3>1, <4>1, <4>2
      <3> QED BY <3>2, <3>3
    <2>12. Balance(left)' = Balance(owed)'
      <3>1. t \in Int /\ -t \in Int /\ left'[c] = left[c] + (-t)
        BY <2>2
      <3>2. /\ \A n \in 1 .. Len(creditors) : n # i => left'[creditors[n]] = left[creditors[n]]
            /\ \A n \in 1 .. Len(debtors) : n # j => left'[debtors[n]] = left[debtors[n]]
        BY <2>2, <2>5, <2>6
      <3>3. Total(Of(left', creditors)) = Total(Of(left, creditors)) + (-t)
        BY <2>1, <2>2, <2>4, <3>1, <3>2, TotalOfMoved, ZenonT(60)
      <3>4. Total(Of(left', debtors)) = Total(Of(left, debtors)) + t
        BY <2>1, <2>2, <2>4, <3>1, <3>2, TotalOfMoved, ZenonT(60)
      <3>5. Total(Of(left, creditors)) \in Int /\ Total(Of(left, debtors)) \in Int
        <4>1. Of(left, creditors) \in Seq(Int) /\ Of(left, debtors) \in Seq(Int)
          BY <2>4, <2>5 DEF Of
        <4> QED BY <4>1, TotalsEquations
      <3>6. Balance(owed)' = Balance(owed)
        BY <2>3 DEF Balance, Of
      <3>7. Balance(left)' = Total(Of(left', creditors)) + Total(Of(left', debtors))
        BY <2>3 DEF Balance, Of
      <3>8. Balance(left) = Total(Of(left, creditors)) + Total(Of(left, debtors))
        BY DEF Balance
      <3>9. Balance(left) = Balance(owed)
        BY DEF PlanInv
      <3> QED BY <3>1, <3>3, <3>4, <3>5, <3>6, <3>7, <3>8, <3>9
    <2> QED BY <2>3, <2>7, <2>8, <2>9, <2>10, <2>11, <2>12 DEF PlanInv
  <1> QED BY <1>1, <1>2 DEF SettleNext

(* For any number of members and any balances, the plan returned leaves no *)
(* debtor or no creditor, pays nobody past zero, and settles everyone when *)
(* the balances add up to zero.                                            *)
THEOREM EveryPlanSettles == SettleSpec => []PlanSettles
  <1>1. SettleInv /\ PlanInv => PlanSettles
    <2> SUFFICES ASSUME SettleInv, PlanInv, Returned
                 PROVE  /\ \A m \in Member : owed[m] >= 0 => owed[m] + Net(m) \in 0 .. owed[m]
                        /\ \A m \in Member : owed[m] <= 0 => owed[m] + Net(m) \in owed[m] .. 0
                        /\ \/ \A m \in Member : owed[m] > 0 => owed[m] + Net(m) = 0
                           \/ \A m \in Member : owed[m] < 0 => owed[m] + Net(m) = 0
                        /\ Balance(owed) = 0 => \A m \in Member : owed[m] + Net(m) = 0
      BY DEF PlanSettles
    <2>1. /\ left \in [Member -> Int] /\ owed \in [Member -> Int]
          /\ creditors \in Seq(Member) /\ debtors \in Seq(Member)
          /\ i \in Nat /\ j \in Nat
      BY DEF SettleInv
    <2>2. \A m \in Member : left[m] = owed[m] + Net(m)
      BY DEF PlanInv
    <2>3. /\ \A m \in Member : owed[m] = 0 => left[m] = 0
          /\ \A m \in Member : owed[m] > 0 => \E n \in 1 .. Len(creditors) : m = creditors[n]
          /\ \A m \in Member : owed[m] < 0 => \E n \in 1 .. Len(debtors) : m = debtors[n]
      BY DEF PlanInv, Listed
    <2>4. /\ \A n \in 1 .. Len(creditors) :
                /\ left[creditors[n]] \in 0 .. owed[creditors[n]]
                /\ n < i => left[creditors[n]] = 0
          /\ \A n \in 1 .. Len(debtors) :
                /\ left[debtors[n]] \in owed[debtors[n]] .. 0
                /\ n < j => left[debtors[n]] = 0
      BY DEF PlanInv
    <2>5. \A m \in Member : /\ owed[m] >= 0 => left[m] \in 0 .. owed[m]
                            /\ owed[m] <= 0 => left[m] \in owed[m] .. 0
      <3> SUFFICES ASSUME NEW m \in Member
                   PROVE  /\ owed[m] >= 0 => left[m] \in 0 .. owed[m]
                          /\ owed[m] <= 0 => left[m] \in owed[m] .. 0
        OBVIOUS
      <3>1. owed[m] \in Int /\ (owed[m] > 0 \/ owed[m] = 0 \/ owed[m] < 0)
        BY <2>1
      <3>2. CASE owed[m] > 0
        BY <2>3, <2>4, <3>1, <3>2
      <3>3. CASE owed[m] = 0
        BY <2>3, <3>1, <3>3
      <3>4. CASE owed[m] < 0
        BY <2>3, <2>4, <3>1, <3>4
      <3> QED BY <3>1, <3>2, <3>3, <3>4
    <2>6. \/ \A n \in 1 .. Len(creditors) : left[creditors[n]] = 0
          \/ \A n \in 1 .. Len(debtors) : left[debtors[n]] = 0
      BY <2>1, <2>4 DEF Returned
    <2>7. \/ \A m \in Member : owed[m] > 0 => left[m] = 0
          \/ \A m \in Member : owed[m] < 0 => left[m] = 0
      BY <2>3, <2>6
    <2>8. ASSUME Balance(owed) = 0
          PROVE  \A m \in Member : left[m] = 0
      <3> DEFINE p == Of(left, creditors)
                 q == Of(left, debtors)
      <3>1. /\ \A n \in 1 .. Len(creditors) : left[creditors[n]] \in Int /\ left[creditors[n]] >= 0
            /\ \A n \in 1 .. Len(debtors) : left[debtors[n]] \in Int /\ left[debtors[n]] <= 0
        <4>1. /\ \A n \in 1 .. Len(creditors) : owed[creditors[n]] \in Int
              /\ \A n \in 1 .. Len(debtors) : owed[debtors[n]] \in Int
          BY <2>1
        <4> QED BY <2>4, <4>1
      <3>2. /\ p \in Seq(Int) /\ Len(p) = Len(creditors)
            /\ \A n \in 1 .. Len(p) : p[n] = left[creditors[n]]
        BY <2>1, <3>1 DEF Of
      <3>3. /\ q \in Seq(Int) /\ Len(q) = Len(debtors)
            /\ \A n \in 1 .. Len(q) : q[n] = left[debtors[n]]
        BY <2>1, <3>1 DEF Of
      <3>4. Total(p) + Total(q) = 0
        BY <2>8 DEF PlanInv, Balance
      <3> HIDE DEF p, q
      <3>5. Total(p) \in Int /\ Total(q) \in Int
        BY <3>2, <3>3, TotalsEquations
      <3>6. \A n \in 1 .. Len(p) : p[n] >= 0
        BY <3>1, <3>2
      <3>7. \A n \in 1 .. Len(q) : q[n] <= 0
        BY <3>1, <3>3
      <3>8. Total(p) = 0 <=> \A n \in 1 .. Len(p) : p[n] = 0
        BY <3>2, <3>6, TotalOfOneSign
      <3>9. Total(q) = 0 <=> \A n \in 1 .. Len(q) : q[n] = 0
        BY <3>3, <3>7, TotalOfOneSign
      <3>10. Total(p) = 0 /\ Total(q) = 0
        <4>1. Total(p) = 0 \/ Total(q) = 0
          BY <2>6, <3>2, <3>3, <3>8, <3>9
        <4> QED BY <3>4, <3>5, <4>1
      <3>11. /\ \A n \in 1 .. Len(creditors) : left[creditors[n]] = 0
             /\ \A n \in 1 .. Len(debtors) : left[debtors[n]] = 0
        BY <3>2, <3>3, <3>8, <3>9, <3>10
      <3> SUFFICES ASSUME NEW m \in Member PROVE left[m] = 0
        OBVIOUS
      <3>12. owed[m] > 0 \/ owed[m] = 0 \/ owed[m] < 0
        BY <2>1
      <3> QED BY <2>3, <3>11, <3>12
    <2> QED BY <2>2, <2>5, <2>7, <2>8
  <1> QED BY <1>1, SettleStart, SettleStep, PlanStart, PlanStep, PTL DEF SettleSpec

(***************************************************************************)
(* TripBalances                                                            *)
(***************************************************************************)

ReaderRecord == [pc : {"idle", "missed", "computed"}, rows : SUBSET Expense]

LEMMA BalancesTypeStep ==
    ASSUME BalancesTypeOK, [BalancesNext]_balanceVars
    PROVE  BalancesTypeOK'
  <1>t. /\ expense \in [Expense -> {"none", "live", "gone"}] /\ balances \in Entry
        /\ writer \in [Writer -> {"idle", "wrote"}] /\ reader \in [Reader -> ReaderRecord]
        /\ NoEntry \in Entry
    BY DEF BalancesTypeOK, ReaderRecord, NoEntry, Entry
  <1>1. ASSUME NEW w \in Writer, NEW e \in Expense, AddExpense(w, e) \/ RemoveExpense(w, e)
        PROVE  BalancesTypeOK'
    BY <1>1, <1>t DEF AddExpense, RemoveExpense, BalancesTypeOK, ReaderRecord
  <1>2. ASSUME NEW w \in Writer, Invalidate(w) PROVE BalancesTypeOK'
    BY <1>2, <1>t DEF Invalidate, BalancesTypeOK, ReaderRecord
  <1>3. ASSUME NEW r \in Reader, Miss(r) PROVE BalancesTypeOK'
    <2>1. [reader[r] EXCEPT !.pc = "missed"] \in ReaderRecord
      BY <1>t DEF ReaderRecord
    <2>2. reader' \in [Reader -> ReaderRecord]
      BY <1>3, <1>t, <2>1 DEF Miss
    <2> QED BY <1>3, <1>t, <2>2 DEF Miss, BalancesTypeOK, ReaderRecord
  <1>4. ASSUME NEW r \in Reader, Compute(r) PROVE BalancesTypeOK'
    <2>1. [pc |-> "computed", rows |-> LiveRows] \in ReaderRecord
      BY DEF ReaderRecord, LiveRows
    <2>2. reader' \in [Reader -> ReaderRecord]
      BY <1>4, <1>t, <2>1 DEF Compute
    <2> QED BY <1>4, <1>t, <2>2 DEF Compute, BalancesTypeOK, ReaderRecord
  <1>5. ASSUME NEW r \in Reader, Store(r) PROVE BalancesTypeOK'
    <2>1. /\ [reader[r] EXCEPT !.pc = "idle"] \in ReaderRecord
          /\ [cached |-> TRUE, rows |-> reader[r].rows, expires |-> TRUE] \in Entry
      BY <1>t DEF ReaderRecord, Entry
    <2>2. reader' \in [Reader -> ReaderRecord] /\ balances' \in Entry
      BY <1>5, <1>t, <2>1 DEF Store
    <2> QED BY <1>5, <1>t, <2>2 DEF Store, BalancesTypeOK, ReaderRecord
  <1>6. CASE EntryExpires
    BY <1>6, <1>t DEF EntryExpires, BalancesTypeOK, ReaderRecord
  <1>7. CASE UNCHANGED balanceVars
    BY <1>7 DEF balanceVars, BalancesTypeOK
  <1> QED BY <1>1, <1>2, <1>3, <1>4, <1>5, <1>6, <1>7 DEF BalancesNext

THEOREM BalancesTypes == BalancesSpec => []BalancesTypeOK
  <1>1. BalancesInit => BalancesTypeOK
    BY DEF BalancesInit, BalancesTypeOK, NoEntry, Entry
  <1> QED BY <1>1, BalancesTypeStep, PTL DEF BalancesSpec

(* For any number of rows, writers and readers: between two writes every   *)
(* wrong entry uses up a reader that the last write overtook.              *)
THEOREM StaleEntriesRunOut == BalancesSpec => StaleOncePerReader
  <1> DEFINE Step == LiveRows' = LiveRows =>
                        /\ Late' \subseteq Late
                        /\ Fresh /\ ~Fresh' => Late' # Late
  <1>1. BalancesTypeOK /\ [BalancesNext]_balanceVars => [Step]_balanceVars
    <2> SUFFICES ASSUME BalancesTypeOK, BalancesNext, LiveRows' = LiveRows
                 PROVE  /\ Late' \subseteq Late
                        /\ Fresh /\ ~Fresh' => Late' # Late
      OBVIOUS
    <2>t. reader \in [Reader -> ReaderRecord]
      BY DEF BalancesTypeOK, ReaderRecord
    <2>1. CASE UNCHANGED reader
      <3>1. Late' = Late
        BY <2>1 DEF Late
      <3>2. balances' = balances \/ balances' = NoEntry
        <4>1. ASSUME NEW r \in Reader, Miss(r) \/ Compute(r) \/ Store(r)
              PROVE  balances' = balances
          BY <2>1, <2>t, <4>1 DEF Miss, Compute, Store, ReaderRecord
        <4> QED BY <4>1 DEF BalancesNext, AddExpense, RemoveExpense, Invalidate, EntryExpires
      <3>3. Fresh => Fresh'
        BY <3>2 DEF Fresh, NoEntry
      <3> QED BY <3>1, <3>3
    <2>2. ASSUME NEW r \in Reader, Miss(r) \/ Compute(r) PROVE Step
      <3>1. /\ \A q \in Reader \ {r} : reader'[q] = reader[q]
            /\ reader'[r].pc = "computed" => reader'[r].rows = LiveRows
            /\ balances' = balances
        BY <2>2, <2>t DEF Miss, Compute, ReaderRecord
      <3>2. Late' \subseteq Late
        BY <3>1 DEF Late
      <3>3. Fresh => Fresh'
        BY <3>1 DEF Fresh
      <3> QED BY <3>2, <3>3
    <2>3. ASSUME NEW r \in Reader, Store(r) PROVE Step
      <3>1. /\ \A q \in Reader \ {r} : reader'[q] = reader[q]
            /\ reader[r].pc = "computed" /\ reader'[r].pc = "idle"
        BY <2>3, <2>t DEF Store, ReaderRecord
      <3>2. Late' \subseteq Late /\ r \notin Late'
        BY <3>1 DEF Late
      <3>3. \/ balances' = balances
            \/ balances' = [cached |-> TRUE, rows |-> reader[r].rows, expires |-> TRUE]
        BY <2>3 DEF Store
      <3>4. Fresh /\ ~Fresh' => reader[r].rows # LiveRows
        BY <3>3 DEF Fresh
      <3>5. Fresh /\ ~Fresh' => r \in Late
        BY <3>1, <3>4 DEF Late
      <3> QED BY <3>2, <3>5
    <2>4. UNCHANGED reader \/ \E r \in Reader : Miss(r) \/ Compute(r) \/ Store(r)
      BY DEF BalancesNext, AddExpense, RemoveExpense, Invalidate, EntryExpires
    <2> QED BY <2>1, <2>2, <2>3, <2>4
  <1> QED BY <1>1, BalancesTypes, PTL DEF BalancesSpec, StaleOncePerReader

(***************************************************************************)
(* Subscription                                                            *)
(***************************************************************************)

(* The events on record, and the deliveries under way.                     *)
StripeOK(s) ==
    /\ stripe[s].count \in Nat
    /\ stripe[s].count > 0 =>
          (Grants(stripe[s].status) <=> Grants(stripe[s].event[stripe[s].count]))
    /\ row[s].number \in Nat /\ row[s].number <= stripe[s].count
    /\ row[s].number > 0 /\ role \notin Privileged =>
          (role = "premium" <=> Grants(stripe[s].event[row[s].number]))

HookOK(h) ==
    hook[h].pc # "idle" =>
        /\ hook[h].number \in Nat \ {0}
        /\ hook[h].number <= stripe[hook[h].sub].count
        /\ hook[h].status = stripe[hook[h].sub].event[hook[h].number]
        /\ hook[h].pc = "read" => hook[h].role = role

(* The deliveries of one subscription's events exclude one another, so     *)
(* with one subscription the role read is the role written over.           *)
SubscriptionInv ==
    /\ SubscriptionTypeOK
    /\ \A s \in Sub : StripeOK(s)
    /\ \A h \in Handler : HookOK(h)
    /\ \A g, h \in Handler :
          g # h /\ hook[g].pc # "idle" /\ hook[h].pc # "idle"
              => hook[g].sub # hook[h].sub

HookRecord == [pc : {"idle", "upserted", "read"}, sub : Sub,
               number : 0 .. MaxEvents, status : StripeStatus, role : Role]

LEMMA IdleHookType == \A s \in Sub : IdleHook \in HookRecord /\ IdleHook.pc = "idle"
  <1> SUFFICES ASSUME NEW s \in Sub PROVE IdleHook \in HookRecord /\ IdleHook.pc = "idle"
    OBVIOUS
  <1>1. PICK s0 \in Sub : s0 = CHOOSE r \in Sub : TRUE
    OBVIOUS
  <1>2. 0 \in 0 .. MaxEvents
    BY MaxEventsAssumption
  <1> QED BY <1>1, <1>2 DEF IdleHook, HookRecord, StripeStatus, Role

(* The variables keep their types, whatever overlaps or is rolled back.    *)
LEMMA SubscriptionTypeStep ==
    SubscriptionTypeOK /\ [SubscriptionNext]_subscriptionVars => SubscriptionTypeOK'
  <1> SUFFICES ASSUME SubscriptionTypeOK, [SubscriptionNext]_subscriptionVars
               PROVE  SubscriptionTypeOK'
    OBVIOUS
  <1> DEFINE Sent == [count : 0 .. MaxEvents, event : [1 .. MaxEvents -> StripeStatus],
                      status : StripeStatus]
             Stored == [status : {"none", "trialing", "active", "past_due", "canceled"},
                        number : 0 .. MaxEvents]
  <1>t. /\ stripe \in [Sub -> Sent] /\ row \in [Sub -> Stored]
        /\ role \in Role /\ hook \in [Handler -> HookRecord]
        /\ MaxEvents \in Nat
    BY MaxEventsAssumption DEF SubscriptionTypeOK, HookRecord
  <1>q. ASSUME stripe' \in [Sub -> Sent], row' \in [Sub -> Stored],
               role' \in Role, hook' \in [Handler -> HookRecord]
        PROVE  SubscriptionTypeOK'
    BY <1>q DEF SubscriptionTypeOK, HookRecord
  <1>1. CASE UNCHANGED subscriptionVars
    BY <1>1 DEF subscriptionVars, SubscriptionTypeOK
  <1>2. ASSUME NEW s \in Sub, SubscriptionEvent(s) \/ CheckoutEvent(s)
        PROVE  SubscriptionTypeOK'
    <2>1. PICK new \in StripeStatus, shown \in StripeStatus : Emit(s, new, shown)
      BY <1>2 DEF SubscriptionEvent, CheckoutEvent, PremiumStatuses, StripeStatus
    <2>2. /\ stripe[s].count \in 0 .. MaxEvents /\ stripe[s].count < MaxEvents
          /\ stripe[s].event \in [1 .. MaxEvents -> StripeStatus]
      BY <1>t, <2>1 DEF Emit
    <2>3. PICK n \in 1 .. MaxEvents : n = stripe[s].count + 1
      BY <1>t, <2>2
    <2>4. PICK sent \in Sent : stripe' = [stripe EXCEPT ![s] = sent]
      <3> DEFINE sent == [count |-> n, event |-> [stripe[s].event EXCEPT ![n] = shown],
                          status |-> new]
      <3>1. stripe' = [stripe EXCEPT ![s] = sent]
        BY <2>1, <2>3 DEF Emit
      <3>2. sent \in Sent
        BY <1>t, <2>2
      <3> HIDE DEF Sent, sent
      <3> QED BY <3>1, <3>2
    <2>5. UNCHANGED <<row, role, hook>>
      BY <2>1 DEF Emit
    <2> HIDE DEF Sent, Stored
    <2>6. stripe' \in [Sub -> Sent]
      BY <1>t, <2>4
    <2> QED BY <1>q, <1>t, <2>5, <2>6
  <1>3. ASSUME NEW h \in Handler,
               \/ \E s \in Sub, n \in 1 .. MaxEvents : Upsert(h, s, n)
               \/ ReadRole(h) \/ Commit(h) \/ Rollback(h)
        PROVE  SubscriptionTypeOK'
    <2>0. hook[h] \in HookRecord /\ IdleHook \in HookRecord
      BY <1>t, IdleHookType DEF HookRecord
    <2>1. \E k \in HookRecord : hook' = [hook EXCEPT ![h] = k]
      <3>1. ASSUME NEW s \in Sub, NEW n \in 1 .. MaxEvents, Upsert(h, s, n)
            PROVE  \E k \in HookRecord : hook' = [hook EXCEPT ![h] = k]
        <4>1. stripe[s].event[n] \in StripeStatus /\ "user" \in Role /\ n \in 0 .. MaxEvents
          BY <1>t DEF Role
        <4>2. [pc |-> "upserted", sub |-> s, number |-> n,
               status |-> stripe[s].event[n], role |-> "user"] \in HookRecord
          BY <4>1 DEF HookRecord
        <4> QED BY <3>1, <4>2 DEF Upsert
      <3>2. CASE ReadRole(h)
        <4> DEFINE k == [hook[h] EXCEPT !.pc = "read", !.role = role]
        <4>1. k \in HookRecord
          BY <1>t, <2>0 DEF HookRecord
        <4>2. hook' = [hook EXCEPT ![h] = k]
          BY <1>t, <3>2 DEF ReadRole
        <4> HIDE DEF k
        <4> QED BY <4>1, <4>2
      <3>3. CASE Commit(h) \/ Rollback(h)
        BY <2>0, <3>3 DEF Commit, Rollback
      <3> QED BY <1>3, <3>1, <3>2, <3>3
    <2>2. hook' \in [Handler -> HookRecord]
      BY <1>t, <2>1
    <2>3. CASE Commit(h)
      <3>1. row' \in [Sub -> Stored]
        <4>1. PICK r \in Stored : row' = [row EXCEPT ![hook[h].sub] = r]
          <5>1. [status |-> PrismaStatus(hook[h].status), number |-> hook[h].number] \in Stored
            BY <2>0 DEF PrismaStatus, HookRecord
          <5> QED BY <2>3, <5>1 DEF Commit
        <4> HIDE DEF Stored
        <4> QED BY <1>t, <4>1
      <3>2. role' \in Role
        BY <1>t, <2>3 DEF Commit, TargetRole, Role
      <3>3. stripe' = stripe
        BY <2>3 DEF Commit
      <3> QED BY <1>q, <1>t, <2>2, <3>1, <3>2, <3>3
    <2>4. CASE ~Commit(h)
      <3>1. UNCHANGED <<stripe, row, role>>
        BY <1>3, <2>4 DEF Upsert, ReadRole, Rollback
      <3> QED BY <1>q, <1>t, <2>2, <3>1
    <2> QED BY <2>3, <2>4
  <1> QED BY <1>1, <1>2, <1>3 DEF SubscriptionNext

(* What a step of the handlers must respect. *)
LEMMA HookMoves ==
    ASSUME SubscriptionInv, NEW h \in Handler, NEW k \in HookRecord,
           hook' = [hook EXCEPT ![h] = k]
    PROVE  /\ hook' \in [Handler -> HookRecord] /\ hook'[h] = k
           /\ \A g \in Handler : g # h => hook'[g] = hook[g]
  BY DEF SubscriptionInv, SubscriptionTypeOK, HookRecord

LEMMA EmitStep ==
    ASSUME SubscriptionInv, NEW s \in Sub, SubscriptionEvent(s) \/ CheckoutEvent(s)
    PROVE  SubscriptionInv'
  <1>1. PICK new \in StripeStatus, shown \in StripeStatus :
           Emit(s, new, shown) /\ (Grants(new) <=> Grants(shown))
    BY DEF SubscriptionEvent, CheckoutEvent, Grants, PremiumStatuses, StripeStatus
  <1>2. SubscriptionTypeOK /\ MaxEvents \in Nat /\ stripe[s].count \in Nat
        /\ stripe[s].count < MaxEvents
    BY <1>1, MaxEventsAssumption DEF SubscriptionInv, SubscriptionTypeOK, Emit
  <1>3. PICK n \in 1 .. MaxEvents : n = stripe[s].count + 1
    BY <1>2
  <1> DEFINE ev == [stripe[s].event EXCEPT ![n] = shown]
  <1>4. /\ stripe' = [stripe EXCEPT ![s] = [count |-> n, event |-> ev, status |-> new]]
        /\ UNCHANGED <<row, role, hook>>
    BY <1>1, <1>3 DEF Emit
  <1>5. /\ ev \in [1 .. MaxEvents -> StripeStatus] /\ ev[n] = shown
        /\ \A m \in 1 .. MaxEvents : m # n => ev[m] = stripe[s].event[m]
    BY <1>2 DEF SubscriptionTypeOK
  <1> HIDE DEF ev
  <1>6. /\ stripe'[s].count = n /\ stripe'[s].event = ev /\ stripe'[s].status = new
        /\ \A r \in Sub : r # s => stripe'[r] = stripe[r]
    BY <1>2, <1>4 DEF SubscriptionTypeOK
  <1>7. SubscriptionTypeOK'
    BY <1>2, SubscriptionTypeStep DEF SubscriptionNext
  <1>8. \A r \in Sub : StripeOK(r)'
    <2>1. StripeOK(s)'
      <3>1. /\ row[s].number \in Nat /\ row[s].number < n
            /\ row[s].number > 0 => ev[row[s].number] = stripe[s].event[row[s].number]
        BY <1>2, <1>3, <1>5 DEF SubscriptionInv, StripeOK
      <3> QED BY <1>1, <1>3, <1>4, <1>5, <1>6, <3>1
              DEF SubscriptionInv, StripeOK, Grants, PremiumStatuses
    <2>2. \A r \in Sub : r # s => StripeOK(r)'
      BY <1>4, <1>6 DEF SubscriptionInv, StripeOK, Grants, PremiumStatuses
    <2> QED BY <2>1, <2>2
  <1>9. \A h \in Handler : HookOK(h)'
    <2> SUFFICES ASSUME NEW h \in Handler, hook[h].pc # "idle" PROVE HookOK(h)'
      BY <1>4 DEF HookOK
    <2>1. HookOK(h) /\ hook[h].sub \in Sub
      BY <1>2 DEF SubscriptionInv, SubscriptionTypeOK
    <2>2. CASE hook[h].sub = s
      <3>1. /\ hook[h].number \in 1 .. MaxEvents /\ hook[h].number < n
            /\ ev[hook[h].number] = stripe[s].event[hook[h].number]
        BY <1>2, <1>3, <1>5, <2>1, <2>2 DEF HookOK
      <3> QED BY <1>3, <1>4, <1>6, <2>1, <2>2, <3>1 DEF HookOK
    <2>3. CASE hook[h].sub # s
      BY <1>4, <1>6, <2>1, <2>3 DEF HookOK
    <2> QED BY <2>2, <2>3
  <1> QED BY <1>4, <1>7, <1>8, <1>9 DEF SubscriptionInv

LEMMA HookStep ==
    ASSUME SubscriptionInv, \A r, s \in Sub : r = s, NEW h \in Handler,
           \/ \E s \in Sub, n \in 1 .. MaxEvents : Upsert(h, s, n)
           \/ ReadRole(h) \/ Commit(h) \/ Rollback(h)
    PROVE  SubscriptionInv'
  <1>1. SubscriptionTypeOK /\ MaxEvents \in Nat /\ hook[h] \in HookRecord
        /\ hook[h].sub \in Sub /\ HookOK(h) /\ role \in Role /\ hook \in [Handler -> HookRecord]
    BY MaxEventsAssumption DEF SubscriptionInv, SubscriptionTypeOK, HookRecord
  <1>t. SubscriptionTypeOK'
    BY <1>1, SubscriptionTypeStep DEF SubscriptionNext
  <1>2. CASE \E s \in Sub, n \in 1 .. MaxEvents : Upsert(h, s, n)
    <2>1. PICK s \in Sub, n \in 1 .. MaxEvents : Upsert(h, s, n)
      BY <1>2
    <2>2. stripe[s].event[n] \in StripeStatus /\ "user" \in Role
      BY <1>1 DEF SubscriptionTypeOK, Role
    <2>3. PICK k \in HookRecord : k = [pc |-> "upserted", sub |-> s, number |-> n,
                                       status |-> stripe[s].event[n], role |-> "user"]
      <3>1. n \in 0 .. MaxEvents
        BY <1>1
      <3>2. [pc |-> "upserted", sub |-> s, number |-> n,
             status |-> stripe[s].event[n], role |-> "user"] \in HookRecord
        BY <2>2, <3>1 DEF HookRecord
      <3> QED BY <3>2
    <2>4. /\ hook' = [hook EXCEPT ![h] = k] /\ UNCHANGED <<stripe, row, role>>
          /\ \A g \in Handler : hook[g].pc # "idle" => hook[g].sub # s
          /\ n <= stripe[s].count
      BY <2>1, <2>3 DEF Upsert
    <2>5. /\ hook' \in [Handler -> HookRecord] /\ hook'[h] = k
          /\ \A g \in Handler : g # h => hook'[g] = hook[g]
      BY <2>4, HookMoves
    <2>7. \A g \in Handler : HookOK(g)'
      BY <2>3, <2>4, <2>5 DEF SubscriptionInv, HookOK
    <2>8. \A r \in Sub : StripeOK(r)'
      BY <2>4 DEF SubscriptionInv, StripeOK, Grants, PremiumStatuses
    <2> QED BY <1>t, <2>3, <2>4, <2>5, <2>7, <2>8 DEF SubscriptionInv
  <1>3. CASE ReadRole(h)
    <2>1. PICK k \in HookRecord : /\ k = [hook[h] EXCEPT !.pc = "read", !.role = role]
                                  /\ k.sub = hook[h].sub /\ k.number = hook[h].number
                                  /\ k.status = hook[h].status /\ k.pc = "read"
                                  /\ k.role = role
      <3> DEFINE l == [hook[h] EXCEPT !.pc = "read", !.role = role]
      <3>1. l \in HookRecord /\ l.sub = hook[h].sub /\ l.number = hook[h].number
            /\ l.status = hook[h].status /\ l.pc = "read" /\ l.role = role
        BY <1>1 DEF HookRecord
      <3> QED BY <3>1
    <2>2. /\ hook' = [hook EXCEPT ![h] = k] /\ UNCHANGED <<stripe, row, role>>
          /\ hook[h].pc = "upserted"
      BY <1>1, <1>3, <2>1 DEF ReadRole
    <2>3. /\ hook' \in [Handler -> HookRecord] /\ hook'[h] = k
          /\ \A g \in Handler : g # h => hook'[g] = hook[g]
      BY <2>2, HookMoves
    <2>5. \A g \in Handler : HookOK(g)'
      BY <1>1, <2>1, <2>2, <2>3 DEF SubscriptionInv, HookOK
    <2>6. \A r \in Sub : StripeOK(r)'
      BY <2>2 DEF SubscriptionInv, StripeOK, Grants, PremiumStatuses
    <2> QED BY <1>t, <2>1, <2>2, <2>3, <2>5, <2>6 DEF SubscriptionInv
  <1>4. CASE Rollback(h)
    <2>1. /\ hook' = [hook EXCEPT ![h] = IdleHook] /\ UNCHANGED <<stripe, row, role>>
      BY <1>4 DEF Rollback
    <2>2. IdleHook \in HookRecord /\ IdleHook.pc = "idle"
      BY <1>1, IdleHookType
    <2>3. /\ hook' \in [Handler -> HookRecord] /\ hook'[h] = IdleHook
          /\ \A g \in Handler : g # h => hook'[g] = hook[g]
      BY <2>1, <2>2, HookMoves
    <2>5. \A g \in Handler : HookOK(g)'
      BY <2>1, <2>2, <2>3 DEF SubscriptionInv, HookOK
    <2>6. \A r \in Sub : StripeOK(r)'
      BY <2>1 DEF SubscriptionInv, StripeOK, Grants, PremiumStatuses
    <2> QED BY <1>t, <2>2, <2>3, <2>5, <2>6 DEF SubscriptionInv
  <1>5. CASE Commit(h)
    <2>0. PICK s \in Sub, n \in 1 .. MaxEvents, status \in StripeStatus :
             /\ s = hook[h].sub /\ n = hook[h].number /\ status = hook[h].status
             /\ n <= stripe[s].count /\ status = stripe[s].event[n]
             /\ hook[h].role = role /\ hook[h].pc = "read"
      BY <1>1, <1>5 DEF HookOK, HookRecord, Commit
    <2>1. PICK target \in {"premium", "user"} :
             target = TargetRole(status) /\ (target = "premium" <=> Grants(status))
      BY DEF TargetRole
    <2>2. /\ hook' = [hook EXCEPT ![h] = IdleHook] /\ stripe' = stripe
          /\ row' = [row EXCEPT ![s] = [status |-> PrismaStatus(status), number |-> n]]
          /\ role' = IF role \in Privileged \cup {target} THEN role ELSE target
      BY <1>5, <2>0, <2>1 DEF Commit
    <2>3. IdleHook \in HookRecord /\ IdleHook.pc = "idle"
      BY <1>1, IdleHookType
    <2>4. /\ hook' \in [Handler -> HookRecord] /\ hook'[h] = IdleHook
          /\ \A g \in Handler : g # h => hook'[g] = hook[g]
      BY <2>2, <2>3, HookMoves
    <2>5. row'[s].number = n
      BY <1>1, <2>2 DEF SubscriptionTypeOK
    <2>8. \A g \in Handler : g # h => hook[g].pc = "idle"
      BY <1>1, <2>0 DEF SubscriptionInv, HookRecord
    <2>9. \A g \in Handler : HookOK(g)'
      BY <2>3, <2>4, <2>8 DEF HookOK
    <2>10. role' \notin Privileged => (role' = "premium" <=> Grants(status))
      BY <2>1, <2>2
    <2>11. StripeOK(s)'
      <3>1. StripeOK(s)
        BY <1>1 DEF SubscriptionInv
      <3>2. /\ stripe' = stripe /\ row'[s].number = n
            /\ n \in Nat /\ n <= stripe[s].count
            /\ Grants(status) <=> Grants(stripe[s].event[n])
        BY <1>1, <2>0, <2>2, <2>5
      <3> QED BY <2>10, <3>1, <3>2 DEF StripeOK, Grants, PremiumStatuses
    <2>12. \A r \in Sub : StripeOK(r)'
      BY <2>11
    <2> QED BY <1>t, <2>3, <2>4, <2>9, <2>12 DEF SubscriptionInv
  <1> QED BY <1>2, <1>3, <1>4, <1>5

LEMMA SubscriptionStart == SubscriptionInit => SubscriptionInv
  <1> SUFFICES ASSUME SubscriptionInit PROVE SubscriptionInv
    OBVIOUS
  <1>1. /\ \A s \in Sub : stripe[s].count = 0 /\ row[s].number = 0
        /\ \A h \in Handler : hook[h] = IdleHook
    BY DEF SubscriptionInit
  <1>2. IdleHook.pc = "idle"
    BY DEF IdleHook
  <1>3. SubscriptionTypeOK
    <2>1. IdleHook \in HookRecord
      BY IdleHookType, SubAssumption
    <2>2. hook \in [Handler -> HookRecord]
      BY <2>1 DEF SubscriptionInit
    <2>3. "canceled" \in StripeStatus /\ "incomplete" \in StripeStatus /\ 0 \in 0 .. MaxEvents
      BY MaxEventsAssumption DEF StripeStatus
    <2>4. [count |-> 0, event |-> [n \in 1 .. MaxEvents |-> "canceled"],
           status |-> "incomplete"]
             \in [count : 0 .. MaxEvents, event : [1 .. MaxEvents -> StripeStatus],
                  status : StripeStatus]
      BY <2>3
    <2>5. role \in Role
      BY DEF SubscriptionInit, Role, Privileged
    <2> QED BY <2>2, <2>3, <2>4, <2>5 DEF SubscriptionInit, SubscriptionTypeOK, HookRecord
  <1> QED BY <1>1, <1>2, <1>3 DEF SubscriptionInv, StripeOK, HookOK

LEMMA SubscriptionStep ==
    ASSUME \A r, s \in Sub : r = s
    PROVE  SubscriptionInv /\ [SubscriptionNext]_subscriptionVars => SubscriptionInv'
  <1> SUFFICES ASSUME SubscriptionInv, [SubscriptionNext]_subscriptionVars
               PROVE  SubscriptionInv'
    OBVIOUS
  <1>1. CASE UNCHANGED subscriptionVars
    BY <1>1 DEF subscriptionVars, SubscriptionInv, SubscriptionTypeOK, StripeOK,
                HookOK, Grants, PremiumStatuses
  <1> QED BY <1>1, EmitStep, HookStep DEF SubscriptionNext

(* Type correctness, for any number of users' subscriptions and deliveries. *)
THEOREM SubscriptionTypes == SubscriptionSpec => []SubscriptionTypeOK
  <1>1. SubscriptionInit => SubscriptionTypeOK
    BY SubscriptionStart DEF SubscriptionInv
  <1> QED BY <1>1, SubscriptionTypeStep, PTL DEF SubscriptionSpec

(* For a user with one subscription, any number of events and deliveries,  *)
(* repeated, reordered, overlapping or rolled back: once the newest event  *)
(* is the one written, the role is what Stripe's status grants.            *)
THEOREM RoleIsRight ==
    ASSUME \A r, s \in Sub : r = s
    PROVE  SubscriptionSpec => []RoleFollowsStripe
  <1>1. SubscriptionInv => RoleFollowsStripe
    BY DEF SubscriptionInv, StripeOK, RoleFollowsStripe
  <1> QED BY <1>1, SubscriptionStart, SubscriptionStep, PTL DEF SubscriptionSpec

(***************************************************************************)
(* The in-memory bus                                                       *)
(***************************************************************************)

(* A record of deliveries or attempts changed at one place keeps its type. *)
LEMMA SetOne ==
    ASSUME NEW S, NEW f \in [Message -> [Subscriber -> S]],
           NEW m \in Message, NEW s \in Subscriber, NEW v \in S
    PROVE  [f EXCEPT ![m][s] = v] \in [Message -> [Subscriber -> S]]
  <1>1. [f[m] EXCEPT ![s] = v] \in [Subscriber -> S]
    OBVIOUS
  <1> QED BY <1>1

LEMMA LocalTypeStep == LocalTypeOK /\ [LocalNext]_localVars => LocalTypeOK'
  <1> SUFFICES ASSUME LocalTypeOK, [LocalNext]_localVars PROVE LocalTypeOK'
    OBVIOUS
  <1>1. ASSUME NEW s \in Subscriber, SubscribeLocal(s) \/ UnsubscribeLocal(s)
        PROVE  LocalTypeOK'
    <2>1. /\ subs' \in [Subscriber -> {"new", "on", "off"}]
          /\ UNCHANGED <<closed, publishing, dispatch, attempt>>
      BY <1>1 DEF SubscribeLocal, UnsubscribeLocal, LocalTypeOK
    <2> QED BY <2>1 DEF LocalTypeOK
  <1>2. CASE CloseLocal
    <2>1. /\ subs' \in [Subscriber -> {"new", "on", "off"}]
          /\ closed' \in BOOLEAN
          /\ UNCHANGED <<publishing, dispatch, attempt>>
      BY <1>2 DEF CloseLocal, LocalTypeOK
    <2> QED BY <2>1 DEF LocalTypeOK
  <1>3. ASSUME NEW m \in Message, PublishLocal(m) \/ PublishReturns(m)
        PROVE  LocalTypeOK'
    <2>1. publishing' \in [Message -> {"absent", "waiting", "returned", "refused"}]
      BY <1>3 DEF PublishLocal, PublishReturns, LocalTypeOK
    <2>2. dispatch' \in [Message -> [Subscriber -> {"none", "running", "handled", "dead"}]]
      BY <1>3 DEF PublishLocal, PublishReturns, LocalTypeOK
    <2>3. UNCHANGED <<subs, closed, attempt>>
      BY <1>3 DEF PublishLocal, PublishReturns
    <2> QED BY <2>1, <2>2, <2>3 DEF LocalTypeOK
  <1>4. ASSUME NEW m \in Message, NEW s \in Subscriber,
               HandlerResolves(m, s) \/ HandlerRejects(m, s)
        PROVE  LocalTypeOK'
    <2> DEFINE Fates == {"none", "running", "handled", "dead"}
    <2>1. /\ dispatch \in [Message -> [Subscriber -> Fates]]
          /\ attempt \in [Message -> [Subscriber -> 1 .. LocalAttempts]]
      BY DEF LocalTypeOK
    <2>2. UNCHANGED <<subs, closed, publishing>>
      BY <1>4 DEF HandlerResolves, HandlerRejects
    <2>3. dispatch' \in [Message -> [Subscriber -> Fates]]
      <3>1. /\ [dispatch EXCEPT ![m][s] = "handled"] \in [Message -> [Subscriber -> Fates]]
            /\ [dispatch EXCEPT ![m][s] = "dead"] \in [Message -> [Subscriber -> Fates]]
        <4>1. "handled" \in Fates /\ "dead" \in Fates
          OBVIOUS
        <4> HIDE DEF Fates
        <4> QED BY <2>1, <4>1, SetOne
      <3> HIDE DEF Fates
      <3> QED BY <1>4, <2>1, <3>1 DEF HandlerResolves, HandlerRejects
    <2>4. attempt' \in [Message -> [Subscriber -> 1 .. LocalAttempts]]
      <3>1. CASE UNCHANGED attempt
        BY <2>1, <3>1
      <3>2. CASE attempt[m][s] < LocalAttempts /\ attempt' = [attempt EXCEPT ![m][s] = @ + 1]
        <4>1. attempt[m] \in [Subscriber -> 1 .. LocalAttempts]
          BY <2>1
        <4>2. attempt[m][s] + 1 \in 1 .. LocalAttempts
          BY <3>2, <4>1, LocalAttemptsAssumption
        <4>3. [attempt EXCEPT ![m][s] = attempt[m][s] + 1]
                 \in [Message -> [Subscriber -> 1 .. LocalAttempts]]
          BY <2>1, <4>2, SetOne
        <4> QED BY <3>2, <4>3
      <3> QED BY <1>4, <3>1, <3>2 DEF HandlerResolves, HandlerRejects
    <2> QED BY <2>2, <2>3, <2>4 DEF LocalTypeOK
  <1>5. CASE UNCHANGED localVars
    BY <1>5 DEF localVars, LocalTypeOK
  <1> QED BY <1>1, <1>2, <1>3, <1>4, <1>5 DEF LocalNext

(* For any number of events, subscriptions and attempts: the variables of  *)
(* the in-memory bus keep their types.                                     *)
THEOREM LocalTypeInvariant == LocalSpec => []LocalTypeOK
  <1>1. LocalInit => LocalTypeOK
    <2>1. 1 \in 1 .. LocalAttempts
      BY LocalAttemptsAssumption
    <2>2. ASSUME NEW S, NEW v \in S
          PROVE  [m \in Message |-> [s \in Subscriber |-> v]] \in [Message -> [Subscriber -> S]]
      BY Zenon
    <2>3. "none" \in {"none", "running", "handled", "dead"}
      OBVIOUS
    <2> SUFFICES ASSUME LocalInit PROVE LocalTypeOK
      OBVIOUS
    <2>4. dispatch \in [Message -> [Subscriber -> {"none", "running", "handled", "dead"}]]
      BY <2>2, <2>3 DEF LocalInit
    <2>5. attempt \in [Message -> [Subscriber -> 1 .. LocalAttempts]]
      BY <2>1, <2>2 DEF LocalInit
    <2> QED BY <2>4, <2>5 DEF LocalInit, LocalTypeOK
  <1> QED BY <1>1, LocalTypeStep, PTL DEF LocalSpec

LEMMA SubscriptionMoves ==
    ASSUME LocalTypeOK, NEW s \in Subscriber, UNCHANGED <<publishing, dispatch>>,
           subs' \in [Subscriber -> {"new", "on", "off"}]
    PROVE  Port(s)!Next \/ UNCHANGED Port(s)!delivery
  <1>1. \A m \in Message : LocalFate(m, s)' = LocalFate(m, s)
    BY DEF LocalFate
  <1>2. [m \in Message |-> LocalFate(m, s)'] = [m \in Message |-> LocalFate(m, s)]
    BY <1>1
  <1>3. CASE subs[s] # "on" /\ subs'[s] = "on"
    <2>1. Port(s)!Subscribe
      BY <1>2, <1>3 DEF Port!Subscribe
    <2> QED BY <2>1 DEF Port!Next
  <1>4. CASE subs[s] = "on" /\ subs'[s] # "on"
    <2>1. Port(s)!Unsubscribe
      BY <1>2, <1>4 DEF Port!Unsubscribe
    <2> QED BY <2>1 DEF Port!Next
  <1>5. CASE (subs'[s] = "on") <=> (subs[s] = "on")
    <2>1. (subs'[s] = "on") = (subs[s] = "on")
      BY <1>5
    <2> QED BY <1>2, <2>1 DEF Port!delivery
  <1> QED BY <1>3, <1>4, <1>5

(* Publishing settles, for each subscription, whether the event is due.    *)
LEMMA PublishedTo ==
    ASSUME LocalTypeOK, NEW s \in Subscriber, NEW m \in Message, PublishLocal(m)
    PROVE  Port(s)!Next
  <1> DEFINE fates == [e \in Message |-> LocalFate(e, s)]
             fatesAfter == [e \in Message |-> LocalFate(e, s)']
             outcome == IF subs[s] = "on" THEN "due" ELSE "missed"
  <1>1. LocalFate(m, s) = "absent"
    BY DEF PublishLocal, LocalFate
  <1>2. publishing'[m] # "absent"
    BY DEF PublishLocal, LocalTypeOK
  <1>3. dispatch'[m][s] = IF subs[s] = "on" THEN "running" ELSE "none"
    BY DEF PublishLocal, LocalTypeOK
  <1>4. LocalFate(m, s)' = outcome
    BY <1>2, <1>3 DEF LocalFate
  <1>5. ASSUME NEW e \in Message, e # m PROVE LocalFate(e, s)' = LocalFate(e, s)
    <2>1. publishing'[e] = publishing[e] /\ dispatch'[e] = dispatch[e]
      BY <1>5 DEF PublishLocal, LocalTypeOK
    <2> QED BY <2>1 DEF LocalFate
  <1>6. fatesAfter = [fates EXCEPT ![m] = outcome] /\ fates[m] = "absent"
    BY <1>1, <1>4, <1>5
  <1>7. subs' = subs
    BY DEF PublishLocal
  <1>8. Port(s)!Publish(m)
    BY <1>6, <1>7 DEF Port!Publish
  <1> QED BY <1>8 DEF Port!Next

(* A handler that ends settles the event for its own subscription.         *)
LEMMA HandledFor ==
    ASSUME LocalTypeOK, NEW s \in Subscriber, NEW m \in Message, NEW t \in Subscriber,
           HandlerResolves(m, t) \/ HandlerRejects(m, t),
           \A e \in Message : dispatch[e][s] # "none" => publishing[e] # "absent"
    PROVE  Port(s)!Next \/ UNCHANGED Port(s)!delivery
  <1> DEFINE fates == [e \in Message |-> LocalFate(e, s)]
             fatesAfter == [e \in Message |-> LocalFate(e, s)']
  <1>1. /\ UNCHANGED <<subs, publishing>>
        /\ dispatch[m][t] = "running"
        /\ \/ dispatch' = dispatch
           \/ \E end \in {"handled", "dead"} : dispatch' = [dispatch EXCEPT ![m][t] = end]
    BY DEF HandlerResolves, HandlerRejects
  <1>2. CASE dispatch' = dispatch
    BY <1>1, <1>2, SubscriptionMoves DEF LocalTypeOK
  <1>3. ASSUME NEW end \in {"handled", "dead"}, dispatch' = [dispatch EXCEPT ![m][t] = end]
        PROVE  Port(s)!Next \/ UNCHANGED Port(s)!delivery
    <2>1. /\ \A e \in Message : e # m => dispatch'[e] = dispatch[e]
          /\ dispatch'[m] = [dispatch[m] EXCEPT ![t] = end]
          /\ dispatch[m] \in [Subscriber -> {"none", "running", "handled", "dead"}]
      BY <1>3 DEF LocalTypeOK
    <2>2. ASSUME NEW e \in Message, e # m PROVE LocalFate(e, s)' = LocalFate(e, s)
      BY <1>1, <2>1, <2>2 DEF LocalFate
    <2>3. CASE t # s
      <3>1. dispatch'[m][s] = dispatch[m][s]
        BY <2>1, <2>3
      <3>2. LocalFate(m, s)' = LocalFate(m, s)
        BY <1>1, <3>1 DEF LocalFate
      <3>3. fatesAfter = fates
        BY <2>2, <3>2
      <3> QED BY <1>1, <3>3 DEF Port!delivery
    <2>4. CASE t = s
      <3>1. dispatch'[m][s] = end
        BY <2>1, <2>4
      <3>2. LocalFate(m, s) = "due" /\ LocalFate(m, s)' = end
        BY <1>1, <1>3, <2>4, <3>1 DEF LocalFate
      <3>3. fatesAfter = [fates EXCEPT ![m] = end] /\ fates[m] = "due"
        BY <2>2, <3>2
      <3>4. Port(s)!Settle(m)
        BY <1>1, <3>3 DEF Port!Settle, Port!Settled
      <3> QED BY <3>4 DEF Port!Next
    <2> QED BY <2>3, <2>4
  <1> QED BY <1>1, <1>2, <1>3

(* What is dispatched has been published.                                  *)
DispatchOK ==
    \A m \in Message, s \in Subscriber :
        dispatch[m][s] # "none" => publishing[m] # "absent"

LEMMA DispatchStep ==
    LocalTypeOK /\ DispatchOK /\ [LocalNext]_localVars => DispatchOK'
  <1> SUFFICES ASSUME LocalTypeOK, DispatchOK, [LocalNext]_localVars,
                      NEW m \in Message, NEW s \in Subscriber
               PROVE  dispatch'[m][s] # "none" => publishing'[m] # "absent"
    BY DEF DispatchOK
  <1>1. CASE UNCHANGED <<publishing, dispatch>>
    BY <1>1 DEF DispatchOK
  <1>2. ASSUME NEW e \in Message, PublishLocal(e) \/ PublishReturns(e)
        PROVE  dispatch'[m][s] # "none" => publishing'[m] # "absent"
    <2>1. CASE m = e
      BY <1>2, <2>1 DEF PublishLocal, PublishReturns, LocalTypeOK
    <2>2. CASE m # e
      BY <1>2, <2>2 DEF PublishLocal, PublishReturns, LocalTypeOK, DispatchOK
    <2> QED BY <2>1, <2>2
  <1>3. ASSUME NEW e \in Message, NEW t \in Subscriber,
               HandlerResolves(e, t) \/ HandlerRejects(e, t)
        PROVE  dispatch'[m][s] # "none" => publishing'[m] # "absent"
    <2>1. publishing' = publishing /\ dispatch[e][t] = "running"
      BY <1>3 DEF HandlerResolves, HandlerRejects
    <2>2. publishing[e] # "absent"
      BY <2>1 DEF DispatchOK
    <2>3. CASE m = e
      BY <2>1, <2>2, <2>3
    <2>4. CASE m # e
      <3>1. dispatch'[m] = dispatch[m]
        BY <1>3, <2>4 DEF HandlerResolves, HandlerRejects, LocalTypeOK
      <3> QED BY <2>1, <3>1 DEF DispatchOK
    <2> QED BY <2>3, <2>4
  <1> QED BY <1>1, <1>2, <1>3
       DEF LocalNext, localVars, CloseLocal, SubscribeLocal, UnsubscribeLocal

LEMMA LocalPortStep ==
    ASSUME LocalTypeOK, LocalTypeOK', DispatchOK, [LocalNext]_localVars, NEW s \in Subscriber
    PROVE  Port(s)!Next \/ UNCHANGED Port(s)!delivery
  <1>1. CASE UNCHANGED <<publishing, dispatch>>
    BY <1>1, SubscriptionMoves DEF LocalTypeOK
  <1>2. ASSUME NEW m \in Message, PublishLocal(m)
        PROVE  Port(s)!Next
    BY <1>2, PublishedTo
  <1>3. ASSUME NEW m \in Message, PublishReturns(m)
        PROVE  UNCHANGED Port(s)!delivery
    <2>1. /\ UNCHANGED <<subs, dispatch>>
          /\ \A e \in Message : (publishing'[e] = "absent") <=> (publishing[e] = "absent")
      BY <1>3 DEF PublishReturns, LocalTypeOK
    <2>2. \A e \in Message : LocalFate(e, s)' = LocalFate(e, s)
      BY <2>1 DEF LocalFate
    <2>3. [e \in Message |-> LocalFate(e, s)'] = [e \in Message |-> LocalFate(e, s)]
      BY <2>2
    <2> QED BY <2>1, <2>3 DEF Port!delivery
  <1>4. ASSUME NEW m \in Message, NEW t \in Subscriber,
               HandlerResolves(m, t) \/ HandlerRejects(m, t)
        PROVE  Port(s)!Next \/ UNCHANGED Port(s)!delivery
    BY <1>4, HandledFor DEF DispatchOK
  <1> QED BY <1>1, <1>2, <1>3, <1>4
       DEF LocalNext, localVars, CloseLocal, SubscribeLocal, UnsubscribeLocal

(* For any number of events, subscriptions and attempts, every             *)
(* subscription of the in-memory bus sees the delivery port: what is       *)
(* published while it lasts is due to it, and stays due until its handler  *)
(* succeeded or used up its attempts.                                      *)
THEOREM LocalBusIsPort == LocalSpec => LocalImplementsPort
  <1> DEFINE PortStart == \A s \in Subscriber : Port(s)!Init
             PortStep == \A s \in Subscriber : Port(s)!Next \/ UNCHANGED Port(s)!delivery
  <1>1. LocalInit => PortStart
    BY DEF LocalInit, LocalFate, Port!Init
  <1>2. LocalInit => DispatchOK
    BY DEF LocalInit, DispatchOK
  <1>3. LocalTypeOK /\ LocalTypeOK' /\ DispatchOK /\ [LocalNext]_localVars => PortStep
    BY LocalPortStep
  <1>4. LocalTypeOK /\ LocalTypeOK' /\ DispatchOK /\ [LocalNext]_localVars
           => [PortStep]_localVars
    BY <1>3
  <1> HIDE DEF PortStart, PortStep
  <1>5. LocalSpec => PortStart /\ [][PortStep]_localVars
    BY <1>1, <1>2, <1>4, LocalTypeInvariant, DispatchStep, PTL DEF LocalSpec
  <1> QED BY <1>5 DEF LocalImplementsPort, PortStart, PortStep
=============================================================================
