------------------------------ MODULE QrImages -------------------------------
(***************************************************************************)
(* Payment QR codes of a hostel and platform QR codes: rows that name an   *)
(* image, and the images in Cloudinary.  A new image is uploaded, the old  *)
(* one's deletion begins in the background, and only then is the row       *)
(* saved, from an entity that was read before all of this.  Titles,        *)
(* accounts and texts are left out; an image that is not an upload (a URL, *)
(* a generated demo code) is External.                                     *)
(***************************************************************************)
EXTENDS Handlers

CONSTANTS QrRows,       \* rows there may be
          PlatformRows, \* those of platform_qrs
          Assets,       \* images uploaded, each once
          External      \* the URL of an image kept elsewhere

ASSUME QrAssumption == PlatformRows \subseteq QrRows
ASSUME NoImageAssumption ==
  None \notin Assets /\ External \notin Assets /\ External # None

VARIABLES qrs,      \* payment_qrs and platform_qrs
          assets,   \* images in Cloudinary
          doomed,   \* images whose deletion has been sent
          fresh,    \* images not uploaded yet
          qrReq,    \* what each request asks for and where it is
          staleRows \* history: rows whose image is from an entity that was old

qrVars == <<qrs, assets, doomed, fresh, qrReq, staleRows>>

QrRow == [url: Assets \cup {External}, publicId: Assets \cup {None}]
QrOps == {"create file", "create url", "file", "url", "toggle", "demo", "delete"}
QrRequest == [stage: {"unsent", "found", "ready", "parting", "done", "refused", "failed"},
              op: QrOps \cup {None}, row: QrRows \cup {None}, entity: QrRow \cup {None},
              old: Assets \cup {None}, reads: SUBSET QrRows, raced: BOOLEAN]

QrTypeOK ==
  /\ qrs \in [QrRows -> QrRow \cup {None}]
  /\ assets \subseteq Assets /\ doomed \subseteq Assets /\ fresh \subseteq Assets
  /\ qrReq \in [Requests -> QrRequest]
  /\ staleRows \subseteq QrRows

NoQrRequest == [stage |-> "unsent", op |-> None, row |-> None, entity |-> None,
                old |-> None, reads |-> {}, raced |-> FALSE]

QrInit ==
  /\ qrs = [i \in QrRows |-> None]
  /\ assets = {} /\ doomed = {} /\ fresh = Assets
  /\ qrReq = [q \in Requests |-> NoQrRequest]
  /\ staleRows = {}

-----------------------------------------------------------------------------
QrAt(q, stage, ops) == qrReq[q].stage = stage /\ qrReq[q].op \in ops
QrGoesOn(q, r, items) == qrReq' = GoesOn(qrReq, q, r, items)
QrOnly(q, r) == QrGoesOn(q, r, {}) /\ UNCHANGED <<qrs, assets, doomed, fresh, staleRows>>

(* createPaymentQr, and create of a platform method that has no row yet.   *)
StartQr(q, i, op) ==
  /\ qrReq[q].stage = "unsent" /\ qrs[i] = None
  /\ QrOnly(q, [NoQrRequest EXCEPT !.stage = "found", !.op = op, !.row = i,
                                   !.entity = [url |-> External, publicId |-> None]])

(* The entity as it is; the demo codes are of hostels only.                *)
FindQr(q, i, op) ==
  /\ qrReq[q].stage = "unsent" /\ qrs[i] # None
  /\ op = "demo" => i \notin PlatformRows
  /\ QrOnly(q, [NoQrRequest EXCEPT !.stage = "found", !.op = op, !.row = i,
                                   !.entity = qrs[i], !.reads = {i}])

(* uploadPaymentQrCode, uploadPlatformQrCode: the new image is there, and  *)
(* the previous one's deletion is not waited for.                          *)
UploadKeepingUrl(q, a) ==
  LET old == qrReq[q].entity.publicId
  IN  /\ QrAt(q, "found", {"create file", "file"}) /\ a \in fresh
      /\ assets' = assets \cup {a} /\ fresh' = fresh \ {a}
      /\ doomed' = doomed \cup ({old} \ {None})
      /\ QrGoesOn(q, [qrReq[q] EXCEPT !.stage = "ready", !.old = old,
                                      !.entity.url = IF old = None THEN a ELSE @,
                                      !.entity.publicId = a], {})
      /\ UNCHANGED <<qrs, staleRows>>
Upload(q, a) ==
  LET old == qrReq[q].entity.publicId
  IN  /\ QrAt(q, "found", {"create file", "file"}) /\ a \in fresh
      /\ assets' = assets \cup {a} /\ fresh' = fresh \ {a}
      /\ doomed' = doomed \cup ({old} \ {None})
      /\ QrGoesOn(q, [qrReq[q] EXCEPT !.stage = "ready", !.old = old,
                                      !.entity = [url |-> a, publicId |-> a]], {})
      /\ UNCHANGED <<qrs, staleRows>>

(* A URL in place of the image: a platform QR lets go of the upload, a     *)
(* payment QR keeps its publicId, as the demo codes do.                    *)
Changed(r) ==
  IF r.op \in {"url", "demo"}
  THEN [url |-> External,
        publicId |-> IF r.row \in PlatformRows THEN None ELSE r.entity.publicId]
  ELSE r.entity

SaveQr(q) ==
  LET r == qrReq[q]
  IN  /\ \/ QrAt(q, "ready", {"create file", "file"})
         \/ QrAt(q, "found", {"create url", "url", "toggle", "demo"})
      /\ r.op \in {"create file", "create url"} => qrs[r.row] = None
      /\ qrs' = [qrs EXCEPT ![r.row] = Changed(r)]
      /\ staleRows' = IF r.raced THEN staleRows \cup {r.row}
                      ELSE IF r.op = "toggle" THEN staleRows ELSE staleRows \ {r.row}
      /\ QrGoesOn(q, Over(r, "done"), {r.row})
      /\ UNCHANGED <<assets, doomed, fresh>>

(* The deletion of a row: of its image first.                              *)
PartWithImage(q) ==
  LET old == qrReq[q].entity.publicId
  IN  /\ QrAt(q, "found", {"delete"})
      /\ doomed' = doomed \cup ({old} \ {None})
      /\ QrGoesOn(q, [qrReq[q] EXCEPT !.stage = "parting", !.old = old], {})
      /\ UNCHANGED <<qrs, assets, fresh, staleRows>>

DeleteQr(q) ==
  LET r == qrReq[q]
  IN  /\ QrAt(q, "parting", {"delete"})
      /\ qrs' = [qrs EXCEPT ![r.row] = None]
      /\ QrGoesOn(q, Over(r, "done"), {r.row})
      /\ UNCHANGED <<assets, doomed, fresh, staleRows>>

FailQr(q) ==
  /\ qrReq[q].stage \in {"found", "ready", "parting"}
  /\ QrOnly(q, Over(qrReq[q], "failed"))

(* The background deletion is done, or fails with a warning.               *)
AssetGoes(a, deleted) ==
  /\ a \in doomed
  /\ doomed' = doomed \ {a}
  /\ assets' = IF deleted THEN assets \ {a} ELSE assets
  /\ UNCHANGED <<qrs, fresh, qrReq, staleRows>>

QrNext ==
  \/ \E q \in Requests :
       \/ \E i \in QrRows :
            \/ StartQr(q, i, "create file") \/ StartQr(q, i, "create url")
            \/ \E op \in {"file", "url", "toggle", "demo", "delete"} : FindQr(q, i, op)
       \/ \E a \in Assets : Upload(q, a)
       \/ SaveQr(q) \/ PartWithImage(q) \/ DeleteQr(q) \/ FailQr(q)
  \/ \E a \in Assets, deleted \in BOOLEAN : AssetGoes(a, deleted)

QrSpec == QrInit /\ [][QrNext]_qrVars

-----------------------------------------------------------------------------
(* A request that began the deletion of image a before the row let it go,  *)
(* and has not saved the row, or never did.                                *)
LetsGo(q, a) == qrReq[q].old = a /\ qrReq[q].stage \in {"ready", "parting", "failed"}

(* Residents scan an image that is there: the image a row names exists and *)
(* nobody is deleting it, but while its replacement is being saved, after  *)
(* a replacement or deletion that failed there, or when the row was saved  *)
(* from an entity that was old.                                            *)
RowsKeepTheirImages ==
  \A i \in QrRows \ staleRows :
    qrs[i] # None /\ qrs[i].url \in Assets =>
      \/ qrs[i].url \in assets \ doomed
      \/ \E q \in Requests : LetsGo(q, qrs[i].url)

-----------------------------------------------------------------------------
(* What the proofs rest on.  An image that is scanned is an upload the row *)
(* names...                                                                *)
Scannable(entity) == entity.url \in Assets => entity.publicId = entity.url

(* ...an upload belongs to one row, whose requests alone know of it...     *)
RowNames(i, a) == qrs[i] # None /\ qrs[i].publicId = a
QrRequestNames(q, a) == qrReq[q].stage # "unsent" /\ qrReq[q].entity.publicId = a
Belongs(a, i) ==
  \/ RowNames(i, a)
  \/ \E q \in Requests : qrReq[q].row = i /\ (QrRequestNames(q, a) \/ qrReq[q].old = a)

(* ...and before it is saved to one request...                             *)
UploadIsNew(q) ==
  LET a == qrReq[q].entity.publicId
  IN  /\ a \in assets \ doomed /\ qrReq[q].entity.url = a
      /\ \A i \in QrRows : ~RowNames(i, a)
      /\ \A p \in Requests \ {q} : ~QrRequestNames(p, a)

(* ...whose entity is the row as it stands, unless it was overtaken.       *)
QrKnows(q) ==
  LET r == qrReq[q]
  IN  /\ r.stage = "unsent" => r.entity = None /\ r.old = None
      /\ r.stage # "unsent" =>
           /\ r.op \in QrOps /\ r.row \in QrRows /\ r.entity \in QrRow
           /\ Scannable(r.entity)
           /\ r.op = "create url" => r.entity.url = External
      /\ QrAt(q, "ready", {"create file", "file"}) => UploadIsNew(q)
      /\ QrAt(q, "found", {"file", "url", "toggle", "demo", "delete"}) =>
           /\ r.row \in r.reads
           /\ r.raced \/ (qrs[r.row] # None /\ qrs[r.row] = r.entity)

OfOneRow ==
  \A a \in Assets, i \in QrRows :
    Belongs(a, i) => a \notin fresh /\ \A j \in QrRows : Belongs(a, j) => i = j

QrInv ==
  /\ QrTypeOK
  /\ fresh \cap doomed = {}
  /\ \A i \in QrRows : qrs[i] # None => Scannable(qrs[i])
  /\ OfOneRow
  /\ \A q \in Requests : QrKnows(q)
  /\ RowsKeepTheirImages
=============================================================================
