------------------------------ MODULE Stickers ------------------------------
(***************************************************************************)
(* The stickers: the library of stickers/stickers.go with its file and its *)
(* pictures, the upload to an image host of imagehost_bridge.go, and the   *)
(* two-step delivery of qq/sticker.go with its cache of file_info.  The    *)
(* panel's requests, one sticker on its way to a chat and restarts         *)
(* interleave; every write, request and answer can fail, and an answer can *)
(* be lost after the platform has acted.                                   *)
(*                                                                         *)
(* A picture stands for its bytes: an uploaded file is the picture in it,  *)
(* the link the image host gives for it shows the same picture, and        *)
(* External is a link somebody else keeps.  A file belongs to one entry:   *)
(* the panel names no file of its own (static/app.js).  Scene, note and    *)
(* the switch of an entry, the built-in pictures (which are never removed) *)
(* and the CDN prefix are left out.                                        *)
(***************************************************************************)
EXTENDS Integers, FiniteSets, Sequences

CONSTANTS Ids, Files, Requests,
          External,     \* a link outside the image host
          Fingerprint,  \* of a picture: its length and crc32Of, which looks at the
                        \* first and the last 64 bytes only; several may agree
          None,
          MaxStickers,  \* maxStickers (500)
          MaxSends,     \* sendMaxAttempts (3): how often the queue tries a sticker
          MaxCached     \* stickerCacheMaxEntries (128)

ASSUME StickersAssumption ==
  /\ DOMAIN Fingerprint = Files
  /\ External \notin Files /\ None \notin Files \cup {External} \cup Ids
  /\ MaxStickers \in Nat \ {0} /\ MaxSends \in Nat \ {0} /\ MaxCached \in Nat \ {0}

VARIABLES
  lib,     \* the library in memory: its items by id, and settings.Mode
  store,   \* stickers.json
  media,   \* the files under uploads/
  stuck,   \* the write lock is held by a goroutine that asks for it again
  req,     \* req[r]: an upload through the panel
  at,      \* where the sender is
  pay,     \* the SendPayload in its hands
  left,    \* the sources it has not tried
  info,    \* the picture behind the file_info in hand
  cache,   \* stickerCache: the picture behind the file_info of a key
  sends,   \* how often the queue has tried this sticker
  result,  \* what the last try returned
  copies,  \* history: how often this sticker has reached the chat
  shown,   \* history: the pictures it showed
  lost     \* history: an answer to one of its posts was lost

library == <<lib, store, media, stuck>>
delivery == <<at, pay, left, info, cache, sends, result, copies, shown, lost>>
stickersVars == <<library, req, delivery>>

Pictures == Files \cup {External}
Modes == {"auto", "local", "url"}
Item == [source : {"local", "url"}, link : Pictures \cup {None}, file : Files \cup {None}]
Local(f) == [source |-> "local", link |-> None, file |-> f]
Linked(l) == [source |-> "url", link |-> l, file |-> None]
Request == [step : {"idle", "add", "look", "host", "update", "remove"},
            id : Ids \cup {None}, file : Files \cup {None}, host : BOOLEAN, drop : BOOLEAN]
Idle == [step |-> "idle", id |-> None, file |-> None, host |-> FALSE, drop |-> FALSE]
NoPay == [id |-> None, link |-> None, data |-> None]
Without(f, x) == [y \in DOMAIN f \ {x} |-> f[y]]
Put(f, x, v) == [y \in DOMAIN f \cup {x} |-> IF y = x THEN v ELSE f[y]]
With(l, i, e) == [l EXCEPT !.items = Put(@, i, e)]

StickersInit ==
  /\ lib = [items |-> << >>, mode |-> "auto"] /\ store = lib
  /\ media = {} /\ stuck = FALSE
  /\ req = [r \in Requests |-> Idle]
  /\ at = "idle" /\ pay = NoPay /\ left = << >> /\ info = None /\ cache = << >>
  /\ sends = 0 /\ result = "none" /\ copies = 0 /\ shown = {} /\ lost = FALSE

-----------------------------------------------------------------------------
(* Slips the code could contain; PROJECT.json names the property that would *)
(* notice each.                                                             *)

\* The file goes before the entry.
DeleteFileFirst(i) ==
  LET e == lib.items[i] IN
  /\ ~stuck /\ i \in DOMAIN lib.items
  /\ media' = IF e.source = "local" THEN media \ {e.file} ELSE media
  /\ LET l == [lib EXCEPT !.items = Without(@, i)] IN
     \/ lib' = l /\ store' = l
     \/ UNCHANGED <<lib, store>>
  /\ UNCHANGED <<stuck, req, delivery>>

\* The cache goes by the id of the entry.
KeyById(p) == <<p.id, "data", None>>

\* Without withUploadFlag the platform sends what it is given.
UploadSends == TRUE

-----------------------------------------------------------------------------
(* The library: every change is made and saved under the write lock.        *)

\* The change is saved, or taken back.
Change(l) == \/ lib' = l /\ store' = l
             \/ UNCHANGED <<lib, store>>

\* Whether the change was saved; when nothing changes it does not matter.
Saved(l) == lib' = l /\ store' = l
NotSaved == UNCHANGED <<lib, store>>

Set(r, q) == req' = [req EXCEPT ![r] = q]
Done(r) == Set(r, Idle)
Go(r, step) == Set(r, [req[r] EXCEPT !.step = step])

\* newID is random: no file, entry or request has the name it gives.  (An id that
\* was deleted may be given again: Add takes one from its caller, too.)
Fresh(f) == f \notin media /\ \A r \in Requests : req[r].file # f
FreshId(i) == i \notin DOMAIN lib.items /\ \A r \in Requests : req[r].id # i

\* handleStickerUpload: SaveMedia writes the picture under a new name.
SaveMedia(r, f) ==
  /\ req[r].step = "idle" /\ ~stuck /\ Fresh(f)
  /\ media' = media \cup {f}
  /\ \E host \in BOOLEAN : \E drop \in {FALSE, host} :
       Set(r, [Idle EXCEPT !.step = "add", !.file = f, !.host = host, !.drop = drop])
  /\ UNCHANGED <<lib, store, stuck, delivery>>

Room == Cardinality(DOMAIN lib.items) < MaxStickers

\* The picture becomes a local entry, which is promoted next if an image host
\* is wanted and ready.  A picture that finds no room stays behind.
AddUpload(r) ==
  /\ req[r].step = "add" /\ ~stuck
  /\ \/ \E i \in Ids :
          /\ Room /\ FreshId(i) /\ Saved(With(lib, i, Local(req[r].file)))
          /\ IF req[r].host THEN Set(r, [req[r] EXCEPT !.step = "look", !.id = i]) ELSE Done(r)
     \/ NotSaved /\ Done(r)
  /\ UNCHANGED <<media, stuck, delivery>>

\* UploadLocal reads the entry and then its file.
Look(r) ==
  LET i == req[r].id IN
  /\ req[r].step = "look" /\ ~stuck
  /\ IF i \in DOMAIN lib.items /\ lib.items[i].file \in media
     THEN Set(r, [req[r] EXCEPT !.step = "host", !.file = lib.items[i].file]) ELSE Done(r)
  /\ UNCHANGED <<library, delivery>>

\* imagehost.Upload gives a link, or an error.
HostAnswers(r) ==
  /\ req[r].step = "host" /\ (Go(r, "update") \/ Done(r))
  /\ UNCHANGED <<library, delivery>>

Promoted(e, r) == [source |-> "url", link |-> req[r].file,
                   file |-> IF req[r].drop THEN None ELSE e.file]

\* PromoteToImageHost: the link is stored first.
Promote(r) ==
  LET i == req[r].id IN
  /\ req[r].step = "update" /\ ~stuck
  /\ \/ /\ i \in DOMAIN lib.items
        /\ Saved(With(lib, i, Promoted(lib.items[i], r)))
        /\ IF req[r].drop THEN Go(r, "remove") ELSE Done(r)
     \/ NotSaved /\ Done(r)
  /\ UNCHANGED <<media, stuck, delivery>>

\* Then the file goes, without the lock.
DropLocal(r) ==
  /\ req[r].step = "remove" /\ Done(r)
  /\ media' \in {media, media \ {req[r].file}}
  /\ UNCHANGED <<lib, store, stuck, delivery>>

\* A direct link is added under an id the user chose.
AddLink(i) ==
  /\ ~stuck /\ Room /\ i \notin DOMAIN lib.items /\ Change(With(lib, i, Linked(External)))
  /\ UNCHANGED <<media, stuck, req, delivery>>

\* Update: an entry is given a link, or goes back to its local file.
Update(i) ==
  /\ ~stuck /\ i \in DOMAIN lib.items
  /\ LET e == lib.items[i] IN
     \/ Change(With(lib, i, [e EXCEPT !.source = "url", !.link = External]))
     \/ e.file \in media /\ Change(With(lib, i, Local(e.file)))
  /\ UNCHANGED <<media, stuck, req, delivery>>

\* Delete saves, then removes the file of a local entry.  If that fails it
\* logs, and logMessage waits for the lock that Delete holds.
Delete(i) ==
  LET e == lib.items[i] IN
  /\ ~stuck /\ i \in DOMAIN lib.items
  /\ \/ /\ Saved([lib EXCEPT !.items = Without(@, i)])
        /\ \/ /\ media' = IF e.source = "local" THEN media \ {e.file} ELSE media
              /\ UNCHANGED stuck
           \/ e.source = "local" /\ stuck' = TRUE /\ UNCHANGED media
     \/ NotSaved /\ UNCHANGED <<media, stuck>>
  /\ UNCHANGED <<req, delivery>>

UpdateSettings(m) ==
  /\ ~stuck /\ Change([lib EXCEPT !.mode = m])
  /\ UNCHANGED <<media, stuck, req, delivery>>

\* normalizeStore: a file that is gone is forgotten; an entry with neither
\* link nor file goes.
Normalized(l) ==
  LET Present(e) == [e EXCEPT !.file = IF @ \in media THEN @ ELSE None]
      Sendable(e) == e.source = "url" \/ e.file \in media
  IN [l EXCEPT !.items =
        [i \in {j \in DOMAIN l.items : Sendable(l.items[j])} |-> Present(l.items[i])]]

\* The process dies at any moment and Load reads the library again.  If it
\* cannot save it, it logs under the write lock, which it never gives back.
Restart ==
  /\ lib' = Normalized(store)
  /\ \/ store' = lib' /\ stuck' = FALSE
     \/ UNCHANGED store /\ stuck' = TRUE
  /\ req' = [r \in Requests |-> Idle]
  /\ at' = "idle" /\ pay' = NoPay /\ left' = << >> /\ info' = None /\ cache' = << >>
  /\ sends' = 0 /\ result' = "none" /\ copies' = 0 /\ shown' = {} /\ lost' = FALSE
  /\ UNCHANGED media

-----------------------------------------------------------------------------
(* One sticker on its way to a chat.                                        *)

\* Pick copies an entry under the read lock.
Pick(i) ==
  /\ at = "idle" /\ ~stuck /\ i \in DOMAIN lib.items
  /\ at' = "picked"
  /\ pay' = [id |-> i, link |-> lib.items[i].link, data |-> lib.items[i].file]
  /\ sends' = 0 /\ result' = "none" /\ copies' = 0 /\ shown' = {} /\ lost' = FALSE
  /\ UNCHANGED <<library, req, left, info, cache>>

\* Sendable reads the mode, then the file, and gives up without a source.
Sendable ==
  LET data == IF pay.data \in media THEN pay.data ELSE None IN
  /\ at = "picked" /\ ~stuck
  /\ IF pay.link = None /\ (data = None \/ lib.mode = "url")
     THEN at' = "idle" /\ pay' = NoPay
     ELSE at' = "lookup" /\ pay' = [pay EXCEPT !.data = data]
  /\ UNCHANGED <<library, req, left, info, cache, sends, result, copies, shown, lost>>

\* stickerCacheKey: the link stands for the picture; without one, the
\* fingerprint of its bytes does.
Key(p) ==
  IF p.link # None THEN <<p.id, "link", p.link>> ELSE <<p.id, "data", Fingerprint[p.data]>>

\* lookupFileInfo; an entry may have expired.
Lookup ==
  /\ at = "lookup" /\ sends' = sends + 1
  /\ \/ /\ Key(pay) \in DOMAIN cache
        /\ at' = "cached" /\ info' = cache[Key(pay)] /\ UNCHANGED cache
     \/ at' = "sources" /\ cache' = Without(cache, Key(pay)) /\ UNCHANGED info
  /\ UNCHANGED <<library, req, pay, left, result, copies, shown, lost>>

Reaches(p) == copies' = copies + 1 /\ shown' = shown \cup {p}
Refused == UNCHANGED <<copies, shown, lost>>

Return(r) ==
  /\ result' = r /\ left' = << >> /\ info' = None
  /\ at' = "returned"

\* The next source, or the old interface when there is none.
NextSource ==
  /\ info' = None /\ UNCHANGED result
  /\ at' = IF left' = << >> THEN "oneshot" ELSE "upload"

\* sendRichMediaMessage with the file_info of the cache, which the platform
\* may no longer know.
PostCached ==
  /\ at = "cached"
  /\ \/ /\ Reaches(info) /\ UNCHANGED lost /\ Return("sent") /\ UNCHANGED cache
     \/ /\ Refused \/ (Reaches(info) /\ lost' = TRUE)
        /\ cache' = Without(cache, Key(pay)) /\ at' = "sources" /\ info' = None
        /\ UNCHANGED <<left, result>>
  /\ UNCHANGED <<library, req, pay, sends>>

\* The link goes first, then the bytes, as far as the mode allows: it is read
\* here again.  (Without either there is no third way: the branch that would
\* fetch the link itself asks for a mode in which the link has been taken.)
Allowed ==
  (IF pay.link # None /\ lib.mode # "local" THEN <<pay.link>> ELSE << >>) \o
  (IF pay.data # None /\ lib.mode # "url" THEN <<pay.data>> ELSE << >>)

Sources ==
  /\ at = "sources" /\ ~stuck
  /\ left' = Allowed
  /\ IF Allowed = << >> THEN result' = "failed" /\ at' = "returned"
                        ELSE at' = "upload" /\ UNCHANGED result
  /\ UNCHANGED <<library, req, pay, info, cache, sends, copies, shown, lost>>

\* uploadRichMedia with withUploadFlag: the platform keeps the picture and
\* returns its file_info.  It may refuse a link it cannot fetch.
UploadPosts == FALSE

Upload ==
  /\ at = "upload"
  /\ \/ /\ info' = Head(left) /\ at' = "post" /\ UNCHANGED <<left, result>>
        /\ IF UploadPosts THEN Reaches(Head(left)) ELSE UNCHANGED <<copies, shown>>
     \/ left' = Tail(left) /\ NextSource /\ UNCHANGED <<copies, shown>>
  /\ UNCHANGED <<library, req, pay, cache, sends, lost>>

\* evictStickerCacheLocked: of a full cache what has expired goes, and half of
\* the rest if that is not enough.  Which ones depends on their ages.
Halves(K, L) == Cardinality(K) = Cardinality(L) - Cardinality(L) \div 2
MayStay(K, c) ==
  \/ Cardinality(K) < MaxCached
  \/ \E L \in SUBSET DOMAIN c : K \subseteq L /\ Cardinality(L) >= MaxCached /\ Halves(K, L)
Evict(c) ==
  IF Cardinality(DOMAIN c) < MaxCached THEN {c}
  ELSE {[k \in K |-> c[k]] : K \in {K \in SUBSET DOMAIN c : MayStay(K, c)}}

\* storeFileInfo.
Store(k, p) == \E c \in Evict(cache) : cache' = Put(c, k, p)

\* sendRichMediaMessage, and storeFileInfo once it is answered.
Post ==
  /\ at = "post"
  /\ \/ /\ Reaches(info) /\ UNCHANGED lost /\ Store(Key(pay), info) /\ Return("sent")
     \/ /\ Refused \/ (Reaches(info) /\ lost' = TRUE)
        /\ left' = Tail(left) /\ NextSource /\ UNCHANGED cache
  /\ UNCHANGED <<library, req, pay, sends>>

\* sendStickerOneShot: the link if there is one, whatever the mode.
OneShot ==
  LET p == IF pay.link # None THEN pay.link ELSE pay.data IN
  /\ at = "oneshot"
  /\ \/ Reaches(p) /\ UNCHANGED lost /\ Return("sent")
     \/ (Refused \/ (Reaches(p) /\ lost' = TRUE)) /\ Return("failed")
  /\ UNCHANGED <<library, req, pay, cache, sends>>

\* The queue tries a sticker that failed again, or is done with it.
Settle ==
  /\ at = "returned"
  /\ IF result = "failed" /\ sends < MaxSends
     THEN at' = "lookup" /\ UNCHANGED pay ELSE at' = "idle" /\ pay' = NoPay
  /\ IF at' = "idle" THEN sends' = 0 /\ copies' = 0 /\ shown' = {} /\ lost' = FALSE
                     ELSE UNCHANGED <<sends, copies, shown, lost>>
  /\ result' = "none"
  /\ UNCHANGED <<library, req, left, info, cache>>

-----------------------------------------------------------------------------
Panel ==
  \/ \E r \in Requests : \/ \E f \in Files : SaveMedia(r, f)
                         \/ AddUpload(r) \/ Look(r) \/ HostAnswers(r)
                         \/ Promote(r) \/ DropLocal(r)
  \/ \E i \in Ids : AddLink(i) \/ Update(i) \/ Delete(i)
  \/ \E m \in Modes : UpdateSettings(m)

Sender ==
  \/ \E i \in Ids : Pick(i)
  \/ Sendable \/ Lookup \/ PostCached \/ Sources \/ Upload \/ Post \/ OneShot \/ Settle

StickersNext == Panel \/ Sender \/ Restart

StickersSpec == StickersInit /\ [][StickersNext]_stickersVars

-----------------------------------------------------------------------------
(* Every variable has its type. *)
Places == {"idle", "picked", "lookup", "cached", "sources", "upload", "post", "oneshot",
           "returned"}

Library == {[items |-> f, mode |-> m] :
              f \in UNION {[I -> Item] : I \in SUBSET Ids}, m \in Modes}

LibraryType ==
  /\ lib \in Library /\ store \in Library /\ media \subseteq Files /\ stuck \in BOOLEAN
  /\ req \in [Requests -> Request]

DeliveryType ==
  /\ at \in Places /\ result \in {"none", "sent", "failed"} /\ lost \in BOOLEAN
  /\ pay \in [id : Ids \cup {None}, link : Pictures \cup {None}, data : Files \cup {None}]
  /\ left \in Seq(Pictures) /\ Len(left) <= 2 /\ info \in Pictures \cup {None}
  /\ \A k \in DOMAIN cache : cache[k] \in Pictures
  /\ sends \in 0..MaxSends /\ copies \in Nat /\ shown \subseteq Pictures

StickersTypeOK == LibraryType /\ DeliveryType

(* A local entry has its file, on the disk as in memory, after any crash and *)
(* whatever becomes of a promotion or a deletion: nothing is dropped by the  *)
(* next Load.                                                                *)
FilesKept ==
  \A i \in DOMAIN store.items :
    store.items[i].source = "local" => store.items[i].file \in media

\* What may be seen of a payload: its link or its bytes, what its link's key had
\* when the entry was another local copy, or bytes of the same fingerprint.
Shows(p, picture) ==
  \/ picture \in {p.link, p.data}
  \/ picture \in Files /\ (p.link # None \/ Fingerprint[picture] = Fingerprint[p.data])

(* A sticker shows the link or the bytes its payload has, and, since the     *)
(* cache knows a picture by its key only, nothing but what shares the key:   *)
(* behind a link an earlier local copy, without one a picture of the same    *)
(* fingerprint (stickerCacheKey, sticker.go:69).                             *)
CacheShowsPicked == \A p \in shown : Shows(pay, p)

(* An edit shows at once: "the fingerprint of the content must be in the key *)
(* ... the old file_info is still that of the old picture" (sticker.go:67).  *)
(* It does if no two pictures have one fingerprint.                          *)
EditedPictureShown ==
  \A p \in shown : p \in {pay.link, pay.data} \/ (pay.link # None /\ p \in Files)

(* Nobody asks for the lock that he holds: "持有写锁，再去调 MediaPath 的     *)
(* RLock 会直接把自己锁死" (stickers.go:835) is why mediaPathLocked exists.   *)
NeverStuck == ~stuck

(* As long as no answer was lost, a sticker is in the chat once if the send  *)
(* succeeded and not at all if it failed, whatever was tried before.         *)
OneCopyUnlessLost ==
  at = "returned" /\ ~lost => copies = IF result = "sent" THEN 1 ELSE 0

-----------------------------------------------------------------------------
(* The inductive invariant. *)

\* Memory and file agree.  A file is there as long as an entry names it, and one
\* entry names it.
LibraryOK ==
  /\ lib = store
  /\ \A i \in DOMAIN store.items :
       LET e == store.items[i] IN
       /\ e.file # None => e.file \in media
       /\ e.source = "local" => e.file # None
       /\ \A j \in DOMAIN store.items \ {i} : e.file # None => store.items[j].file # e.file

\* No entry names a picture before it is added, nor after it was dropped; on
\* the way to the image host only the entry of the request does.
RequestOK(r) ==
  LET q == req[r]
      Named(i) == i \in DOMAIN store.items /\ store.items[i].file = q.file
  IN q # Idle =>
       /\ q.file # None
       /\ q.step = "add" => q.id = None /\ q.file \in media
       /\ q.step \in {"add", "remove"} => \A i \in Ids : ~Named(i)
       /\ q.step \in {"look", "host", "update", "remove"} => q.id # None
       /\ q.step \in {"look", "host", "update"} =>
            /\ \A i \in Ids : Named(i) => i = q.id
            /\ q.id \in DOMAIN store.items => store.items[q.id].file \in {None, q.file}

\* Two requests have neither an entry nor a file in common.
RequestsOK ==
  /\ \A r \in Requests : RequestOK(r)
  /\ \A r, s \in Requests : r # s => /\ req[r].id # None => req[s].id # req[r].id
                                     /\ req[r].file # None => req[s].file # req[r].file

CacheOK ==
  \A i \in Ids, l \in Pictures \cup {None}, d \in Files \cup {None} :
    LET p == [id |-> i, link |-> l, data |-> d]
    IN {l, d} # {None} /\ Key(p) \in DOMAIN cache => Shows(p, cache[Key(p)])

\* What the sender has in its hands at each place.
Trying == {"lookup", "cached", "sources", "upload", "post", "oneshot", "returned"}

SenderOK ==
  /\ at \in Trying => pay.id \in Ids /\ {pay.link, pay.data} # {None}
  /\ at \in {"cached", "post"} => info \in Pictures /\ Shows(pay, info)
  /\ at \in {"upload", "post"} <=> left # << >>
  /\ \A n \in DOMAIN left : left[n] \in {pay.link, pay.data}
  /\ at = "picked" => pay.id \in Ids
  /\ at \in {"idle", "picked"} => sends = 0 /\ copies = 0 /\ shown = {}
  /\ at = "lookup" => sends < MaxSends
  /\ at = "returned" <=> result # "none"
  /\ ~lost => copies = IF result = "sent" THEN 1 ELSE 0

StickersIInv == StickersTypeOK /\ LibraryOK /\ RequestsOK /\ CacheOK /\ SenderOK /\ CacheShowsPicked
=============================================================================
