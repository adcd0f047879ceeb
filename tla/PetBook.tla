------------------------------- MODULE PetBook -------------------------------
(***************************************************************************)
(* The pets, the identities devices report for them, the events attributed *)
(* to them and the reference photos of their faces: ai/pets.py,            *)
(* web/api/pets.py, the pet tables of events/store.py, and the ingestion   *)
(* of one event by mqtt/bridge.py or http/handlers/stubs.py.               *)
(*                                                                         *)
(* Every call to the store is an await, so a request is a sequence of      *)
(* steps between which other requests and reports run.  A request keeps    *)
(* in its record what it has read: acting on it later is acting on what    *)
(* was true then.                                                          *)
(*                                                                         *)
(* An identity is a pet's own row id or a foreign one, which the vendor's  *)
(* cloud gave the device before.  Names, weights and the devices a pet is  *)
(* assigned to are left out.                                               *)
(***************************************************************************)
EXTENDS Integers, FiniteSets

CONSTANTS
  Pets,       \* row ids of pets, 1..n, never used twice (autoincrement)
  Foreign,    \* identities that are not row ids
  Offered,    \* identities that the user puts into a pet's list
  Reports,    \* event_uids
  RefOf,      \* the identity that each report carries
  FaceIds,    \* row ids of faces, 1..n, never used twice
  MAX_FACES_PER_PET,
  Requests,   \* requests that may be under way at once
  MaxRequests,\* bound: requests in a behaviour
  MaxKills    \* bound: kills of the add-on

Refs == Pets \cup Foreign

ASSUME PetIds ==
  /\ Pets \subseteq Nat \ {0} /\ {1, 2} \subseteq Pets
  /\ Foreign \subseteq Nat \ {0} /\ Pets \cap Foreign = {}
ASSUME ReportRefs == RefOf \in [Reports -> Refs] /\ Offered \subseteq Refs
ASSUME Caps == MAX_FACES_PER_PET \in Nat /\ FaceIds \subseteq Nat \ {0}

VARIABLES
  pets,      \* the rows of the table pets
  mintedPets,\* the last row id given to a pet
  aliases,   \* device_pet_ids_json of each pet
  event,     \* pet_id of each event's row
  ingest,    \* pet_id that an ingestion has resolved and is about to store
  faces,     \* the rows of the table pet_faces
  mintedFaces,
  photo,     \* the faces whose file is on disk
  request,   \* the panel's requests
  started, kills,  \* bounds
  overlapped,\* history: two writers of the book were under way at once
  cut        \* history: faces whose deletion was cut short by a kill

vars == <<pets, mintedPets, aliases, event, ingest, faces, mintedFaces, photo,
          request, started, kills, overlapped, cut>>
book == <<pets, mintedPets, aliases, event>>
album == <<faces, mintedFaces, photo>>

NoPet == 0
NoRow == -1
NotRunning == -2
NoFace == [pet |-> NoPet, path |-> FALSE]

Idle == [pc |-> "idle", pet |-> NoPet, drop |-> {}, take |-> {}, ref |-> 0,
         others |-> {}, other |-> NoPet, read |-> {}, face |-> 0]

(* resolve_pet_ref(): the first row whose id is the identity, or whose list *)
(* holds it.                                                                *)
Resolve(ref) ==
  LET known == {p \in pets : p = ref \/ ref \in aliases[p]}
  IN IF known = {} THEN NoPet ELSE CHOOSE p \in known : \A q \in known : p <= q

(* pets_claiming_ref(): the rows whose list holds the identity.             *)
Claiming(ref) == {p \in pets : ref \in aliases[p]}

BookSteps == {"update", "reread", "unbind", "claim", "read", "write", "bind",
              "unlink", "rows", "create", "alias", "bindnew"}
FaceSteps == {"upload", "store", "path", "unstore"}
Writing(r) == request[r].pc \in BookSteps
Overlap ==
  \E r \in Requests : Writing(r)
    /\ \/ \E q \in Requests \ {r} : Writing(q)
       \/ \E u \in Reports : ingest[u] # NotRunning

TypeOK ==
  /\ pets \subseteq Pets /\ mintedPets \in {0} \cup Pets
  /\ aliases \in [Pets -> SUBSET Refs]
  /\ event \in [Reports -> Pets \cup {NoPet, NoRow}]
  /\ ingest \in [Reports -> Pets \cup {NoPet, NotRunning}]
  /\ faces \in [FaceIds -> [pet : Pets \cup {NoPet}, path : BOOLEAN]]
  /\ photo \subseteq FaceIds /\ cut \subseteq FaceIds
  /\ \A r \in Requests :
       /\ request[r].pc \in BookSteps \cup FaceSteps \cup {"idle", "face", "facerow"}
       /\ request[r].face \in {0} \cup FaceIds
       /\ request[r].pc \in BookSteps \ {"create"} => request[r].pet \in Pets
       /\ request[r].pc \in {"read", "write", "bind", "bindnew"} => request[r].ref \in Refs
  /\ overlapped \in BOOLEAN

-----------------------------------------------------------------------------
(* Small steps of a request's record, and the watch on overlapping writers. *)
Begin(r, with) ==
  /\ request[r].pc = "idle" /\ started < MaxRequests
  /\ request' = [request EXCEPT ![r] = with] /\ started' = started + 1
Go(r, with) == request' = [request EXCEPT ![r] = with] /\ UNCHANGED started
At(r, pc) == request[r].pc = pc
Watch == overlapped' = (overlapped \/ Overlap') /\ UNCHANGED <<kills, cut>>

Attribute(ref, p) ==
  event' = [u \in Reports |-> IF event[u] # NoRow /\ RefOf[u] = ref THEN p ELSE event[u]]

(* api_pet_detail, POST with device_pet_ids: the list is read before it is  *)
(* replaced, since what was taken off it has to be unbound.                 *)
EditBegins(r) ==
  \E p \in pets, wanted \in SUBSET Offered :
    /\ Begin(r, [Idle EXCEPT !.pc = "update", !.pet = p,
                             !.drop = aliases[p] \ wanted, !.take = wanted])
    /\ UNCHANGED <<book, album, ingest>> /\ Watch

EditUpdates(r) ==
  /\ At(r, "update")
  /\ LET me == request[r] IN
     IF me.pet \in pets
     THEN aliases' = [aliases EXCEPT ![me.pet] = me.take] /\ Go(r, [me EXCEPT !.pc = "reread"])
     ELSE UNCHANGED aliases /\ Go(r, Idle)
  /\ UNCHANGED <<pets, mintedPets, event, album, ingest>> /\ Watch

EditRereads(r) ==
  /\ At(r, "reread")
  /\ Go(r, IF request[r].pet \in pets THEN [request[r] EXCEPT !.pc = "unbind"] ELSE Idle)
  /\ UNCHANGED <<book, album, ingest>> /\ Watch

(* A variant of EditUnbinds that leaves the history where it is.            *)
EditUnbindsNothing(r) ==
  /\ At(r, "unbind")
  /\ Go(r, [request[r] EXCEPT !.pc = "claim", !.drop = {}])
  /\ UNCHANGED <<book, album, ingest>> /\ Watch

EditUnbinds(r) ==
  /\ At(r, "unbind")
  /\ LET me == request[r] IN
     \/ \E ref \in me.drop :
          /\ Attribute(ref, NoPet)
          /\ Go(r, [me EXCEPT !.drop = @ \ {ref}])
     \/ /\ me.drop = {} /\ UNCHANGED event
        /\ Go(r, [me EXCEPT !.pc = "claim"])
  /\ UNCHANGED <<pets, mintedPets, aliases, album, ingest>> /\ Watch

(* For each wanted identity: who else claims it, one read and one write for *)
(* each of those, then the history.                                         *)
EditClaims(r) ==
  /\ At(r, "claim")
  /\ LET me == request[r] IN
     \/ \E ref \in me.take :
          Go(r, [me EXCEPT !.pc = "read", !.ref = ref, !.take = @ \ {ref},
                           !.others = Claiming(ref) \ {me.pet}])
     \/ me.take = {} /\ Go(r, Idle)
  /\ UNCHANGED <<book, album, ingest>> /\ Watch

EditReadsOther(r) ==
  /\ At(r, "read")
  /\ LET me == request[r] IN
     \/ \E o \in me.others :
          Go(r, [me EXCEPT !.pc = "write", !.others = @ \ {o}, !.other = o,
                           !.read = IF o \in pets THEN aliases[o] ELSE {}])
     \/ me.others = {} /\ Go(r, [me EXCEPT !.pc = "bind"])
  /\ UNCHANGED <<book, album, ingest>> /\ Watch

EditStripsOther(r) ==
  /\ At(r, "write")
  /\ LET me == request[r] IN
     /\ aliases' = IF me.other \in pets
                   THEN [aliases EXCEPT ![me.other] = me.read \ {me.ref}] ELSE aliases
     /\ Go(r, [me EXCEPT !.pc = "read", !.read = {}, !.other = NoPet])
  /\ UNCHANGED <<pets, mintedPets, event, album, ingest>> /\ Watch

EditBinds(r) ==
  /\ At(r, "bind")
  /\ Attribute(request[r].ref, request[r].pet)
  /\ Go(r, [request[r] EXCEPT !.pc = "claim"])
  /\ UNCHANGED <<pets, mintedPets, aliases, album, ingest>> /\ Watch

(* api_pets_import: one pet that the vendor's cloud recognises under `ref`. *)
(* It gets a row, the identity as its alias, the history, and its photos.   *)
ImportBegins(r) ==
  \E ref \in Foreign :
    /\ Resolve(ref) = NoPet
    /\ Begin(r, [Idle EXCEPT !.pc = "create", !.ref = ref])
    /\ UNCHANGED <<book, album, ingest>> /\ Watch

(* A variant of ImportCreates that goes on without the id of the row.       *)
ImportCreatesUnnamed(r) ==
  /\ At(r, "create") /\ mintedPets + 1 \in Pets
  /\ mintedPets' = mintedPets + 1
  /\ pets' = pets \cup {mintedPets'}
  /\ Go(r, [request[r] EXCEPT !.pc = "bindnew"])
  /\ UNCHANGED <<aliases, event, album, ingest>> /\ Watch

ImportCreates(r) ==
  /\ At(r, "create") /\ mintedPets + 1 \in Pets
  /\ mintedPets' = mintedPets + 1
  /\ pets' = pets \cup {mintedPets'}
  /\ Go(r, [request[r] EXCEPT !.pc = "alias", !.pet = mintedPets'])
  /\ UNCHANGED <<aliases, event, album, ingest>> /\ Watch

ImportNames(r) ==
  /\ At(r, "alias")
  /\ LET me == request[r] IN
     /\ aliases' = IF me.pet \in pets THEN [aliases EXCEPT ![me.pet] = {me.ref}] ELSE aliases
     /\ Go(r, [me EXCEPT !.pc = "bindnew"])
  /\ UNCHANGED <<pets, mintedPets, event, album, ingest>> /\ Watch

ImportBinds(r) ==
  /\ At(r, "bindnew")
  /\ Attribute(request[r].ref, request[r].pet)
  /\ \/ Go(r, [Idle EXCEPT !.pc = "upload", !.pet = request[r].pet])
     \/ Go(r, Idle)
  /\ UNCHANGED <<pets, mintedPets, aliases, album, ingest>> /\ Watch

(* PetRegistry.delete(): the photos on disk first, then the rows. The       *)
(* events keep the pet's id.                                                *)
DeleteBegins(r) ==
  \E p \in pets :
    /\ Begin(r, [Idle EXCEPT !.pc = "unlink", !.pet = p])
    /\ UNCHANGED <<book, album, ingest>> /\ Watch

DeleteUnlinks(r) ==
  /\ At(r, "unlink")
  /\ photo' = photo \ {f \in FaceIds : faces[f].pet = request[r].pet /\ faces[f].path}
  /\ Go(r, [request[r] EXCEPT !.pc = "rows"])
  /\ UNCHANGED <<book, faces, mintedFaces, ingest>> /\ Watch

DeleteRows(r) ==
  /\ At(r, "rows")
  /\ LET p == request[r].pet IN
     /\ pets' = pets \ {p}
     /\ aliases' = [aliases EXCEPT ![p] = {}]
     /\ faces' = [f \in FaceIds |-> IF faces[f].pet = p THEN NoFace ELSE faces[f]]
  /\ Go(r, Idle)
  /\ UNCHANGED <<mintedPets, event, mintedFaces, photo, ingest>> /\ Watch

FacesOf(p) == {f \in FaceIds : faces[f].pet = p}

(* discern_pic_payload(): the photos that a device is told to fetch.        *)
DiscernPic(p) == {f \in FacesOf(p) : faces[f].path}

(* add_face() behind api_pet_faces, which counts the photos beforehand; the *)
(* store counts them again in the transaction that adds the row.            *)
UploadBegins(r) ==
  \E p \in pets :
    /\ Cardinality(FacesOf(p)) < MAX_FACES_PER_PET
    /\ Begin(r, [Idle EXCEPT !.pc = "upload", !.pet = p])
    /\ UNCHANGED <<book, album, ingest>> /\ Watch

UploadAddsRow(r) ==
  /\ At(r, "upload")
  /\ LET me == request[r] IN
     IF Cardinality(FacesOf(me.pet)) >= MAX_FACES_PER_PET
     THEN Go(r, Idle) /\ UNCHANGED <<faces, mintedFaces>>
     ELSE /\ mintedFaces + 1 \in FaceIds
          /\ mintedFaces' = mintedFaces + 1
          /\ faces' = [faces EXCEPT ![mintedFaces'] = [pet |-> me.pet, path |-> FALSE]]
          /\ Go(r, [me EXCEPT !.pc = "store", !.face = mintedFaces'])
  /\ UNCHANGED <<book, photo, ingest>> /\ Watch

UploadWritesFile(r) ==
  /\ At(r, "store")
  /\ photo' = photo \cup {request[r].face}
  /\ Go(r, [request[r] EXCEPT !.pc = "path"])
  /\ UNCHANGED <<book, faces, mintedFaces, ingest>> /\ Watch

(* A variant of UploadFails that goes on as if the file were there.         *)
UploadFailsUnseen(r) ==
  /\ At(r, "store")
  /\ Go(r, [request[r] EXCEPT !.pc = "path"])
  /\ UNCHANGED <<book, album, ingest>> /\ Watch

UploadFails(r) ==
  /\ At(r, "store")
  /\ Go(r, [request[r] EXCEPT !.pc = "unstore"])
  /\ UNCHANGED <<book, album, ingest>> /\ Watch

UploadDropsRow(r) ==
  /\ At(r, "unstore")
  /\ faces' = [faces EXCEPT ![request[r].face] = NoFace]
  /\ Go(r, Idle)
  /\ UNCHANGED <<book, mintedFaces, photo, ingest>> /\ Watch

UploadSetsPath(r) ==
  /\ At(r, "path")
  /\ LET f == request[r].face IN
     faces' = IF faces[f] # NoFace THEN [faces EXCEPT ![f].path = TRUE] ELSE faces
  /\ Go(r, Idle)
  /\ UNCHANGED <<book, mintedFaces, photo, ingest>> /\ Watch

(* api_pet_face_detail: delete_face() reads the row, removes the file that  *)
(* the row names, and only then the row.                                    *)
FaceDeleteBegins(r) ==
  \E f \in FaceIds :
    /\ faces[f] # NoFace
    /\ Begin(r, [Idle EXCEPT !.pc = "face", !.face = f])
    /\ UNCHANGED <<book, album, ingest>> /\ Watch

FaceUnlinks(r) ==
  /\ At(r, "face")
  /\ LET f == request[r].face IN
     /\ photo' = IF faces[f].path THEN photo \ {f} ELSE photo
     /\ Go(r, IF faces[f] = NoFace THEN Idle ELSE [request[r] EXCEPT !.pc = "facerow"])
  /\ UNCHANGED <<book, faces, mintedFaces, ingest>> /\ Watch

FaceDropsRow(r) ==
  /\ At(r, "facerow")
  /\ faces' = [faces EXCEPT ![request[r].face] = NoFace]
  /\ Go(r, Idle)
  /\ UNCHANGED <<book, mintedFaces, photo, ingest>> /\ Watch

(* An event report, by either transport: resolve, then upsert.  A report    *)
(* that arrives again finds its row and sets pet_id anew.  A device knows a *)
(* row id from us alone, so only once the row was made.                     *)
ReportResolves(u) ==
  /\ ingest[u] = NotRunning /\ (RefOf[u] \in Foreign \/ RefOf[u] <= mintedPets)
  /\ ingest' = [ingest EXCEPT ![u] = Resolve(RefOf[u])]
  /\ UNCHANGED <<book, album, request, started>> /\ Watch

ReportStores(u) ==
  /\ ingest[u] # NotRunning
  /\ event' = [event EXCEPT ![u] = ingest[u]]
  /\ ingest' = [ingest EXCEPT ![u] = NotRunning]
  /\ UNCHANGED <<pets, mintedPets, aliases, album, request, started>> /\ Watch

(* A kill ends every request and ingestion where it is.                     *)
Kill ==
  /\ kills < MaxKills /\ kills' = kills + 1
  /\ request' = [r \in Requests |-> Idle]
  /\ ingest' = [u \in Reports |-> NotRunning]
  /\ overlapped' = (overlapped \/ \E r \in Requests : Writing(r))
  /\ cut' = cut \cup {f \in FaceIds : \E r \in Requests :
                         \/ At(r, "rows") /\ faces[f].pet = request[r].pet
                         \/ At(r, "facerow") /\ request[r].face = f}
  /\ UNCHANGED <<book, album, started>>

Init ==
  /\ pets = {p \in Pets : p <= 2} /\ mintedPets = 2
  /\ \E owner \in [Foreign -> pets \cup {NoPet}] :
       aliases = [p \in Pets |-> {ref \in Foreign : owner[ref] = p}]
  /\ event = [u \in Reports |-> NoRow] /\ ingest = [u \in Reports |-> NotRunning]
  /\ faces = [f \in FaceIds |-> NoFace] /\ mintedFaces = 0 /\ photo = {}
  /\ request = [r \in Requests |-> Idle] /\ started = 0 /\ kills = 0
  /\ overlapped = FALSE /\ cut = {}

Request(r) ==
  \/ EditBegins(r) \/ EditUpdates(r) \/ EditRereads(r) \/ EditUnbinds(r) \/ EditClaims(r)
  \/ EditReadsOther(r) \/ EditStripsOther(r) \/ EditBinds(r)
  \/ ImportBegins(r) \/ ImportCreates(r) \/ ImportNames(r) \/ ImportBinds(r)
  \/ DeleteBegins(r) \/ DeleteUnlinks(r) \/ DeleteRows(r)
  \/ UploadBegins(r) \/ UploadAddsRow(r) \/ UploadWritesFile(r) \/ UploadFails(r)
  \/ UploadDropsRow(r) \/ UploadSetsPath(r)
  \/ FaceDeleteBegins(r) \/ FaceUnlinks(r) \/ FaceDropsRow(r)

Next ==
  \/ \E r \in Requests : Request(r)
  \/ \E u \in Reports : ReportResolves(u) \/ ReportStores(u)
  \/ Kill

Spec == Init /\ [][Next]_vars

-----------------------------------------------------------------------------
AtRest == (\A r \in Requests : request[r] = Idle) /\ (\A u \in Reports : ingest[u] = NotRunning)

(* "The two would diverge permanently" (web/api/pets.py:129-132): when      *)
(* nothing is under way, every event belongs to the pet that a new report   *)
(* of its identity would be given to, or to a pet that was deleted since.   *)
HistoryAgrees ==
  AtRest /\ ~overlapped =>
    \A u \in Reports :
      LET now == Resolve(RefOf[u]) IN
      \/ event[u] \in {NoRow, now}
      \/ now = NoPet /\ event[u] \in Pets \ pets

(* A photo that the devices are told to fetch is there, unless it is being  *)
(* deleted or a kill cut its deletion short: the URL would answer 404 for   *)
(* ever, and the pet be recognised by nobody.  And however many uploads run *)
(* side by side, a pet has at most MAX_FACES_PER_PET photos.                *)
PhotosInOrder ==
  /\ \A p \in pets : \A f \in DiscernPic(p) :
       \/ f \in photo \cup cut
       \/ \E r \in Requests :
            \/ At(r, "rows") /\ request[r].pet = p
            \/ At(r, "facerow") /\ request[r].face = f
  /\ \A p \in Pets : Cardinality(FacesOf(p)) <= MAX_FACES_PER_PET
=============================================================================
