------------------------------ MODULE PetProofs ------------------------------
(***************************************************************************)
(* The pets' book and album, for any number of pets, identities, reports,  *)
(* photos, requests side by side and kills: a photo that a device is told  *)
(* to fetch is there, and the history follows the identities.              *)
(***************************************************************************)
EXTENDS PetBook, FiniteSetTheorems, WellFoundedInduction, TLAPS

Steps == BookSteps \cup FaceSteps \cup {"idle", "face", "facerow"}
Uploads == {"store", "path", "unstore"}

RequestType ==
  [pc : Steps, pet : Pets \cup {NoPet}, drop : SUBSET Refs, take : SUBSET Refs,
   ref : Refs \cup {0}, others : SUBSET Pets, other : Pets \cup {NoPet},
   read : SUBSET Refs, face : {0} \cup FaceIds]

\* What a request needs at each of its steps.
Equipped(q) ==
  /\ q.pc \in (BookSteps \ {"create"}) \cup {"upload"} => q.pet \in Pets
  /\ q.pc \in {"read", "write", "bind", "bindnew"} => q.ref \in Refs
  /\ q.pc \in {"create", "alias", "bindnew"} => q.ref \in Foreign
  /\ q.pc = "write" => q.other \in Pets
  /\ q.pc \in Uploads \cup {"face", "facerow"} => q.face \in FaceIds

Fit == {q \in RequestType : Equipped(q)}

MoreTypes ==
  /\ request \in [Requests -> Fit] /\ mintedFaces \in Nat
  /\ started \in Nat /\ kills \in Nat

Types == TypeOK /\ MoreTypes

-----------------------------------------------------------------------------
(* Types                                                                   *)

LEMMA IdleIsFit == Idle \in Fit
BY DEF Idle, Fit, RequestType, Equipped, Steps, BookSteps, FaceSteps, Uploads, NoPet

\* The step of a request that is under way, for SUFFICES.
LEMMA GoKeeps ==
  ASSUME MoreTypes, NEW r \in Requests, NEW q \in Fit, Go(r, q) \/ Begin(r, q)
  PROVE  request' \in [Requests -> Fit] /\ started' \in Nat
BY DEF Go, Begin, MoreTypes

\* A change of the fields of a request that is fit.
LEMMA EditMoves ==
  ASSUME Types, NEW r \in Requests,
         \/ EditBegins(r) \/ EditUpdates(r) \/ EditRereads(r) \/ EditUnbinds(r)
         \/ EditClaims(r) \/ EditReadsOther(r) \/ EditStripsOther(r) \/ EditBinds(r)
  PROVE  request' \in [Requests -> Fit] /\ started' \in Nat
<1> USE DEF Types
<1>0. PICK me \in Fit : me = request[r]
  BY DEF MoreTypes
<1>1. CASE EditBegins(r)
  <2>1. PICK p \in Pets, wanted \in SUBSET Refs, dropped \in SUBSET Refs :
          Begin(r, [Idle EXCEPT !.pc = "update", !.pet = p, !.drop = dropped, !.take = wanted])
    BY <1>1, ReportRefs DEF EditBegins, TypeOK
  <2>2. [Idle EXCEPT !.pc = "update", !.pet = p, !.drop = dropped, !.take = wanted] \in Fit
    BY DEF Idle, Fit, RequestType, Equipped, Steps, BookSteps, Uploads, NoPet
  <2> QED BY <2>1, <2>2, GoKeeps
<1>2. CASE EditUpdates(r)
  <2>1. [me EXCEPT !.pc = "reread"] \in Fit
    BY <1>0, <1>2 DEF EditUpdates, At, Fit, RequestType, Equipped, Steps, BookSteps, Uploads
  <2> QED BY <1>0, <1>2, <2>1, IdleIsFit, GoKeeps DEF EditUpdates
<1>3. CASE EditRereads(r)
  <2>1. [me EXCEPT !.pc = "unbind"] \in Fit
    BY <1>0, <1>3 DEF EditRereads, At, Fit, RequestType, Equipped, Steps, BookSteps, Uploads
  <2> QED BY <1>0, <1>3, <2>1, IdleIsFit, GoKeeps DEF EditRereads
<1>4. CASE EditUnbinds(r)
  <2>1. me.pc = "unbind"
    BY <1>0, <1>4 DEF EditUnbinds, At
  <2>2. \A ref : [me EXCEPT !.drop = @ \ {ref}] \in Fit
    BY <2>1 DEF Fit, RequestType, Equipped, Steps, BookSteps, Uploads
  <2>3. [me EXCEPT !.pc = "claim"] \in Fit
    BY <2>1 DEF Fit, RequestType, Equipped, Steps, BookSteps, Uploads
  <2>4. \/ \E ref \in me.drop : Go(r, [me EXCEPT !.drop = @ \ {ref}])
        \/ Go(r, [me EXCEPT !.pc = "claim"])
    BY <1>0, <1>4 DEF EditUnbinds
  <2> QED BY <2>2, <2>3, <2>4, GoKeeps
<1>5. CASE EditClaims(r)
  <2>1. me.pc = "claim"
    BY <1>0, <1>5 DEF EditClaims, At
  <2>2. CASE Go(r, Idle)
    BY <2>2, IdleIsFit, GoKeeps
  <2>3. CASE \E ref \in me.take :
          Go(r, [me EXCEPT !.pc = "read", !.ref = ref, !.take = @ \ {ref},
                           !.others = Claiming(ref) \ {me.pet}])
    <3>1. PICK ref \in me.take, others \in SUBSET Pets :
            Go(r, [me EXCEPT !.pc = "read", !.ref = ref, !.take = @ \ {ref}, !.others = others])
      BY <2>3 DEF Claiming, TypeOK
    <3>2. [me EXCEPT !.pc = "read", !.ref = ref, !.take = @ \ {ref}, !.others = others] \in Fit
      BY <2>1 DEF Fit, RequestType, Equipped, Steps, BookSteps, Uploads
    <3> QED BY <3>1, <3>2, GoKeeps
  <2> QED BY <1>0, <1>5, <2>2, <2>3 DEF EditClaims
<1>6. CASE EditReadsOther(r)
  <2>1. me.pc = "read"
    BY <1>0, <1>6 DEF EditReadsOther, At
  <2>2. [me EXCEPT !.pc = "bind"] \in Fit
    BY <2>1 DEF Fit, RequestType, Equipped, Steps, BookSteps, Uploads
  <2>3. CASE Go(r, [me EXCEPT !.pc = "bind"])
    BY <2>2, <2>3, GoKeeps
  <2>4. CASE \E o \in me.others :
          Go(r, [me EXCEPT !.pc = "write", !.others = @ \ {o}, !.other = o,
                           !.read = IF o \in pets THEN aliases[o] ELSE {}])
    <3>1. PICK o \in me.others, read \in SUBSET Refs :
            Go(r, [me EXCEPT !.pc = "write", !.others = @ \ {o}, !.other = o, !.read = read])
      BY <2>4 DEF TypeOK
    <3>2. [me EXCEPT !.pc = "write", !.others = @ \ {o}, !.other = o, !.read = read] \in Fit
      BY <2>1 DEF Fit, RequestType, Equipped, Steps, BookSteps, Uploads
    <3> QED BY <3>1, <3>2, GoKeeps
  <2> QED BY <1>0, <1>6, <2>3, <2>4 DEF EditReadsOther
<1>7. CASE EditStripsOther(r)
  <2>1. [me EXCEPT !.pc = "read", !.read = {}, !.other = NoPet] \in Fit
    BY <1>0, <1>7, ZenonT(60) DEF EditStripsOther, At, Fit, RequestType, Equipped, Steps, BookSteps, Uploads
  <2> QED BY <1>0, <1>7, <2>1, GoKeeps DEF EditStripsOther
<1>8. CASE EditBinds(r)
  <2>1. [me EXCEPT !.pc = "claim"] \in Fit
    BY <1>0, <1>8 DEF EditBinds, At, Fit, RequestType, Equipped, Steps, BookSteps, Uploads
  <2> QED BY <1>0, <1>8, <2>1, GoKeeps DEF EditBinds
<1> QED BY <1>1, <1>2, <1>3, <1>4, <1>5, <1>6, <1>7, <1>8

LEMMA ImportMoves ==
  ASSUME Types, NEW r \in Requests,
         \/ ImportBegins(r) \/ ImportCreates(r) \/ ImportNames(r) \/ ImportBinds(r)
         \/ DeleteBegins(r) \/ DeleteUnlinks(r) \/ DeleteRows(r)
  PROVE  request' \in [Requests -> Fit] /\ started' \in Nat
<1> USE DEF Types
<1>0. PICK me \in Fit : me = request[r]
  BY DEF MoreTypes
<1>1. CASE ImportBegins(r)
  <2>1. PICK ref \in Foreign : Begin(r, [Idle EXCEPT !.pc = "create", !.ref = ref])
    BY <1>1 DEF ImportBegins
  <2>2. [Idle EXCEPT !.pc = "create", !.ref = ref] \in Fit
    BY DEF Idle, Fit, RequestType, Equipped, Steps, BookSteps, Uploads, NoPet, Refs
  <2> QED BY <2>1, <2>2, GoKeeps
<1>2. CASE ImportCreates(r)
  <2>1. PICK n \in Pets : n = mintedPets'
    BY <1>2 DEF ImportCreates
  <2>2. Go(r, [me EXCEPT !.pc = "alias", !.pet = n]) /\ me.pc = "create"
    BY <1>0, <1>2, <2>1 DEF ImportCreates, At
  <2>3. [me EXCEPT !.pc = "alias", !.pet = n] \in Fit
    BY <2>2 DEF Fit, RequestType, Equipped, Steps, BookSteps, Uploads
  <2> QED BY <2>2, <2>3, GoKeeps
<1>3. CASE ImportNames(r)
  <2>1. [me EXCEPT !.pc = "bindnew"] \in Fit
    BY <1>0, <1>3 DEF ImportNames, At, Fit, RequestType, Equipped, Steps, BookSteps, Uploads, Refs
  <2> QED BY <1>0, <1>3, <2>1, GoKeeps DEF ImportNames
<1>4. CASE ImportBinds(r)
  <2>1. [Idle EXCEPT !.pc = "upload", !.pet = me.pet] \in Fit
    BY <1>0, <1>4, ZenonT(60) DEF ImportBinds, At, Idle, Fit, RequestType, Equipped, Steps, BookSteps,
                      FaceSteps, Uploads, NoPet
  <2> QED BY <1>0, <1>4, <2>1, IdleIsFit, GoKeeps DEF ImportBinds
<1>5. CASE DeleteBegins(r)
  <2>1. PICK p \in Pets : Begin(r, [Idle EXCEPT !.pc = "unlink", !.pet = p])
    BY <1>5 DEF DeleteBegins, TypeOK
  <2>2. [Idle EXCEPT !.pc = "unlink", !.pet = p] \in Fit
    BY DEF Idle, Fit, RequestType, Equipped, Steps, BookSteps, Uploads, NoPet
  <2> QED BY <2>1, <2>2, GoKeeps
<1>6. CASE DeleteUnlinks(r)
  <2>1. [me EXCEPT !.pc = "rows"] \in Fit
    BY <1>0, <1>6 DEF DeleteUnlinks, At, Fit, RequestType, Equipped, Steps, BookSteps, Uploads
  <2> QED BY <1>0, <1>6, <2>1, GoKeeps DEF DeleteUnlinks
<1>7. CASE DeleteRows(r)
  BY <1>7, IdleIsFit, GoKeeps DEF DeleteRows
<1> QED BY <1>1, <1>2, <1>3, <1>4, <1>5, <1>6, <1>7

LEMMA FaceMoves ==
  ASSUME Types, NEW r \in Requests,
         \/ UploadBegins(r) \/ UploadAddsRow(r) \/ UploadWritesFile(r) \/ UploadFails(r)
         \/ UploadDropsRow(r) \/ UploadSetsPath(r)
         \/ FaceDeleteBegins(r) \/ FaceUnlinks(r) \/ FaceDropsRow(r)
  PROVE  request' \in [Requests -> Fit] /\ started' \in Nat
<1> USE DEF Types
<1>0. PICK me \in Fit : me = request[r]
  BY DEF MoreTypes
<1>1. CASE UploadBegins(r)
  <2>1. PICK p \in Pets : Begin(r, [Idle EXCEPT !.pc = "upload", !.pet = p])
    BY <1>1 DEF UploadBegins, TypeOK
  <2>2. [Idle EXCEPT !.pc = "upload", !.pet = p] \in Fit
    BY DEF Idle, Fit, RequestType, Equipped, Steps, BookSteps, FaceSteps, Uploads, NoPet
  <2> QED BY <2>1, <2>2, GoKeeps
<1>2. CASE UploadAddsRow(r)
  <2>1. me.pc = "upload"
    BY <1>0, <1>2 DEF UploadAddsRow, At
  <2>2. CASE Go(r, Idle)
    BY <2>2, IdleIsFit, GoKeeps
  <2>3. CASE mintedFaces' \in FaceIds /\ Go(r, [me EXCEPT !.pc = "store", !.face = mintedFaces'])
    <3>1. PICK f \in FaceIds : f = mintedFaces'
      BY <2>3
    <3>2. [me EXCEPT !.pc = "store", !.face = f] \in Fit
      BY <2>1 DEF Fit, RequestType, Equipped, Steps, BookSteps, FaceSteps, Uploads
    <3> QED BY <2>3, <3>1, <3>2, GoKeeps
  <2> QED BY <1>0, <1>2, <2>2, <2>3 DEF UploadAddsRow
<1>3. CASE UploadWritesFile(r)
  <2>1. [me EXCEPT !.pc = "path"] \in Fit
    BY <1>0, <1>3 DEF UploadWritesFile, At, Fit, RequestType, Equipped, Steps, BookSteps,
                      FaceSteps, Uploads
  <2> QED BY <1>0, <1>3, <2>1, GoKeeps DEF UploadWritesFile
<1>4. CASE UploadFails(r)
  <2>1. [me EXCEPT !.pc = "unstore"] \in Fit
    BY <1>0, <1>4 DEF UploadFails, At, Fit, RequestType, Equipped, Steps, BookSteps,
                      FaceSteps, Uploads
  <2> QED BY <1>0, <1>4, <2>1, GoKeeps DEF UploadFails
<1>5. CASE UploadDropsRow(r) \/ UploadSetsPath(r) \/ FaceDropsRow(r)
  BY <1>5, IdleIsFit, GoKeeps DEF UploadDropsRow, UploadSetsPath, FaceDropsRow
<1>6. CASE FaceDeleteBegins(r)
  <2>1. PICK f \in FaceIds : Begin(r, [Idle EXCEPT !.pc = "face", !.face = f])
    BY <1>6 DEF FaceDeleteBegins
  <2>2. [Idle EXCEPT !.pc = "face", !.face = f] \in Fit
    BY DEF Idle, Fit, RequestType, Equipped, Steps, BookSteps, FaceSteps, Uploads, NoPet
  <2> QED BY <2>1, <2>2, GoKeeps
<1>7. CASE FaceUnlinks(r)
  <2>1. [me EXCEPT !.pc = "facerow"] \in Fit
    BY <1>0, <1>7 DEF FaceUnlinks, At, Fit, RequestType, Equipped, Steps, BookSteps,
                      FaceSteps, Uploads
  <2> QED BY <1>0, <1>7, <2>1, IdleIsFit, GoKeeps DEF FaceUnlinks
<1> QED BY <1>1, <1>2, <1>3, <1>4, <1>5, <1>6, <1>7

\* resolve_pet_ref() answers with the lowest row that knows the identity.
Knowing(ref) == {p \in pets : p = ref \/ ref \in aliases[p]}

LEMMA ResolveKnows ==
  ASSUME TypeOK, NEW ref
  PROVE  IF Knowing(ref) = {} THEN Resolve(ref) = NoPet
         ELSE Resolve(ref) \in Knowing(ref) /\ Resolve(ref) \in Pets
<1>1. CASE Knowing(ref) = {}
  BY <1>1 DEF Resolve, Knowing
<1>2. CASE Knowing(ref) # {}
  <2>1. Knowing(ref) \subseteq Pets /\ Knowing(ref) \subseteq Nat
    BY PetIds DEF Knowing, TypeOK
  <2>2. IsWellFoundedOn(OpToRel(<, Nat), Nat)
    BY NatLessThanWellFounded
  <2>3. PICK p \in Knowing(ref) : \A q \in Knowing(ref) : ~(<<q, p>> \in OpToRel(<, Nat))
    BY <1>2, <2>1, <2>2, WFMin
  <2>4. ASSUME NEW q \in Knowing(ref) PROVE p <= q
    <3>1. p \in Nat /\ q \in Nat
      BY <2>1
    <3>2. ~(q < p)
      BY <2>3, <3>1 DEF OpToRel
    <3> QED BY <3>1, <3>2
  <2>5. Resolve(ref) = CHOOSE a \in Knowing(ref) : \A q \in Knowing(ref) : a <= q
    BY <1>2 DEF Resolve, Knowing
  <2> QED BY <1>2, <2>1, <2>4, <2>5
<1> QED BY <1>1, <1>2

LEMMA AttributeTypes ==
  ASSUME TypeOK, NEW ref, NEW p \in Pets \cup {NoPet}, Attribute(ref, p)
  PROVE  event' \in [Reports -> Pets \cup {NoPet, NoRow}]
BY DEF TypeOK, Attribute

LEMMA BookTypes ==
  ASSUME Types, NEW r \in Requests,
         \/ EditBegins(r) \/ EditUpdates(r) \/ EditRereads(r) \/ EditUnbinds(r)
         \/ EditClaims(r) \/ EditReadsOther(r) \/ EditStripsOther(r) \/ EditBinds(r)
         \/ ImportBegins(r) \/ ImportCreates(r) \/ ImportNames(r) \/ ImportBinds(r)
  PROVE  /\ pets' \subseteq Pets /\ mintedPets' \in {0} \cup Pets
         /\ aliases' \in [Pets -> SUBSET Refs]
         /\ event' \in [Reports -> Pets \cup {NoPet, NoRow}]
<1> USE DEF Types
<1>1. PICK me \in Fit : me = request[r]
  BY DEF MoreTypes
<1>2. CASE EditBegins(r) \/ EditRereads(r) \/ EditClaims(r) \/ EditReadsOther(r) \/ ImportBegins(r)
  BY <1>2 DEF TypeOK, EditBegins, EditRereads, EditClaims, EditReadsOther, ImportBegins, book
<1>3. CASE EditUpdates(r)
  BY <1>1, <1>3 DEF TypeOK, EditUpdates, Fit, RequestType
<1>4. CASE EditUnbinds(r)
  <2>1. event' = event \/ \E ref \in me.drop : Attribute(ref, NoPet)
    BY <1>1, <1>4 DEF EditUnbinds
  <2> QED BY <1>4, <2>1, AttributeTypes DEF TypeOK, EditUnbinds
<1>5. CASE EditStripsOther(r)
  BY <1>1, <1>5 DEF TypeOK, EditStripsOther, Fit, RequestType
<1>6. CASE EditBinds(r) \/ ImportBinds(r)
  <2>1. me.pet \in Pets
    BY <1>1, <1>6 DEF EditBinds, ImportBinds, At, Fit, Equipped, BookSteps
  <2> QED BY <1>1, <1>6, <2>1, AttributeTypes DEF TypeOK, EditBinds, ImportBinds
<1>7. CASE ImportCreates(r)
  BY <1>7 DEF TypeOK, ImportCreates
<1>8. CASE ImportNames(r)
  <2>1. me.ref \in Refs
    BY <1>1, <1>8 DEF ImportNames, At, Fit, Equipped, Refs
  <2> QED BY <1>1, <1>8, <2>1 DEF TypeOK, ImportNames
<1> QED BY <1>2, <1>3, <1>4, <1>5, <1>6, <1>7, <1>8

LEMMA AlbumTypes ==
  ASSUME Types, NEW r \in Requests,
         \/ DeleteBegins(r) \/ DeleteUnlinks(r) \/ DeleteRows(r)
         \/ UploadBegins(r) \/ UploadAddsRow(r) \/ UploadWritesFile(r) \/ UploadFails(r)
         \/ UploadDropsRow(r) \/ UploadSetsPath(r)
         \/ FaceDeleteBegins(r) \/ FaceUnlinks(r) \/ FaceDropsRow(r)
  PROVE  /\ pets' \subseteq Pets /\ mintedPets' = mintedPets /\ event' = event
         /\ aliases' \in [Pets -> SUBSET Refs] /\ mintedFaces' \in Nat
         /\ faces' \in [FaceIds -> [pet : Pets \cup {NoPet}, path : BOOLEAN]]
         /\ photo' \subseteq FaceIds
<1> USE DEF Types
<1>1. PICK me \in Fit : me = request[r]
  BY DEF MoreTypes
<1>2. CASE DeleteBegins(r) \/ UploadBegins(r) \/ UploadFails(r) \/ FaceDeleteBegins(r)
  BY <1>2 DEF TypeOK, MoreTypes, DeleteBegins, UploadBegins, UploadFails, FaceDeleteBegins, book, album
<1>3. CASE DeleteUnlinks(r) \/ FaceUnlinks(r)
  BY <1>3 DEF TypeOK, MoreTypes, DeleteUnlinks, FaceUnlinks, book
<1>4. CASE DeleteRows(r)
  BY <1>4 DEF TypeOK, MoreTypes, DeleteRows, NoFace
<1>5. CASE UploadAddsRow(r)
  <2>1. me.pet \in Pets
    BY <1>1, <1>5 DEF UploadAddsRow, At, Fit, Equipped
  <2>2. mintedFaces' \in Nat /\ UNCHANGED <<book, photo>>
    BY <1>5 DEF UploadAddsRow, MoreTypes
  <2>3. \/ faces' = faces
        \/ faces' = [faces EXCEPT ![mintedFaces'] = [pet |-> me.pet, path |-> FALSE]]
    BY <1>1, <1>5 DEF UploadAddsRow
  <2>4. PICK f : f = mintedFaces'
    OBVIOUS
  <2>5. faces' \in [FaceIds -> [pet : Pets \cup {NoPet}, path : BOOLEAN]]
    <3>1. PICK new \in [pet : Pets \cup {NoPet}, path : BOOLEAN] : new = [pet |-> me.pet, path |-> FALSE]
      BY <2>1
    <3>2. faces' = faces \/ faces' = [faces EXCEPT ![f] = new]
      BY <2>3, <2>4, <3>1
    <3> QED BY <3>2 DEF TypeOK
  <2> QED BY <2>2, <2>5 DEF TypeOK, book
<1>6. CASE UploadWritesFile(r)
  <2>1. me.face \in FaceIds
    BY <1>1, <1>6 DEF UploadWritesFile, At, Fit, Equipped, Uploads
  <2> QED BY <1>1, <1>6, <2>1 DEF TypeOK, MoreTypes, UploadWritesFile, book
<1>7. CASE UploadDropsRow(r) \/ FaceDropsRow(r)
  <2>1. UNCHANGED <<pets, mintedPets, event, aliases, mintedFaces, photo>>
    BY <1>7 DEF UploadDropsRow, FaceDropsRow, book
  <2>2. faces' = [faces EXCEPT ![me.face] = NoFace]
    BY <1>1, <1>7 DEF UploadDropsRow, FaceDropsRow
  <2> QED BY <2>1, <2>2 DEF TypeOK, MoreTypes, NoFace
<1>8. CASE UploadSetsPath(r)
  <2>1. me.face \in FaceIds
    BY <1>1, <1>8 DEF UploadSetsPath, At, Fit, Equipped, Uploads
  <2>2. faces' = faces \/ faces' = [faces EXCEPT ![me.face] = [faces[me.face] EXCEPT !.path = TRUE]]
    BY <1>1, <1>8 DEF UploadSetsPath
  <2>3. [faces[me.face] EXCEPT !.path = TRUE] \in [pet : Pets \cup {NoPet}, path : BOOLEAN]
    BY <2>1, ZenonT(60) DEF TypeOK
  <2>4. UNCHANGED <<pets, mintedPets, event, aliases, mintedFaces, photo>>
    BY <1>8 DEF UploadSetsPath, book
  <2> QED BY <2>1, <2>2, <2>3, <2>4 DEF TypeOK, MoreTypes
<1> QED BY <1>2, <1>3, <1>4, <1>5, <1>6, <1>7, <1>8

\* What the steps of requests have in common.
LEMMA RequestFrame ==
  ASSUME NEW r \in Requests, Request(r)
  PROVE  UNCHANGED <<ingest, kills, cut>> /\ overlapped' = (overlapped \/ Overlap')
BY DEF Request, Watch, EditBegins, EditUpdates, EditRereads, EditUnbinds, EditClaims,
       EditReadsOther, EditStripsOther, EditBinds, ImportBegins, ImportCreates, ImportNames,
       ImportBinds, DeleteBegins, DeleteUnlinks, DeleteRows, UploadBegins, UploadAddsRow,
       UploadWritesFile, UploadFails, UploadDropsRow, UploadSetsPath, FaceDeleteBegins,
       FaceUnlinks, FaceDropsRow

LEMMA RequestTypes ==
  ASSUME Types, NEW r \in Requests, Request(r)
  PROVE  Types'
<1>1. request' \in [Requests -> Fit] /\ started' \in Nat
  BY EditMoves, ImportMoves, FaceMoves DEF Request
<1>2. /\ pets' \subseteq Pets /\ mintedPets' \in {0} \cup Pets
      /\ aliases' \in [Pets -> SUBSET Refs]
      /\ event' \in [Reports -> Pets \cup {NoPet, NoRow}]
  BY BookTypes, AlbumTypes DEF Request, Types, TypeOK
<1>3. /\ faces' \in [FaceIds -> [pet : Pets \cup {NoPet}, path : BOOLEAN]]
      /\ photo' \subseteq FaceIds /\ mintedFaces' \in Nat
  <2>1. CASE UNCHANGED album
    BY <2>1 DEF album, Types, TypeOK, MoreTypes
  <2>2. CASE \/ DeleteBegins(r) \/ DeleteUnlinks(r) \/ DeleteRows(r)
             \/ UploadBegins(r) \/ UploadAddsRow(r) \/ UploadWritesFile(r) \/ UploadFails(r)
             \/ UploadDropsRow(r) \/ UploadSetsPath(r)
             \/ FaceDeleteBegins(r) \/ FaceUnlinks(r) \/ FaceDropsRow(r)
    BY <2>2, AlbumTypes DEF Types
  <2> QED BY <2>1, <2>2 DEF Request, EditBegins, EditUpdates, EditRereads, EditUnbinds,
             EditClaims, EditReadsOther, EditStripsOther, EditBinds, ImportBegins,
             ImportCreates, ImportNames, ImportBinds
<1>4. /\ ingest' = ingest /\ kills' = kills /\ cut' = cut /\ overlapped' \in BOOLEAN
  BY RequestFrame
<1>5. \A q \in Requests :
        /\ request'[q].pc \in BookSteps \cup FaceSteps \cup {"idle", "face", "facerow"}
        /\ request'[q].face \in {0} \cup FaceIds
        /\ request'[q].pc \in BookSteps \ {"create"} => request'[q].pet \in Pets
        /\ request'[q].pc \in {"read", "write", "bind", "bindnew"} => request'[q].ref \in Refs
  BY <1>1 DEF Fit, RequestType, Equipped, Steps
<1> QED BY <1>1, <1>2, <1>3, <1>4, <1>5 DEF Types, TypeOK, MoreTypes

LEMMA OtherTypes ==
  ASSUME Types, \/ \E u \in Reports : ReportResolves(u) \/ ReportStores(u)
                \/ Kill \/ UNCHANGED vars
  PROVE  Types'
<1> USE DEF Types
<1>1. CASE \E u \in Reports : ReportResolves(u)
  <2>1. PICK u \in Reports : ReportResolves(u)
    BY <1>1
  <2>2. Resolve(RefOf[u]) \in Pets \cup {NoPet}
    BY ResolveKnows
  <2>3. PICK answer \in Pets \cup {NoPet} : ingest' = [ingest EXCEPT ![u] = answer]
    BY <2>1, <2>2 DEF ReportResolves
  <2> QED BY <2>1, <2>3 DEF ReportResolves, TypeOK, MoreTypes, book, album, Watch
<1>2. CASE \E u \in Reports : ReportStores(u)
  BY <1>2 DEF ReportStores, TypeOK, MoreTypes, album, Watch
<1>3. CASE Kill
  <2>1. request' \in [Requests -> Fit]
    BY <1>3, IdleIsFit DEF Kill
  <2>2. cut' \subseteq FaceIds /\ kills' \in Nat
    BY <1>3 DEF Kill, TypeOK, MoreTypes
  <2> QED BY <1>3, <2>1, <2>2, IdleIsFit DEF Kill, TypeOK, MoreTypes, book, album, Fit, RequestType,
             Equipped, Steps
<1>4. CASE UNCHANGED vars
  BY <1>4 DEF vars, TypeOK, MoreTypes
<1> QED BY <1>1, <1>2, <1>3, <1>4

LEMMA InitTypes == Init => Types
<1> SUFFICES ASSUME Init PROVE Types
  OBVIOUS
<1>1. PICK owner \in [Foreign -> pets \cup {NoPet}] :
        aliases = [p \in Pets |-> {ref \in Foreign : owner[ref] = p}]
  BY DEF Init
<1>2. request \in [Requests -> Fit]
  BY IdleIsFit DEF Init
<1>3. TypeOK
  BY <1>1, <1>2, PetIds DEF Init, TypeOK, NoFace, NoPet, Refs, Fit, RequestType, Equipped, Steps
<1> QED BY <1>2, <1>3 DEF Init, Types, MoreTypes

LEMMA NextTypes == Types /\ [Next]_vars => Types'
BY RequestTypes, OtherTypes DEF Next

(* The book and the album keep their types, for any number of pets, identities *)
(* and requests.                                                               *)
THEOREM TypeCorrect == Spec => []TypeOK
<1>1. Types => TypeOK
  BY DEF Types
<1> QED BY <1>1, InitTypes, NextTypes, PTL DEF Spec

-----------------------------------------------------------------------------
(* The album                                                               *)

\* A photo the devices are told of is there, or about to lose its row.
Shown ==
  \A f \in FaceIds : faces[f].path =>
    \/ f \in photo \cup cut
    \/ \E r \in Requests :
         \/ At(r, "rows") /\ request[r].pet = faces[f].pet
         \/ At(r, "facerow") /\ request[r].face = f

\* An upload has a face of its own, which is shown to nobody yet and has its
\* file when its path is to be set.
UploadsApart ==
  /\ \A r \in Requests : request[r].pc \in Uploads =>
       /\ request[r].face <= mintedFaces /\ ~faces[request[r].face].path
       /\ request[r].pc = "path" => request[r].face \in photo
  /\ \A r, s \in Requests :
       request[r].pc \in Uploads /\ request[s].pc \in Uploads /\ request[r].face = request[s].face
         => r = s

Minted == \A f \in FaceIds : faces[f] # NoFace => f <= mintedFaces
Counted == \A p \in Pets : Cardinality(FacesOf(p)) <= MAX_FACES_PER_PET

AlbumInv == Shown /\ UploadsApart /\ Minted /\ Counted

\* The photos of a pet are finitely many, and fewer rows are no more photos.
LEMMA FacesAreFinite ==
  ASSUME Types, Minted, NEW p \in Pets
  PROVE  IsFiniteSet(FacesOf(p)) /\ Cardinality(FacesOf(p)) \in Nat
<1>1. \A f \in FacesOf(p) : f \in Nat /\ f <= mintedFaces
  BY Caps, PetIds DEF FacesOf, Minted, NoFace, NoPet, Types
<1>2. FacesOf(p) \in SUBSET Nat
  BY <1>1
<1> QED BY <1>1, <1>2, FS_BoundedSetOfNaturals, FS_CardinalityType DEF Types, MoreTypes

LEMMA FewerFaces ==
  ASSUME Types, Minted, Counted,
         \A f \in FaceIds : faces'[f].pet \in Pets => faces'[f].pet = faces[f].pet
  PROVE  Counted'
<1> SUFFICES ASSUME NEW p \in Pets PROVE Cardinality(FacesOf(p)') <= MAX_FACES_PER_PET
  BY DEF Counted, FacesOf
<1>1. PICK before, after : before = FacesOf(p) /\ after = FacesOf(p)'
  OBVIOUS
<1>2. after \in SUBSET before
  BY <1>1 DEF FacesOf
<1>3. IsFiniteSet(before) /\ Cardinality(before) \in Nat
  BY <1>1, FacesAreFinite
<1>4. Cardinality(after) <= Cardinality(before) /\ Cardinality(after) \in Nat
  BY <1>2, <1>3, FS_Subset, FS_CardinalityType
<1> QED BY <1>1, <1>3, <1>4, Caps DEF Counted

\* A step of a request that neither adds, shows nor removes a photo.
Only(r) == \A s \in Requests : s # r => request'[s] = request[s]

LEMMA AlbumStays ==
  ASSUME AlbumInv, NEW r \in Requests, Only(r),
         UNCHANGED <<album, cut>>, request[r].pc \notin {"rows", "facerow"},
         request'[r].pc \in Uploads =>
           request[r].pc \in Uploads /\ request'[r].pc # "path" /\ request'[r].face = request[r].face
  PROVE  AlbumInv'
<1>1. UNCHANGED <<faces, mintedFaces, photo, cut>>
  BY DEF album
<1>2. Minted' /\ Counted'
  BY <1>1 DEF AlbumInv, Minted, Counted, FacesOf
<1>3. Shown'
  BY <1>1 DEF AlbumInv, Shown, At, Only
<1>4. UploadsApart'
  BY <1>1 DEF AlbumInv, UploadsApart, Only
<1> QED BY <1>2, <1>3, <1>4 DEF AlbumInv

\* Most steps are such.
Elsewhere(r) ==
  /\ Only(r) /\ request'[r].pc \notin Uploads
  /\ request[r].pc \notin {"rows", "facerow"} /\ UNCHANGED album

\* What the step of a request does to the requests.
LEMMA GoMoves ==
  ASSUME MoreTypes, NEW r \in Requests, NEW q, Go(r, q) \/ Begin(r, q)
  PROVE  Only(r) /\ request'[r] = q
BY DEF MoreTypes, Go, Begin, Only

LEMMA GoesIdle ==
  ASSUME MoreTypes, NEW r \in Requests, Go(r, Idle)
  PROVE  Only(r) /\ request'[r] = Idle /\ request'[r].pc = "idle"
BY DEF MoreTypes, Go, Only, Idle

LEMMA GoesTo ==
  ASSUME MoreTypes, NEW r \in Requests, NEW me \in Fit, NEW pc, Go(r, [me EXCEPT !.pc = pc])
  PROVE  /\ Only(r) /\ request'[r].pc = pc /\ request'[r].pet = me.pet
         /\ request'[r].face = me.face /\ request'[r].ref = me.ref
<1>1. PICK q : q = [me EXCEPT !.pc = pc]
  OBVIOUS
<1>2. q.pc = pc /\ q.pet = me.pet /\ q.face = me.face /\ q.ref = me.ref
  BY <1>1 DEF Fit, RequestType
<1>3. Go(r, q)
  BY <1>1
<1> QED BY <1>2, <1>3, GoMoves

LEMMA EditsElsewhere ==
  ASSUME Types, NEW r \in Requests,
         \/ EditBegins(r) \/ EditUpdates(r) \/ EditRereads(r) \/ EditUnbinds(r)
         \/ EditClaims(r) \/ EditReadsOther(r) \/ EditStripsOther(r) \/ EditBinds(r)
  PROVE  Elsewhere(r)
<1> USE DEF Types
<1>1. PICK me \in Fit : me = request[r]
  BY DEF MoreTypes
<1>2. Only(r) /\ request'[r].pc \notin Uploads
  <2>1. CASE EditBegins(r)
    <3>1. PICK p, dropped, wanted :
            Begin(r, [Idle EXCEPT !.pc = "update", !.pet = p, !.drop = dropped, !.take = wanted])
      BY <2>1 DEF EditBegins
    <3>2. [Idle EXCEPT !.pc = "update", !.pet = p, !.drop = dropped, !.take = wanted].pc = "update"
      BY DEF Idle
    <3> QED BY <3>1, <3>2, GoMoves DEF Uploads
  <2>2. CASE EditUpdates(r)
    <3>1. Go(r, [me EXCEPT !.pc = "reread"]) \/ Go(r, Idle)
      BY <1>1, <2>2 DEF EditUpdates
    <3>2. CASE Go(r, Idle)
      BY <3>2, GoesIdle DEF Uploads
    <3>3. CASE Go(r, [me EXCEPT !.pc = "reread"])
      <4>1. Only(r) /\ request'[r].pc = "reread"
        BY <3>3, GoesTo
      <4> QED BY <4>1 DEF Uploads
    <3> QED BY <3>1, <3>2, <3>3
  <2>3. CASE EditRereads(r)
    <3>1. Go(r, [me EXCEPT !.pc = "unbind"]) \/ Go(r, Idle)
      BY <1>1, <2>3 DEF EditRereads
    <3>2. CASE Go(r, Idle)
      BY <3>2, GoesIdle DEF Uploads
    <3>3. CASE Go(r, [me EXCEPT !.pc = "unbind"])
      <4>1. Only(r) /\ request'[r].pc = "unbind"
        BY <3>3, GoesTo
      <4> QED BY <4>1 DEF Uploads
    <3> QED BY <3>1, <3>2, <3>3
  <2>4. CASE EditUnbinds(r)
    <3>1. CASE Go(r, [me EXCEPT !.pc = "claim"])
      <4>1. Only(r) /\ request'[r].pc = "claim"
        BY <3>1, GoesTo
      <4> QED BY <4>1 DEF Uploads
    <3>2. CASE \E ref \in me.drop : Go(r, [me EXCEPT !.drop = @ \ {ref}])
      <4>1. PICK ref : Go(r, [me EXCEPT !.drop = @ \ {ref}])
        BY <3>2
      <4>2. [me EXCEPT !.drop = @ \ {ref}].pc = "unbind"
        BY <1>1, <2>4 DEF EditUnbinds, At, Fit, RequestType
      <4> QED BY <4>1, <4>2, GoMoves DEF Uploads
    <3> QED BY <1>1, <2>4, <3>1, <3>2 DEF EditUnbinds
  <2>5. CASE EditClaims(r)
    <3>1. CASE Go(r, Idle)
      BY <3>1, GoesIdle DEF Uploads
    <3>2. CASE \E ref \in me.take :
            Go(r, [me EXCEPT !.pc = "read", !.ref = ref, !.take = @ \ {ref},
                             !.others = Claiming(ref) \ {me.pet}])
      <4>1. PICK ref, others :
              Go(r, [me EXCEPT !.pc = "read", !.ref = ref, !.take = @ \ {ref}, !.others = others])
        BY <3>2
      <4>2. [me EXCEPT !.pc = "read", !.ref = ref, !.take = @ \ {ref}, !.others = others].pc = "read"
        BY DEF Fit, RequestType
      <4> QED BY <4>1, <4>2, GoMoves DEF Uploads
    <3> QED BY <1>1, <2>5, <3>1, <3>2 DEF EditClaims
  <2>6. CASE EditReadsOther(r)
    <3>1. CASE Go(r, [me EXCEPT !.pc = "bind"])
      <4>1. Only(r) /\ request'[r].pc = "bind"
        BY <3>1, GoesTo
      <4> QED BY <4>1 DEF Uploads
    <3>2. CASE \E o \in me.others :
            Go(r, [me EXCEPT !.pc = "write", !.others = @ \ {o}, !.other = o,
                             !.read = IF o \in pets THEN aliases[o] ELSE {}])
      <4>1. PICK o, read :
              Go(r, [me EXCEPT !.pc = "write", !.others = @ \ {o}, !.other = o, !.read = read])
        BY <3>2
      <4>2. [me EXCEPT !.pc = "write", !.others = @ \ {o}, !.other = o, !.read = read].pc = "write"
        BY DEF Fit, RequestType
      <4> QED BY <4>1, <4>2, GoMoves DEF Uploads
    <3> QED BY <1>1, <2>6, <3>1, <3>2 DEF EditReadsOther
  <2>7. CASE EditStripsOther(r)
    <3>1. Go(r, [me EXCEPT !.pc = "read", !.read = {}, !.other = NoPet])
      BY <1>1, <2>7 DEF EditStripsOther
    <3>2. [me EXCEPT !.pc = "read", !.read = {}, !.other = NoPet].pc = "read"
      BY DEF Fit, RequestType
    <3> QED BY <3>1, <3>2, GoMoves DEF Uploads
  <2>8. CASE EditBinds(r)
    <3>1. Go(r, [me EXCEPT !.pc = "claim"])
      BY <1>1, <2>8 DEF EditBinds
    <3>2. Only(r) /\ request'[r].pc = "claim"
      BY <3>1, GoesTo, SMTT(60)
    <3> QED BY <3>2 DEF Uploads
  <2> QED BY <2>1, <2>2, <2>3, <2>4, <2>5, <2>6, <2>7, <2>8
<1>3. UNCHANGED album /\ request[r].pc \notin {"rows", "facerow"}
  BY DEF EditBegins, EditUpdates, EditRereads, EditUnbinds, EditClaims, EditReadsOther,
         EditStripsOther, EditBinds, Begin, At, album
<1> QED BY <1>2, <1>3 DEF Elsewhere

LEMMA OthersElsewhere ==
  ASSUME Types, NEW r \in Requests,
         \/ ImportBegins(r) \/ ImportCreates(r) \/ ImportNames(r) \/ ImportBinds(r)
         \/ DeleteBegins(r) \/ UploadBegins(r) \/ FaceDeleteBegins(r)
  PROVE  Elsewhere(r)
<1> USE DEF Types
<1>1. PICK me \in Fit : me = request[r]
  BY DEF MoreTypes
<1>2. Only(r) /\ request'[r].pc \notin Uploads
  <2>1. CASE ImportBegins(r) \/ DeleteBegins(r) \/ UploadBegins(r) \/ FaceDeleteBegins(r)
    <3>1. CASE ImportBegins(r)
      <4>1. PICK ref : Begin(r, [Idle EXCEPT !.pc = "create", !.ref = ref])
        BY <3>1 DEF ImportBegins
      <4>2. [Idle EXCEPT !.pc = "create", !.ref = ref].pc = "create"
        BY DEF Idle
      <4> QED BY <4>1, <4>2, GoMoves DEF Uploads
    <3>2. CASE DeleteBegins(r)
      <4>1. PICK p : Begin(r, [Idle EXCEPT !.pc = "unlink", !.pet = p])
        BY <3>2 DEF DeleteBegins
      <4>2. [Idle EXCEPT !.pc = "unlink", !.pet = p].pc = "unlink"
        BY DEF Idle
      <4> QED BY <4>1, <4>2, GoMoves DEF Uploads
    <3>3. CASE UploadBegins(r)
      <4>1. PICK p : Begin(r, [Idle EXCEPT !.pc = "upload", !.pet = p])
        BY <3>3 DEF UploadBegins
      <4>2. [Idle EXCEPT !.pc = "upload", !.pet = p].pc = "upload"
        BY DEF Idle
      <4> QED BY <4>1, <4>2, GoMoves DEF Uploads
    <3>4. CASE FaceDeleteBegins(r)
      <4>1. PICK f : Begin(r, [Idle EXCEPT !.pc = "face", !.face = f])
        BY <3>4 DEF FaceDeleteBegins
      <4>2. [Idle EXCEPT !.pc = "face", !.face = f].pc = "face"
        BY DEF Idle
      <4> QED BY <4>1, <4>2, GoMoves DEF Uploads
    <3> QED BY <2>1, <3>1, <3>2, <3>3, <3>4
  <2>2. CASE ImportCreates(r)
    <3>1. PICK n : Go(r, [me EXCEPT !.pc = "alias", !.pet = n])
      BY <1>1, <2>2 DEF ImportCreates
    <3>2. [me EXCEPT !.pc = "alias", !.pet = n].pc = "alias"
      BY DEF Fit, RequestType
    <3> QED BY <3>1, <3>2, GoMoves DEF Uploads
  <2>3. CASE ImportNames(r)
    <3>1. Go(r, [me EXCEPT !.pc = "bindnew"])
      BY <1>1, <2>3 DEF ImportNames
    <3>2. Only(r) /\ request'[r].pc = "bindnew"
      BY <3>1, GoesTo
    <3> QED BY <3>2 DEF Uploads
  <2>4. CASE ImportBinds(r)
    <3>1. Go(r, [Idle EXCEPT !.pc = "upload", !.pet = me.pet]) \/ Go(r, Idle)
      BY <1>1, <2>4 DEF ImportBinds
    <3>2. [Idle EXCEPT !.pc = "upload", !.pet = me.pet].pc = "upload" /\ Idle.pc = "idle"
      BY SMTT(60) DEF Idle
    <3> QED BY <3>1, <3>2, GoMoves DEF Uploads
  <2> QED BY <2>1, <2>2, <2>3, <2>4
<1>3. UNCHANGED album /\ request[r].pc \notin {"rows", "facerow"}
  BY DEF ImportBegins, ImportCreates, ImportNames, ImportBinds, DeleteBegins, UploadBegins,
         FaceDeleteBegins, Begin, At, album
<1> QED BY <1>2, <1>3 DEF Elsewhere

LEMMA DeletesAlbum ==
  ASSUME Types, AlbumInv, cut' = cut, NEW r \in Requests, DeleteUnlinks(r) \/ DeleteRows(r)
  PROVE  AlbumInv'
<1>1. PICK me \in Fit : me = request[r]
  BY DEF Types, MoreTypes
<1>2. CASE DeleteUnlinks(r)
  <2>1. Only(r) /\ request'[r].pc = "rows" /\ request'[r].pet = me.pet
    <3>1. Go(r, [me EXCEPT !.pc = "rows"])
      BY <1>1, <1>2 DEF DeleteUnlinks
    <3> QED BY <3>1, GoesTo DEF Types
  <2>2. \A s \in Requests : s # r => request'[s] = request[s]
    BY <2>1 DEF Only
  <2>3. /\ photo' = photo \ {f \in FaceIds : faces[f].pet = me.pet /\ faces[f].path}
        /\ UNCHANGED <<faces, mintedFaces>> /\ me.pc = "unlink"
    BY <1>1, <1>2 DEF DeleteUnlinks, At
  <2>4. Shown'
    <3> SUFFICES ASSUME NEW f \in FaceIds, faces'[f].path
                 PROVE  \/ f \in photo' \cup cut'
                        \/ \E s \in Requests :
                             \/ At(s, "rows")' /\ request'[s].pet = faces'[f].pet
                             \/ At(s, "facerow")' /\ request'[s].face = f
      BY DEF Shown
    <3>1. CASE faces[f].pet = me.pet
      BY <2>1, <2>2, <2>3, <3>1 DEF At
    <3>2. CASE faces[f].pet # me.pet
      BY <1>1, <2>2, <2>3, <3>2 DEF AlbumInv, Shown, At
    <3> QED BY <3>1, <3>2
  <2>5. UploadsApart'
    BY <2>1, <2>2, <2>3 DEF AlbumInv, UploadsApart, Uploads
  <2>6. Minted' /\ Counted'
    BY <2>3 DEF AlbumInv, Minted, Counted, FacesOf
  <2> QED BY <2>4, <2>5, <2>6 DEF AlbumInv
<1>3. CASE DeleteRows(r)
  <2>1. request' = [request EXCEPT ![r] = Idle] /\ me.pc = "rows"
    BY <1>1, <1>3 DEF DeleteRows, Go, At
  <2>2. request'[r] = Idle /\ \A s \in Requests : s # r => request'[s] = request[s]
    BY <2>1 DEF Types, MoreTypes
  <2>3. /\ faces' = [f \in FaceIds |-> IF faces[f].pet = me.pet THEN NoFace ELSE faces[f]]
        /\ UNCHANGED <<photo, mintedFaces>>
    BY <1>1, <1>3 DEF DeleteRows
  <2>4. \A f \in FaceIds :
          faces'[f] = NoFace \/ (faces'[f] = faces[f] /\ faces[f].pet # me.pet)
    BY <2>3
  <2>5. Shown'
    BY <1>1, <2>1, <2>2, <2>3, <2>4 DEF AlbumInv, Shown, At, NoFace
  <2>6. UploadsApart'
    <3>1. \A s \in Requests : request'[s].pc \in Uploads => s # r /\ request'[s].face \in FaceIds
      BY <2>2 DEF Types, MoreTypes, Idle, Uploads, Fit, Equipped
    <3> QED BY <2>2, <2>3, <2>4, <3>1 DEF AlbumInv, UploadsApart, NoFace
  <2>7. Minted'
    BY <2>3, <2>4 DEF AlbumInv, Minted
  <2>8. Counted'
    BY <2>4, FewerFaces, PetIds DEF AlbumInv, NoFace, NoPet
  <2> QED BY <2>5, <2>6, <2>7, <2>8 DEF AlbumInv
<1> QED BY <1>2, <1>3

LEMMA UploadsAlbum ==
  ASSUME Types, AlbumInv, cut' = cut, NEW r \in Requests,
         \/ UploadAddsRow(r) \/ UploadWritesFile(r) \/ UploadFails(r)
         \/ UploadDropsRow(r) \/ UploadSetsPath(r)
  PROVE  AlbumInv'
<1>1. PICK me \in Fit : me = request[r]
  BY DEF Types, MoreTypes
<1>2. CASE UploadAddsRow(r) /\ Go(r, Idle) /\ UNCHANGED <<faces, mintedFaces>>
  <2>1. Only(r) /\ request'[r].pc = "idle"
    BY <1>2, GoesIdle DEF Types
  <2>2. UNCHANGED album /\ request[r].pc = "upload"
    BY <1>2 DEF UploadAddsRow, At, album
  <2> QED BY <2>1, <2>2, AlbumStays DEF Uploads
<1>3. CASE UploadAddsRow(r) /\ ~(Go(r, Idle) /\ UNCHANGED <<faces, mintedFaces>>)
  <2>1. /\ me.pc = "upload" /\ me.pet \in Pets /\ Cardinality(FacesOf(me.pet)) < MAX_FACES_PER_PET
    <3>1. me.pc = "upload" /\ ~(Cardinality(FacesOf(me.pet)) >= MAX_FACES_PER_PET)
      BY <1>1, <1>3 DEF UploadAddsRow, At
    <3>2. me.pet \in Pets
      BY <3>1 DEF Fit, Equipped
    <3> QED BY <3>1, <3>2, FacesAreFinite, Caps DEF AlbumInv
  <2>2. PICK new \in FaceIds : new = mintedFaces + 1 /\ mintedFaces' = new
    BY <1>3 DEF UploadAddsRow
  <2>3. /\ faces' = [faces EXCEPT ![new] = [pet |-> me.pet, path |-> FALSE]] /\ photo' = photo
        /\ Go(r, [me EXCEPT !.pc = "store", !.face = new])
    BY <1>1, <1>3, <2>2 DEF UploadAddsRow
  <2>4. Only(r) /\ request'[r].pc = "store" /\ request'[r].face = new
    <3>1. [me EXCEPT !.pc = "store", !.face = new].pc = "store"
          /\ [me EXCEPT !.pc = "store", !.face = new].face = new
      BY DEF Fit, RequestType
    <3> QED BY <2>3, <3>1, GoMoves DEF Types
  <2>5. \A s \in Requests : s # r => request'[s] = request[s]
    BY <2>4 DEF Only
  <2>6. /\ faces'[new] = [pet |-> me.pet, path |-> FALSE]
        /\ \A f \in FaceIds : f # new => faces'[f] = faces[f]
    BY <2>3 DEF Types, TypeOK
  <2>7. faces[new] = NoFace
    BY <2>2 DEF AlbumInv, Minted, Types, MoreTypes
  <2>8. Shown'
    BY <1>1, <2>1, <2>3, <2>5, <2>6 DEF AlbumInv, Shown, At
  <2>9. UploadsApart'
    <3>1. \A s \in Requests : s # r /\ request'[s].pc \in Uploads =>
            /\ request[s].pc \in Uploads /\ request'[s] = request[s] /\ request[s].face \in FaceIds
            /\ request[s].face <= mintedFaces /\ request[s].face # new
      <4>1. \A s \in Requests : request[s].pc \in Uploads => request[s].face \in FaceIds /\ request[s].face \in Nat
        BY Caps DEF Types, MoreTypes, Fit, Equipped
      <4> QED BY <2>2, <2>5, <4>1 DEF AlbumInv, UploadsApart, Types, MoreTypes
    <3>2. mintedFaces <= mintedFaces' /\ \A n \in Nat : n <= mintedFaces => n <= mintedFaces'
      BY <2>2 DEF Types, MoreTypes
    <3>3. \A s \in Requests : request'[s].pc \in Uploads =>
            /\ request'[s].face <= mintedFaces' /\ ~faces'[request'[s].face].path
            /\ request'[s].pc = "path" => request'[s].face \in photo'
      BY <2>2, <2>3, <2>4, <2>5, <2>6, <3>1, <3>2, Caps DEF AlbumInv, UploadsApart
    <3>4. \A s, t \in Requests :
            request'[s].pc \in Uploads /\ request'[t].pc \in Uploads
              /\ request'[s].face = request'[t].face => s = t
      BY <2>4, <2>5, <3>1 DEF AlbumInv, UploadsApart
    <3> QED BY <3>3, <3>4 DEF UploadsApart
  <2>10. Minted'
    BY <2>2, <2>6, Caps DEF AlbumInv, Minted, Types, MoreTypes
  <2>11. Counted'
    <3> SUFFICES ASSUME NEW p \in Pets PROVE Cardinality(FacesOf(p)') <= MAX_FACES_PER_PET
      BY DEF Counted, FacesOf
    <3>1. PICK before, after : before = FacesOf(p) /\ after = FacesOf(p)'
      OBVIOUS
    <3>2. IsFiniteSet(before) /\ Cardinality(before) \in Nat
      BY <3>1, FacesAreFinite DEF AlbumInv
    <3>3. CASE p = me.pet
      <4>1. after = before \cup {new} /\ new \notin before
        BY <2>6, <2>7, <3>1, <3>3, PetIds DEF FacesOf, NoFace, NoPet
      <4>2. Cardinality(after) = Cardinality(before) + 1
        BY <3>2, <4>1, FS_AddElement
      <4> QED BY <2>1, <3>1, <3>2, <3>3, <4>2, Caps
    <3>4. CASE p # me.pet
      <4>1. after = before
        BY <2>6, <2>7, <3>1, <3>4, PetIds DEF FacesOf, NoFace, NoPet
      <4> QED BY <3>1, <4>1 DEF AlbumInv, Counted
    <3> QED BY <3>3, <3>4
  <2> QED BY <2>8, <2>9, <2>10, <2>11 DEF AlbumInv
<1>4. CASE UploadWritesFile(r)
  <2>1. Only(r) /\ request'[r].pc = "path" /\ request'[r].face = me.face
    <3>1. Go(r, [me EXCEPT !.pc = "path"])
      BY <1>1, <1>4 DEF UploadWritesFile
    <3> QED BY <3>1, GoesTo DEF Types
  <2>2. \A s \in Requests : s # r => request'[s] = request[s]
    BY <2>1 DEF Only
  <2>3. /\ photo' = photo \cup {me.face} /\ UNCHANGED <<faces, mintedFaces>> /\ me.pc = "store"
    BY <1>1, <1>4 DEF UploadWritesFile, At
  <2>4. Shown'
    BY <1>1, <2>2, <2>3 DEF AlbumInv, Shown, At
  <2>5. UploadsApart'
    BY <1>1, <2>1, <2>2, <2>3 DEF AlbumInv, UploadsApart, Uploads
  <2>6. Minted' /\ Counted'
    BY <2>3 DEF AlbumInv, Minted, Counted, FacesOf
  <2> QED BY <2>4, <2>5, <2>6 DEF AlbumInv
<1>5. CASE UploadFails(r)
  <2>1. Only(r) /\ request'[r].pc = "unstore" /\ request'[r].face = me.face
    <3>1. Go(r, [me EXCEPT !.pc = "unstore"])
      BY <1>1, <1>5 DEF UploadFails
    <3> QED BY <3>1, GoesTo DEF Types
  <2>2. UNCHANGED album /\ request[r].pc = "store"
    BY <1>5 DEF UploadFails, At
  <2> QED BY <1>1, <2>1, <2>2, AlbumStays DEF Uploads
<1>6. CASE UploadDropsRow(r) \/ UploadSetsPath(r)
  <2>1. /\ request' = [request EXCEPT ![r] = Idle] /\ me.pc \in {"unstore", "path"}
        /\ UNCHANGED <<photo, mintedFaces>>
    BY <1>1, <1>6 DEF UploadDropsRow, UploadSetsPath, Go, At
  <2>2. request'[r] = Idle /\ \A s \in Requests : s # r => request'[s] = request[s]
    BY <2>1 DEF Types, MoreTypes
  <2>3. PICK g \in FaceIds : g = me.face
    BY <2>1 DEF Fit, Equipped, Uploads
  <2>4. /\ \A f \in FaceIds : f # g => faces'[f] = faces[f]
        /\ \/ faces'[g] = NoFace
           \/ /\ me.pc = "path" /\ faces[g] # NoFace /\ faces'[g].pet = faces[g].pet
              /\ faces'[g].path = TRUE
    <3>1. CASE UploadDropsRow(r)
      BY <1>1, <2>3, <3>1 DEF UploadDropsRow, Types, TypeOK
    <3>2. CASE UploadSetsPath(r)
      <4>1. /\ me.pc = "path"
            /\ faces' = IF faces[g] # NoFace THEN [faces EXCEPT ![g].path = TRUE] ELSE faces
        BY <1>1, <2>3, <3>2 DEF UploadSetsPath, At
      <4>2. CASE faces[g] = NoFace
        BY <4>1, <4>2
      <4>3. CASE faces[g] # NoFace
        <5>1. PICK face \in [pet : Pets \cup {NoPet}, path : BOOLEAN] : face = faces[g]
          BY DEF Types, TypeOK
        <5>2. faces' = [faces EXCEPT ![g] = [face EXCEPT !.path = TRUE]]
          BY <4>1, <4>3, <5>1
        <5> PICK shown : shown = [face EXCEPT !.path = TRUE]
          OBVIOUS
        <5>3. shown = [face EXCEPT !.path = TRUE] /\ shown.pet = face.pet /\ shown.path = TRUE
          OBVIOUS
        <5>4. faces' = [faces EXCEPT ![g] = shown]
          BY <5>2, <5>3
        <5>5. faces'[g] = shown /\ \A f \in FaceIds : f # g => faces'[f] = faces[f]
          BY <5>4 DEF Types, TypeOK
        <5> QED BY <4>1, <4>3, <5>1, <5>3, <5>5
      <4> QED BY <4>2, <4>3
    <3> QED BY <1>6, <3>1, <3>2
  <2>5. \A s \in Requests : request'[s].pc \in Uploads =>
          s # r /\ request[s].pc \in Uploads /\ request[s].face # g
    BY <1>1, <2>1, <2>2, <2>3 DEF AlbumInv, UploadsApart, Idle, Uploads
  <2>6. Shown'
    <3>1. me.pc = "path" => g \in photo
      BY <1>1, <2>1, <2>3 DEF AlbumInv, UploadsApart, Uploads
    <3>2. \A f \in FaceIds : faces'[f].path =>
            \/ f \in photo
            \/ faces[f].path /\ faces'[f] = faces[f]
      BY <2>4, <3>1 DEF NoFace
    <3>3. \A s \in Requests : \A pc \in {"rows", "facerow"} :
            At(s, pc) => At(s, pc)' /\ request'[s] = request[s]
      BY <1>1, <2>1, <2>2 DEF At
    <3> QED BY <2>1, <3>2, <3>3 DEF AlbumInv, Shown
  <2>7. UploadsApart'
    <3>1. \A s \in Requests : request'[s].pc \in Uploads => request'[s].face \in FaceIds /\ request'[s] = request[s]
      BY <2>2, <2>5 DEF Types, MoreTypes, Fit, Equipped
    <3> QED BY <2>1, <2>4, <2>5, <3>1 DEF AlbumInv, UploadsApart
  <2>8. Minted'
    BY <2>1, <2>4 DEF AlbumInv, Minted
  <2>9. Counted'
    BY <2>4, FewerFaces, PetIds DEF AlbumInv, NoFace, NoPet
  <2> QED BY <2>6, <2>7, <2>8, <2>9 DEF AlbumInv
<1> QED BY <1>2, <1>3, <1>4, <1>5, <1>6

LEMMA FacesAlbum ==
  ASSUME Types, AlbumInv, cut' = cut, NEW r \in Requests, FaceUnlinks(r) \/ FaceDropsRow(r)
  PROVE  AlbumInv'
<1>1. PICK me \in Fit : me = request[r] /\ me.face \in FaceIds
  BY DEF Types, MoreTypes, FaceUnlinks, FaceDropsRow, At, Fit, Equipped
<1>2. CASE FaceUnlinks(r)
  <2>1. /\ photo' = IF faces[me.face].path THEN photo \ {me.face} ELSE photo
        /\ UNCHANGED <<faces, mintedFaces>> /\ me.pc = "face"
    BY <1>1, <1>2 DEF FaceUnlinks, At
  <2>2. /\ Only(r) /\ request'[r].pc \notin Uploads
        /\ faces[me.face] # NoFace => request'[r].pc = "facerow" /\ request'[r].face = me.face
    <3>1. Go(r, IF faces[me.face] = NoFace THEN Idle ELSE [me EXCEPT !.pc = "facerow"])
      BY <1>1, <1>2 DEF FaceUnlinks
    <3>2. CASE faces[me.face] = NoFace
      <4>1. Go(r, Idle)
        BY <3>1, <3>2
      <4> QED BY <3>2, <4>1, GoesIdle DEF Types, Uploads
    <3>3. CASE faces[me.face] # NoFace
      <4>1. Go(r, [me EXCEPT !.pc = "facerow"])
        BY <3>1, <3>3
      <4>2. Only(r) /\ request'[r].pc = "facerow" /\ request'[r].face = me.face
        BY <4>1, GoesTo DEF Types
      <4> QED BY <4>2 DEF Uploads
    <3> QED BY <3>2, <3>3
  <2>3. \A s \in Requests : s # r => request'[s] = request[s]
    BY <2>2 DEF Only
  <2>4. Shown'
    BY <1>1, <2>1, <2>2, <2>3 DEF AlbumInv, Shown, At, NoFace
  <2>5. UploadsApart'
    BY <2>1, <2>2, <2>3 DEF AlbumInv, UploadsApart, Uploads
  <2>6. Minted' /\ Counted'
    BY <2>1 DEF AlbumInv, Minted, Counted, FacesOf
  <2> QED BY <2>4, <2>5, <2>6 DEF AlbumInv
<1>3. CASE FaceDropsRow(r)
  <2>1. /\ request' = [request EXCEPT ![r] = Idle] /\ me.pc = "facerow"
        /\ faces' = [faces EXCEPT ![me.face] = NoFace] /\ UNCHANGED <<photo, mintedFaces>>
    BY <1>1, <1>3 DEF FaceDropsRow, Go, At
  <2>2. request'[r] = Idle /\ \A s \in Requests : s # r => request'[s] = request[s]
    BY <2>1 DEF Types, MoreTypes
  <2>3. faces'[me.face] = NoFace /\ \A f \in FaceIds : f # me.face => faces'[f] = faces[f]
    BY <1>1, <2>1 DEF Types, TypeOK
  <2>4. Shown'
    BY <1>1, <2>1, <2>2, <2>3 DEF AlbumInv, Shown, At, NoFace
  <2>5. UploadsApart'
    <3>1. \A s \in Requests : request'[s].pc \in Uploads =>
            s # r /\ request'[s] = request[s] /\ request'[s].face \in FaceIds
      BY <2>2 DEF Types, MoreTypes, Idle, Uploads, Fit, Equipped
    <3> QED BY <2>1, <2>3, <3>1 DEF AlbumInv, UploadsApart, NoFace
  <2>6. Minted'
    BY <2>1, <2>3 DEF AlbumInv, Minted
  <2>7. Counted'
    BY <2>3, FewerFaces, PetIds DEF AlbumInv, NoFace, NoPet
  <2> QED BY <2>4, <2>5, <2>6, <2>7 DEF AlbumInv
<1> QED BY <1>2, <1>3

LEMMA AlbumNext == Types /\ AlbumInv /\ [Next]_vars => AlbumInv'
<1> SUFFICES ASSUME Types, AlbumInv, [Next]_vars PROVE AlbumInv'
  OBVIOUS
<1>1. ASSUME NEW r \in Requests, Request(r) PROVE AlbumInv'
  <2>1. cut' = cut
    BY <1>1, RequestFrame
  <2>2. CASE Elsewhere(r)
    BY <2>1, <2>2, AlbumStays DEF Elsewhere
  <2> QED BY <1>1, <2>1, <2>2, EditsElsewhere, OthersElsewhere, DeletesAlbum, UploadsAlbum,
             FacesAlbum DEF Request
<1>2. ASSUME NEW u \in Reports, ReportResolves(u) \/ ReportStores(u) PROVE AlbumInv'
  BY <1>2 DEF ReportResolves, ReportStores, Watch, album, AlbumInv, Shown, UploadsApart,
              Minted, Counted, FacesOf, At
<1>3. CASE Kill
  <2>1. /\ \A r \in Requests : request'[r] = Idle
        /\ UNCHANGED <<faces, mintedFaces, photo>>
        /\ cut' = cut \cup {f \in FaceIds : \E r \in Requests :
                            \/ At(r, "rows") /\ faces[f].pet = request[r].pet
                            \/ At(r, "facerow") /\ request[r].face = f}
    BY <1>3 DEF Kill, album
  <2>2. Shown'
    BY <2>1 DEF AlbumInv, Shown
  <2>3. UploadsApart'
    BY <2>1 DEF UploadsApart, Idle, Uploads
  <2> QED BY <2>1, <2>2, <2>3 DEF AlbumInv, Minted, Counted, FacesOf
<1>4. CASE UNCHANGED vars
  BY <1>4 DEF vars, AlbumInv, Shown, UploadsApart, Minted, Counted, FacesOf, At
<1> QED BY <1>1, <1>2, <1>3, <1>4 DEF Next

LEMMA AlbumInit == Init => AlbumInv
<1> SUFFICES ASSUME Init PROVE AlbumInv
  OBVIOUS
<1>1. \A p \in Pets : FacesOf(p) = {}
  BY PetIds DEF Init, FacesOf, NoFace, NoPet
<1>2. Counted
  BY <1>1, FS_EmptySet, Caps DEF Counted
<1> QED BY <1>2 DEF Init, AlbumInv, Shown, UploadsApart, Minted, NoFace, Idle, Uploads

(* A photo that the devices are told to fetch is there, unless it is being     *)
(* deleted or a kill cut its deletion short, and no pet has too many, however  *)
(* many uploads and deletions run side by side.                                *)
THEOREM PhotosAreInOrder == Spec => []PhotosInOrder
<1>1. Types /\ AlbumInv => PhotosInOrder
  BY DEF Types, TypeOK, AlbumInv, Shown, Counted, PhotosInOrder, DiscernPic, FacesOf
<1> QED BY <1>1, InitTypes, AlbumInit, NextTypes, AlbumNext, PTL DEF Spec

-----------------------------------------------------------------------------
(* The book                                                                *)

Known == \A p \in pets : p <= mintedPets
Lists == \A p \in Pets : aliases[p] \subseteq Foreign /\ (p \notin pets => aliases[p] = {})
Rows ==
  \A u \in Reports :
    /\ event[u] <= mintedPets /\ ingest[u] <= mintedPets
    /\ event[u] # NoRow \/ ingest[u] # NotRunning => RefOf[u] \in Foreign \/ RefOf[u] <= mintedPets
Sound(q) ==
  /\ q.pet <= mintedPets
  /\ q.take \subseteq Foreign /\ q.drop \subseteq Foreign /\ q.read \subseteq Foreign
Asks == \A r \in Requests : \A q \in Fit : q = request[r] => Sound(q)

\* What holds of the book however the requests overlap.
Ledger == Known /\ Lists /\ Rows /\ Asks

\* An event is where a new report would go, or with a pet that is gone.
Agrees(u) ==
  \/ event[u] = NoRow
  \/ Knowing(RefOf[u]) = {} /\ (event[u] = NoPet \/ event[u] \in Pets \ pets)
  \/ Knowing(RefOf[u]) = {event[u]}

\* No two pets claim an identity, and its events agree, but for those of X.
Settled(X) ==
  \A ref \in Refs \ X :
    /\ \A p, q \in Knowing(ref) : p = q
    /\ \A u \in Reports : RefOf[u] = ref => Agrees(u)

\* The identities whose owner or whose history a request is changing.
InFlux(q) ==
  CASE q.pc \in {"reread", "unbind", "claim"} -> q.drop \cup q.take
    [] q.pc \in {"read", "write", "bind"}     -> q.take \cup {q.ref}
    [] q.pc = "bindnew"                       -> {q.ref}
    [] OTHER                                  -> {}

\* How far a request that changes the book has come.
Editing(q) == q.pc \in {"reread", "unbind", "claim", "read", "write", "bind"}
Claims(q) == q.pc \in {"read", "write", "bind"}
Stage(q) ==
  /\ Settled(InFlux(q))
  /\ q.pc # "create" => q.pet \in pets
  /\ q.pc = "update" => q.drop = aliases[q.pet] \ q.take
  /\ q.pc \in {"reread", "unbind"} => \A ref \in q.drop : Knowing(ref) = {}
  /\ q.pc \in {"claim", "read", "write", "bind"} => q.drop = {}
  /\ Editing(q) => q.take \subseteq aliases[q.pet]
  /\ Claims(q) => q.ref \in Foreign /\ q.ref \in aliases[q.pet]
  /\ q.pc = "read" => Knowing(q.ref) \subseteq {q.pet} \cup q.others /\ q.pet \notin q.others
  /\ q.pc = "write" =>
       /\ Knowing(q.ref) \subseteq {q.pet, q.other} \cup q.others
       /\ q.pet \notin q.others \cup {q.other}
       /\ q.other \in pets => q.read = aliases[q.other]
  /\ q.pc \in {"bind", "bindnew"} => Knowing(q.ref) = {q.pet}
  /\ q.pc \in {"create", "alias"} => Knowing(q.ref) = {}
  /\ q.pc = "alias" => aliases[q.pet] = {}

\* While no writers of the book overlap, there is at most one.
Alone(r) ==
  /\ \A s \in Requests : s # r => ~Writing(s)
  /\ \A u \in Reports : ingest[u] = NotRunning

Calm ==
  /\ ~Overlap
  /\ \A u \in Reports : ingest[u] # NotRunning =>
       \/ ingest[u] = NoPet /\ Knowing(RefOf[u]) = {}
       \/ Knowing(RefOf[u]) = {ingest[u]}
  /\ (\A r \in Requests : ~Writing(r)) => Settled({})
  /\ \A r \in Requests : \A q \in Fit : q = request[r] /\ q.pc \in BookSteps => Stage(q)

HInv == Types /\ Ledger /\ (~overlapped => Calm)

-----------------------------------------------------------------------------
(* Lemmas about who knows an identity                                      *)

LEMMA KnowingIsClaiming ==
  ASSUME Types, NEW ref \in Foreign
  PROVE  Knowing(ref) = Claiming(ref)
BY PetIds DEF Knowing, Claiming, Types, TypeOK

\* What is settled stays so where neither the claims nor the events change.
LEMMA SettledStays ==
  ASSUME NEW X, NEW Y, Settled(X),
         \A ref \in Refs \ Y :
           /\ ref \notin X /\ Knowing(ref)' = Knowing(ref)
           /\ \A u \in Reports : RefOf[u] = ref =>
                event'[u] = event[u] /\ (event[u] \in Pets \ pets => event[u] \notin pets')
  PROVE  Settled(Y)'
<1> SUFFICES ASSUME NEW ref \in Refs \ Y
             PROVE  /\ \A p, q \in Knowing(ref)' : p = q
                    /\ \A u \in Reports : RefOf[u] = ref => Agrees(u)'
  BY DEF Settled, Knowing
<1>1. \A p, q \in Knowing(ref)' : p = q
  BY DEF Settled
<1>2. ASSUME NEW u \in Reports, RefOf[u] = ref PROVE Agrees(u)'
  <2>1. Agrees(u)
    BY <1>2 DEF Settled
  <2>2. Knowing(RefOf[u])' = Knowing(RefOf[u])
    BY <1>2 DEF Knowing
  <2> QED BY <1>2, <2>1, <2>2 DEF Agrees
<1> QED BY <1>1, <1>2

\* The same where the book stays as it is.
LEMMA SettledWiden ==
  ASSUME NEW X, NEW Y, Settled(X), X \subseteq Y, UNCHANGED <<pets, aliases, event>>
  PROVE  Settled(Y)'
BY DEF Settled, Agrees, Knowing

\* An identity's events are given to its owner.
LEMMA AttributeSettles ==
  ASSUME Types, NEW X, NEW Y, Settled(X), NEW ref \in Foreign, NEW p \in Pets \cup {NoPet}, Attribute(ref, p),
         X \subseteq Y \cup {ref}, UNCHANGED <<pets, aliases>>,
         (Knowing(ref) = {} /\ p = NoPet) \/ Knowing(ref) = {p}
  PROVE  Settled(Y)'
<1>1. \A a : Knowing(a)' = Knowing(a)
  BY DEF Knowing
<1>2. \A u \in Reports : event'[u] = IF event[u] # NoRow /\ RefOf[u] = ref THEN p ELSE event[u]
  BY DEF Attribute
<1> SUFFICES ASSUME NEW a \in Refs \ Y
             PROVE  /\ \A x, y \in Knowing(a) : x = y
                    /\ \A u \in Reports : RefOf[u] = a => Agrees(u)'
  BY <1>1 DEF Settled, Knowing
<1>3. CASE a = ref
  <2>1. \A x, y \in Knowing(ref) : x = y
    OBVIOUS
  <2>2. ASSUME NEW u \in Reports, RefOf[u] = ref PROVE Agrees(u)'
    <3>1. event'[u] = NoRow \/ event'[u] = p
      BY <1>2, <2>2
    <3>2. Knowing(RefOf[u])' = Knowing(ref)
      BY <2>2 DEF Knowing
    <3> QED BY <3>1, <3>2 DEF Agrees
  <2> QED BY <1>3, <2>1, <2>2
<1>4. CASE a # ref
  <2>1. a \in Refs \ X
    BY <1>4
  <2>2. ASSUME NEW u \in Reports, RefOf[u] = a PROVE Agrees(u)'
    <3>1. event'[u] = event[u] /\ Knowing(RefOf[u])' = Knowing(RefOf[u])
      BY <1>2, <1>4, <2>2 DEF Knowing
    <3>2. Agrees(u)
      BY <2>1, <2>2 DEF Settled
    <3> QED BY <3>1, <3>2 DEF Agrees
  <2> QED BY <2>1, <2>2 DEF Settled
<1> QED BY <1>3, <1>4

LEMMA IdsAreNumbers == \A p \in Pets \cup {0} : p \in Nat
BY PetIds

LEMMA MarksAreNumbers == \A m \in Pets \cup Foreign \cup {0, -1, -2} : m \in Int
BY PetIds

\* A step of a request that changes the book.
LEMMA BookStep ==
  ASSUME HInv, NEW r \in Requests, NEW q \in Fit, Only(r), request'[r] = q,
         Request(r), Writing(r) \/ q.pc \in BookSteps,
         Sound(q)', mintedPets <= mintedPets', Known', Lists', Rows',
         Calm /\ Alone(r) =>
           IF q.pc \in BookSteps THEN Stage(q)' ELSE Settled({})'
  PROVE  Ledger' /\ (~overlapped' => Calm')
<1>0. /\ request' \in [Requests -> Fit] /\ ingest' = ingest /\ mintedPets' \in Nat
      /\ overlapped' = (overlapped \/ Overlap')
  <2>1. Types' /\ ingest' = ingest /\ overlapped' = (overlapped \/ Overlap')
    BY RequestTypes, RequestFrame DEF HInv
  <2>2. mintedPets' \in Pets \cup {0}
    BY <2>1 DEF Types, TypeOK
  <2> QED BY <2>1, <2>2, IdsAreNumbers DEF Types, MoreTypes
<1>1. Asks'
  <2> SUFFICES ASSUME NEW s \in Requests, NEW a \in Fit, a = request'[s] PROVE Sound(a)'
    BY DEF Asks
  <2>1. CASE s = r
    BY <2>1
  <2>2. CASE s # r
    <3>1. Sound(a)
      BY <2>2 DEF Only, HInv, Ledger, Asks
    <3>2. a.pet \in Nat /\ mintedPets \in Nat
      <4>1. a.pet \in Pets \cup {0}
        BY DEF Fit, RequestType, NoPet
      <4>2. mintedPets \in Pets \cup {0}
        BY DEF HInv, Types, TypeOK
      <4> QED BY <4>1, <4>2, IdsAreNumbers
    <3>3. a.pet <= mintedPets
      BY <3>1 DEF Sound
    <3>4. a.pet <= mintedPets'
      BY <1>0, <3>2, <3>3
    <3> QED BY <3>1, <3>4 DEF Sound
  <2> QED BY <2>1, <2>2
<1>2. ASSUME ~overlapped' PROVE Calm'
  <2>1. ~overlapped /\ ~Overlap' /\ Calm /\ ~Overlap
    BY <1>0, <1>2 DEF HInv, Calm
  <2>2. Alone(r)
    <3>1. CASE Writing(r)
      BY <2>1, <3>1 DEF Alone, Overlap
    <3>2. CASE q.pc \in BookSteps
      <4>1. \A s \in Requests : s # r => ~Writing(s)'
        BY <2>1, <3>2 DEF Overlap, Writing
      <4>2. \A u \in Reports : ingest'[u] = NotRunning
        BY <2>1, <3>2 DEF Overlap, Writing
      <4> QED BY <1>0, <4>1, <4>2 DEF Alone, Writing, Only
    <3> QED BY <3>1, <3>2
  <2>3. IF q.pc \in BookSteps THEN Stage(q)' ELSE Settled({})'
    BY <2>1, <2>2
  <2>4. \A s \in Requests : s # r => ~Writing(s)'
    BY <2>2 DEF Alone, Writing, Only
  <2>5. \A u \in Reports : ingest'[u] = NotRunning
    BY <1>0, <2>2 DEF Alone
  <2>6. (\A s \in Requests : ~Writing(s)') => Settled({})'
    BY <2>3 DEF Writing
  <2>7. \A s \in Requests : \A a \in Fit : a = request'[s] /\ a.pc \in BookSteps => Stage(a)'
    BY <2>3, <2>4 DEF Writing
  <2> QED BY <2>1, <2>5, <2>6, <2>7 DEF Calm
<1> QED BY <1>1, <1>2 DEF Ledger

\* What a request that changes the book starts from.
LEMMA Before ==
  ASSUME Calm, NEW r \in Requests, NEW me \in Fit, me = request[r], Alone(r)
  PROVE  /\ me.pc \in BookSteps => Stage(me)
         /\ me.pc \notin BookSteps => Settled({})
BY DEF Calm, Alone, Writing

\* Where the book stays as it is.
LEMMA LedgerKept ==
  ASSUME Ledger, UNCHANGED <<pets, mintedPets, aliases, event, ingest>>
  PROVE  Known' /\ Lists' /\ Rows'
BY DEF Ledger, Known, Lists, Rows

LEMMA SoundKept ==
  ASSUME HInv, NEW r \in Requests, NEW me \in Fit, me = request[r], mintedPets' = mintedPets
  PROVE  Sound(me) /\ Sound(me)'
BY DEF HInv, Ledger, Asks, Sound

LEMMA StageStays ==
  ASSUME NEW q, Stage(q), UNCHANGED <<pets, aliases, event>>
  PROVE  Stage(q)'
<1>1. Settled(InFlux(q))'
  BY DEF Stage, Settled, Agrees, Knowing
<1> QED BY <1>1 DEF Stage, Knowing

\* An event's pet is one that was made.
LEMMA AttributeRows ==
  ASSUME Types, Rows, NEW ref, NEW p \in Pets \cup {NoPet}, Attribute(ref, p), p <= mintedPets,
         UNCHANGED <<mintedPets, ingest>>
  PROVE  Rows'
<1>1. \A u \in Reports : event'[u] = IF event[u] # NoRow /\ RefOf[u] = ref THEN p ELSE event[u]
  BY DEF Attribute
<1>2. \A u \in Reports : event'[u] # NoRow => event[u] # NoRow
  BY <1>1
<1> QED BY <1>1, <1>2 DEF Rows

-----------------------------------------------------------------------------
(* The steps that change the book                                          *)

LEMMA EditBeginsBook ==
  ASSUME HInv, Offered \subseteq Foreign, NEW r \in Requests, EditBegins(r)
  PROVE  Ledger' /\ (~overlapped' => Calm')
<1>1. PICK p \in pets, wanted \in SUBSET Offered :
        Begin(r, [Idle EXCEPT !.pc = "update", !.pet = p,
                              !.drop = aliases[p] \ wanted, !.take = wanted])
  BY DEF EditBegins
<1>2. PICK q : q = [Idle EXCEPT !.pc = "update", !.pet = p,
                                !.drop = aliases[p] \ wanted, !.take = wanted]
  OBVIOUS
<1>3. /\ q.pc = "update" /\ q.pet = p /\ q.take = wanted /\ q.read = {}
      /\ q.drop = aliases[p] \ wanted
  BY <1>2 DEF Idle
<1>4. Only(r) /\ request'[r] = q /\ At(r, "idle")
  BY <1>1, <1>2, GoMoves DEF Begin, At, HInv, Types
<1>5. q \in Fit /\ Request(r)
  BY <1>4, EditMoves DEF Request, HInv
<1>6. UNCHANGED <<pets, mintedPets, aliases, event, ingest>>
  BY DEF EditBegins, book
<1>7. p \in Pets /\ p <= mintedPets /\ aliases[p] \subseteq Foreign
  BY DEF HInv, Types, TypeOK, Ledger, Known, Lists
<1>8. Sound(q)'
  BY <1>3, <1>6, <1>7 DEF Sound
<1>9. ASSUME Calm, Alone(r) PROVE Stage(q)'
  <2>1. Settled({})
    BY <1>4, <1>9 DEF Calm, Alone, Writing, At, BookSteps
  <2>2. InFlux(q) = {}
    BY <1>3 DEF InFlux
  <2>3. Stage(q)
    BY <1>3, <2>1, <2>2 DEF Stage, Editing, Claims
  <2> QED BY <1>6, <2>3, StageStays
<1>10. mintedPets <= mintedPets' /\ q.pc \in BookSteps
  BY <1>3, <1>6, IdsAreNumbers DEF BookSteps, HInv, Types, TypeOK
<1>11. Known' /\ Lists' /\ Rows'
  BY <1>6, LedgerKept DEF HInv
<1> QED BY <1>4, <1>5, <1>8, <1>9, <1>10, <1>11, BookStep

LEMMA EditUpdatesBook ==
  ASSUME HInv, NEW r \in Requests, EditUpdates(r)
  PROVE  Ledger' /\ (~overlapped' => Calm')
<1>1. PICK me \in Fit : me = request[r]
  BY DEF HInv, Types, MoreTypes
<1>2. /\ me.pc = "update" /\ Writing(r) /\ me.pet \in Pets
      /\ UNCHANGED <<pets, mintedPets, event, ingest>>
  BY <1>1 DEF EditUpdates, At, Writing, BookSteps, HInv, Types, TypeOK
<1>3. Request(r) /\ mintedPets <= mintedPets'
  BY <1>2, IdsAreNumbers DEF Request, HInv, Types, TypeOK
<1>4. Sound(me) /\ Sound(me)'
  BY <1>1, <1>2, SoundKept
<1>5. CASE me.pet \in pets
  <2>1. aliases' = [aliases EXCEPT ![me.pet] = me.take] /\ Go(r, [me EXCEPT !.pc = "reread"])
    BY <1>1, <1>5 DEF EditUpdates
  <2>2. PICK q : q = [me EXCEPT !.pc = "reread"]
    OBVIOUS
  <2>3. /\ q.pc = "reread" /\ q.pet = me.pet /\ q.take = me.take /\ q.drop = me.drop
        /\ q.read = me.read
    BY <2>2 DEF Fit, RequestType
  <2>4. Only(r) /\ request'[r] = q
    BY <2>1, <2>2, GoMoves DEF HInv, Types
  <2>5. q \in Fit
    BY <2>4, EditMoves DEF HInv
  <2>6. aliases'[me.pet] = me.take /\ \A p \in Pets : p # me.pet => aliases'[p] = aliases[p]
    BY <1>2, <2>1 DEF HInv, Types, TypeOK
  <2>7. Sound(q)'
    BY <1>4, <2>3 DEF Sound
  <2>8. Lists'
    BY <1>2, <1>4, <1>5, <2>6 DEF HInv, Ledger, Lists, Sound
  <2>9. Known' /\ Rows'
    BY <1>2 DEF HInv, Ledger, Known, Rows
  <2>10. ASSUME Calm, Alone(r) PROVE Stage(q)'
    <3>1. Stage(me)
      BY <1>1, <1>2, <2>10, Before DEF BookSteps
    <3>2. Settled({}) /\ me.drop = aliases[me.pet] \ me.take
      BY <1>2, <3>1 DEF Stage, InFlux
    <3>3. me.drop \subseteq Foreign /\ pets \subseteq Pets
      BY <1>4 DEF Sound, HInv, Types, TypeOK
    <3>4. ASSUME NEW ref \in Refs \ (me.drop \cup me.take) PROVE Knowing(ref)' = Knowing(ref)
      <4>1. ref \notin aliases[me.pet] /\ ref \notin aliases'[me.pet]
        BY <2>6, <3>2
      <4>2. \A p \in pets : ref \in aliases'[p] <=> ref \in aliases[p]
        BY <2>6, <3>3, <4>1
      <4> QED BY <1>2, <4>2 DEF Knowing
    <3>5. Settled(me.drop \cup me.take)'
      BY <1>2, <3>2, <3>4, SettledStays
    <3>6. ASSUME NEW ref \in me.drop PROVE Knowing(ref)' = {}
      <4>1. ref \in Foreign /\ ref \in Refs /\ ref \notin me.take /\ ref \in aliases[me.pet]
        BY <3>2, <3>3 DEF Refs
      <4>2. me.pet \in Knowing(ref)
        BY <1>5, <4>1 DEF Knowing
      <4>3. Knowing(ref) = {me.pet}
        BY <3>2, <4>1, <4>2 DEF Settled
      <4>4. \A p \in pets : ref \notin aliases'[p] /\ p # ref
        BY <2>6, <3>3, <4>1, <4>3, PetIds DEF Knowing
      <4> QED BY <1>2, <4>4 DEF Knowing
    <3>7. InFlux(q) = me.drop \cup me.take
      BY <2>3 DEF InFlux
    <3>8. Settled(InFlux(q))'
      BY <3>5, <3>7
    <3> QED BY <1>2, <1>5, <2>3, <2>6, <3>6, <3>8 DEF Stage, Editing, Claims
  <2>11. q.pc \in BookSteps
    BY <2>3 DEF BookSteps
  <2> QED BY <1>2, <1>3, <2>4, <2>5, <2>7, <2>8, <2>9, <2>10, <2>11, BookStep
<1>6. CASE me.pet \notin pets
  <2>1. aliases' = aliases /\ Go(r, Idle)
    BY <1>1, <1>6 DEF EditUpdates
  <2>2. Only(r) /\ request'[r] = Idle
    BY <2>1, GoMoves DEF HInv, Types
  <2>3. Known' /\ Lists' /\ Rows'
    BY <1>2, <2>1, LedgerKept DEF HInv
  <2>4. Sound(Idle)'
    BY <1>2, IdsAreNumbers DEF Sound, Idle, NoPet, HInv, Types, TypeOK
  <2>5. ~(Calm /\ Alone(r))
    BY <1>1, <1>2, <1>6, Before DEF Stage, BookSteps
  <2> QED BY <1>2, <1>3, <2>2, <2>3, <2>4, <2>5, IdleIsFit, BookStep
<1> QED BY <1>5, <1>6

\* A request that gives up, which it never does while it is alone.
LEMMA GivesUp ==
  ASSUME HInv, NEW r \in Requests, Writing(r), Request(r), Go(r, Idle),
         UNCHANGED <<pets, mintedPets, aliases, event, ingest>>,
         Calm /\ Alone(r) => Settled({})
  PROVE  Ledger' /\ (~overlapped' => Calm')
<1>1. Only(r) /\ request'[r] = Idle
  BY GoMoves DEF HInv, Types
<1>2. Known' /\ Lists' /\ Rows'
  BY LedgerKept DEF HInv
<1>3. Sound(Idle)' /\ mintedPets <= mintedPets'
  BY IdsAreNumbers DEF Sound, Idle, NoPet, HInv, Types, TypeOK
<1>4. Idle.pc \notin BookSteps
  BY DEF Idle, BookSteps
<1>5. Calm /\ Alone(r) => Settled({})'
  BY SettledWiden
<1> QED BY <1>1, <1>2, <1>3, <1>4, <1>5, IdleIsFit, BookStep

\* A step that reads the book and leaves it as it is.
LEMMA ReadStep ==
  ASSUME HInv, NEW r \in Requests, NEW q \in Fit, Only(r), request'[r] = q, Request(r),
         q.pc \in BookSteps, UNCHANGED <<pets, mintedPets, aliases, event, ingest>>,
         Sound(q), Calm /\ Alone(r) => Stage(q)
  PROVE  Ledger' /\ (~overlapped' => Calm')
<1>1. Known' /\ Lists' /\ Rows'
  BY LedgerKept DEF HInv
<1>2. Sound(q)' /\ mintedPets <= mintedPets'
  BY IdsAreNumbers DEF Sound, HInv, Types, TypeOK
<1>3. Calm /\ Alone(r) => Stage(q)'
  BY StageStays
<1> QED BY <1>1, <1>2, <1>3, BookStep

LEMMA EditRereadsBook ==
  ASSUME HInv, NEW r \in Requests, EditRereads(r)
  PROVE  Ledger' /\ (~overlapped' => Calm')
<1>1. PICK me \in Fit : me = request[r]
  BY DEF HInv, Types, MoreTypes
<1>2. /\ me.pc = "reread" /\ Writing(r) /\ Request(r)
      /\ UNCHANGED <<pets, mintedPets, aliases, event, ingest>>
  BY <1>1 DEF EditRereads, At, Writing, BookSteps, book, Request
<1>3. Sound(me)
  BY <1>1, <1>2, SoundKept
<1>4. ASSUME Calm, Alone(r) PROVE Stage(me) /\ me.pet \in pets
  <2>1. Stage(me)
    BY <1>1, <1>2, <1>4, Before DEF BookSteps
  <2> QED BY <1>2, <2>1 DEF Stage
<1>5. CASE me.pet \in pets
  <2>1. Go(r, [me EXCEPT !.pc = "unbind"])
    BY <1>1, <1>5 DEF EditRereads
  <2>2. PICK q : q = [me EXCEPT !.pc = "unbind"]
    OBVIOUS
  <2>3. /\ q.pc = "unbind" /\ q.pet = me.pet /\ q.take = me.take /\ q.drop = me.drop
        /\ q.read = me.read
    BY <2>2 DEF Fit, RequestType
  <2>4. Only(r) /\ request'[r] = q
    BY <2>1, <2>2, GoMoves DEF HInv, Types
  <2>5. q \in Fit
    BY <2>4, EditMoves DEF HInv
  <2>6. Sound(q) /\ q.pc \in BookSteps
    BY <1>3, <2>3 DEF Sound, BookSteps
  <2>7. ASSUME Calm, Alone(r) PROVE Stage(q)
    <3>1. InFlux(q) = InFlux(me)
      BY <1>2, <2>3 DEF InFlux
    <3>2. Settled(InFlux(q))
      BY <1>4, <2>7, <3>1 DEF Stage
    <3> QED BY <1>2, <1>4, <2>3, <2>7, <3>2 DEF Stage, Editing, Claims
  <2> QED BY <1>2, <2>4, <2>5, <2>6, <2>7, ReadStep
<1>6. CASE me.pet \notin pets
  <2>1. Go(r, Idle)
    BY <1>1, <1>6 DEF EditRereads
  <2> QED BY <1>2, <1>4, <1>6, <2>1, GivesUp
<1> QED BY <1>5, <1>6

LEMMA EditUnbindsBook ==
  ASSUME HInv, NEW r \in Requests, EditUnbinds(r)
  PROVE  Ledger' /\ (~overlapped' => Calm')
<1>1. PICK me \in Fit : me = request[r]
  BY DEF HInv, Types, MoreTypes
<1>2. /\ me.pc = "unbind" /\ Writing(r) /\ Request(r)
      /\ UNCHANGED <<pets, mintedPets, aliases, ingest>>
  BY <1>1 DEF EditUnbinds, At, Writing, BookSteps, Request
<1>3. Sound(me) /\ mintedPets \in Nat
  BY <1>1, <1>2, SoundKept, IdsAreNumbers DEF HInv, Types, TypeOK
<1>4. ASSUME Calm, Alone(r) PROVE Stage(me)
  BY <1>1, <1>2, <1>4, Before DEF BookSteps
<1>5. ASSUME NEW ref \in me.drop, Attribute(ref, NoPet), Go(r, [me EXCEPT !.drop = @ \ {ref}])
      PROVE  Ledger' /\ (~overlapped' => Calm')
  <2>1. PICK q : q = [me EXCEPT !.drop = @ \ {ref}]
    OBVIOUS
  <2>2. /\ q.pc = "unbind" /\ q.pet = me.pet /\ q.take = me.take /\ q.drop = me.drop \ {ref}
        /\ q.read = me.read
    BY <1>2, <2>1 DEF Fit, RequestType
  <2>3. Only(r) /\ request'[r] = q
    BY <1>5, <2>1, GoMoves DEF HInv, Types
  <2>4. q \in Fit
    BY <2>3, EditMoves DEF HInv
  <2>5. Sound(q)' /\ q.pc \in BookSteps /\ mintedPets <= mintedPets' /\ ref \in Foreign
    BY <1>2, <1>3, <2>2 DEF Sound, BookSteps
  <2>6. Known' /\ Lists'
    BY <1>2 DEF HInv, Ledger, Known, Lists
  <2>7. Rows'
    BY <1>2, <1>3, <1>5, AttributeRows DEF HInv, Ledger, NoPet
  <2>8. ASSUME Calm, Alone(r) PROVE Stage(q)'
    <3>1. /\ Knowing(ref) = {} /\ Settled(me.drop \cup me.take) /\ me.pet \in pets
          /\ \A a \in me.drop : Knowing(a) = {}
          /\ me.take \subseteq aliases[me.pet]
      BY <1>2, <1>4, <1>5, <2>8 DEF Stage, InFlux, Editing
    <3>2. me.drop \cup me.take \subseteq ((me.drop \ {ref}) \cup me.take) \cup {ref}
      OBVIOUS
    <3>3. Settled((me.drop \ {ref}) \cup me.take)'
      BY <1>2, <1>5, <2>5, <3>1, <3>2, AttributeSettles DEF HInv
    <3>4. InFlux(q) = (me.drop \ {ref}) \cup me.take
      BY <2>2 DEF InFlux
    <3>5. Settled(InFlux(q))'
      BY <3>3, <3>4
    <3> QED BY <1>2, <2>2, <3>1, <3>5 DEF Stage, Editing, Claims, Knowing
  <2> QED BY <1>2, <2>3, <2>4, <2>5, <2>6, <2>7, <2>8, BookStep
<1>6. ASSUME me.drop = {}, event' = event, Go(r, [me EXCEPT !.pc = "claim"])
      PROVE  Ledger' /\ (~overlapped' => Calm')
  <2>1. PICK q : q = [me EXCEPT !.pc = "claim"]
    OBVIOUS
  <2>2. /\ q.pc = "claim" /\ q.pet = me.pet /\ q.take = me.take /\ q.drop = me.drop
        /\ q.read = me.read
    BY <1>2, <2>1 DEF Fit, RequestType
  <2>3. Only(r) /\ request'[r] = q
    BY <1>6, <2>1, GoMoves DEF HInv, Types
  <2>4. q \in Fit
    BY <2>3, EditMoves DEF HInv
  <2>5. Sound(q) /\ q.pc \in BookSteps
    BY <1>3, <2>2 DEF Sound, BookSteps
  <2>6. ASSUME Calm, Alone(r) PROVE Stage(q)
    <3>1. InFlux(q) = InFlux(me)
      BY <1>2, <2>2 DEF InFlux
    <3>2. Settled(InFlux(q))
      BY <1>4, <2>6, <3>1 DEF Stage
    <3> QED BY <1>2, <1>4, <1>6, <2>2, <2>6, <3>2 DEF Stage, Editing, Claims
  <2> QED BY <1>2, <1>6, <2>3, <2>4, <2>5, <2>6, ReadStep
<1> QED BY <1>1, <1>5, <1>6 DEF EditUnbinds

LEMMA EditClaimsBook ==
  ASSUME HInv, NEW r \in Requests, EditClaims(r)
  PROVE  Ledger' /\ (~overlapped' => Calm')
<1>1. PICK me \in Fit : me = request[r]
  BY DEF HInv, Types, MoreTypes
<1>2. /\ me.pc = "claim" /\ Writing(r) /\ Request(r)
      /\ UNCHANGED <<pets, mintedPets, aliases, event, ingest>>
  BY <1>1 DEF EditClaims, At, Writing, BookSteps, book, Request
<1>3. Sound(me)
  BY <1>1, <1>2, SoundKept
<1>4. ASSUME Calm, Alone(r)
      PROVE  /\ Settled(me.take) /\ me.pet \in pets /\ me.drop = {}
             /\ me.take \subseteq aliases[me.pet]
  <2>1. Stage(me)
    BY <1>1, <1>2, <1>4, Before DEF BookSteps
  <2>2. me.drop = {} /\ me.pet \in pets /\ me.take \subseteq aliases[me.pet]
    BY <1>2, <2>1 DEF Stage, Editing
  <2>3. InFlux(me) = me.take
    BY <1>2, <2>2 DEF InFlux
  <2> QED BY <2>1, <2>2, <2>3 DEF Stage
<1>5. ASSUME NEW ref \in me.take,
             Go(r, [me EXCEPT !.pc = "read", !.ref = ref, !.take = @ \ {ref},
                              !.others = Claiming(ref) \ {me.pet}])
      PROVE  Ledger' /\ (~overlapped' => Calm')
  <2>1. PICK q : q = [me EXCEPT !.pc = "read", !.ref = ref, !.take = @ \ {ref},
                                !.others = Claiming(ref) \ {me.pet}]
    OBVIOUS
  <2>2. /\ q.pc = "read" /\ q.pet = me.pet /\ q.take = me.take \ {ref} /\ q.drop = me.drop
        /\ q.read = me.read /\ q.ref = ref /\ q.others = Claiming(ref) \ {me.pet}
    BY <2>1 DEF Fit, RequestType
  <2>3. Only(r) /\ request'[r] = q
    BY <1>5, <2>1, GoMoves DEF HInv, Types
  <2>4. q \in Fit
    BY <2>3, EditMoves DEF HInv
  <2>5. Sound(q) /\ q.pc \in BookSteps /\ ref \in Foreign
    BY <1>3, <2>2 DEF Sound, BookSteps
  <2>6. ASSUME Calm, Alone(r) PROVE Stage(q)
    <3>1. InFlux(q) = me.take
      BY <2>2 DEF InFlux
    <3>2. Settled(InFlux(q))
      BY <1>4, <2>6, <3>1
    <3>3. Knowing(ref) \subseteq {me.pet} \cup q.others
      BY <2>2, <2>5, KnowingIsClaiming DEF HInv
    <3> QED BY <1>4, <2>2, <2>5, <2>6, <3>2, <3>3 DEF Stage, Editing, Claims
  <2> QED BY <1>2, <2>3, <2>4, <2>5, <2>6, ReadStep
<1>6. ASSUME me.take = {}, Go(r, Idle) PROVE Ledger' /\ (~overlapped' => Calm')
  <2>1. Calm /\ Alone(r) => Settled({})
    BY <1>4, <1>6
  <2> QED BY <1>2, <1>6, <2>1, GivesUp
<1> QED BY <1>1, <1>5, <1>6 DEF EditClaims

LEMMA EditReadsOtherBook ==
  ASSUME HInv, NEW r \in Requests, EditReadsOther(r)
  PROVE  Ledger' /\ (~overlapped' => Calm')
<1>1. PICK me \in Fit : me = request[r]
  BY DEF HInv, Types, MoreTypes
<1>2. /\ me.pc = "read" /\ Writing(r) /\ Request(r)
      /\ UNCHANGED <<pets, mintedPets, aliases, event, ingest>>
  BY <1>1 DEF EditReadsOther, At, Writing, BookSteps, book, Request
<1>3. Sound(me)
  BY <1>1, <1>2, SoundKept
<1>4. ASSUME Calm, Alone(r)
      PROVE  /\ Settled(me.take \cup {me.ref}) /\ me.pet \in pets /\ me.drop = {}
             /\ me.take \subseteq aliases[me.pet]
             /\ me.ref \in Foreign /\ me.ref \in aliases[me.pet]
             /\ Knowing(me.ref) \subseteq {me.pet} \cup me.others /\ me.pet \notin me.others
  <2>1. Stage(me)
    BY <1>1, <1>2, <1>4, Before DEF BookSteps
  <2>2. InFlux(me) = me.take \cup {me.ref}
    BY <1>2 DEF InFlux
  <2> QED BY <1>2, <2>1, <2>2 DEF Stage, Editing, Claims
<1>5. ASSUME NEW o \in me.others,
             Go(r, [me EXCEPT !.pc = "write", !.others = @ \ {o}, !.other = o,
                              !.read = IF o \in pets THEN aliases[o] ELSE {}])
      PROVE  Ledger' /\ (~overlapped' => Calm')
  <2>1. PICK q : q = [me EXCEPT !.pc = "write", !.others = @ \ {o}, !.other = o,
                                !.read = IF o \in pets THEN aliases[o] ELSE {}]
    OBVIOUS
  <2>2. /\ q.pc = "write" /\ q.pet = me.pet /\ q.take = me.take /\ q.drop = me.drop
        /\ q.read = (IF o \in pets THEN aliases[o] ELSE {}) /\ q.ref = me.ref
        /\ q.others = me.others \ {o} /\ q.other = o
    BY <2>1 DEF Fit, RequestType
  <2>3. Only(r) /\ request'[r] = q
    BY <1>5, <2>1, GoMoves DEF HInv, Types
  <2>4. q \in Fit
    BY <2>3, EditMoves DEF HInv
  <2>5. Sound(q) /\ q.pc \in BookSteps
    <3>1. o \in pets => o \in Pets /\ aliases[o] \subseteq Foreign
      BY DEF HInv, Types, TypeOK, Ledger, Lists
    <3> QED BY <1>3, <2>2, <3>1 DEF Sound, BookSteps
  <2>6. ASSUME Calm, Alone(r) PROVE Stage(q)
    <3>1. InFlux(q) = me.take \cup {me.ref}
      BY <2>2 DEF InFlux
    <3>2. Settled(InFlux(q))
      BY <1>4, <2>6, <3>1
    <3> QED BY <1>4, <1>5, <2>2, <2>6, <3>2 DEF Stage, Editing, Claims
  <2> QED BY <1>2, <2>3, <2>4, <2>5, <2>6, ReadStep
<1>6. ASSUME me.others = {}, Go(r, [me EXCEPT !.pc = "bind"])
      PROVE  Ledger' /\ (~overlapped' => Calm')
  <2>1. PICK q : q = [me EXCEPT !.pc = "bind"]
    OBVIOUS
  <2>2. /\ q.pc = "bind" /\ q.pet = me.pet /\ q.take = me.take /\ q.drop = me.drop
        /\ q.read = me.read /\ q.ref = me.ref
    BY <2>1 DEF Fit, RequestType
  <2>3. Only(r) /\ request'[r] = q
    BY <1>6, <2>1, GoMoves DEF HInv, Types
  <2>4. q \in Fit
    BY <2>3, EditMoves DEF HInv
  <2>5. Sound(q) /\ q.pc \in BookSteps
    BY <1>3, <2>2 DEF Sound, BookSteps
  <2>6. ASSUME Calm, Alone(r) PROVE Stage(q)
    <3>1. InFlux(q) = me.take \cup {me.ref}
      BY <2>2 DEF InFlux
    <3>2. Settled(InFlux(q))
      BY <1>4, <2>6, <3>1
    <3>3. Knowing(me.ref) = {me.pet}
      BY <1>4, <1>6, <2>6 DEF Knowing
    <3> QED BY <1>4, <2>2, <2>6, <3>2, <3>3 DEF Stage, Editing, Claims
  <2> QED BY <1>2, <2>3, <2>4, <2>5, <2>6, ReadStep
<1> QED BY <1>1, <1>5, <1>6 DEF EditReadsOther

LEMMA EditStripsOtherBook ==
  ASSUME HInv, NEW r \in Requests, EditStripsOther(r)
  PROVE  Ledger' /\ (~overlapped' => Calm')
<1>1. PICK me \in Fit : me = request[r]
  BY DEF HInv, Types, MoreTypes
<1>2. /\ me.pc = "write" /\ Writing(r) /\ Request(r) /\ me.other \in Pets
      /\ aliases' = IF me.other \in pets
                    THEN [aliases EXCEPT ![me.other] = me.read \ {me.ref}] ELSE aliases
      /\ Go(r, [me EXCEPT !.pc = "read", !.read = {}, !.other = NoPet])
      /\ UNCHANGED <<pets, mintedPets, event, ingest>>
  BY <1>1 DEF EditStripsOther, At, Writing, BookSteps, Request, Fit, Equipped
<1>3. Sound(me)
  BY <1>1, <1>2, SoundKept
<1>4. PICK q : q = [me EXCEPT !.pc = "read", !.read = {}, !.other = NoPet]
  OBVIOUS
<1>5. /\ q.pc = "read" /\ q.pet = me.pet /\ q.take = me.take /\ q.drop = me.drop
      /\ q.read = {} /\ q.ref = me.ref /\ q.others = me.others
  BY <1>4 DEF Fit, RequestType
<1>6. Only(r) /\ request'[r] = q
  BY <1>2, <1>4, GoMoves DEF HInv, Types
<1>7. q \in Fit
  BY <1>6, EditMoves DEF HInv
<1>8. Sound(q)' /\ q.pc \in BookSteps /\ mintedPets <= mintedPets'
  BY <1>2, <1>3, <1>5, IdsAreNumbers DEF Sound, BookSteps, HInv, Types, TypeOK
<1>9. \A p \in Pets : aliases'[p] = IF p = me.other /\ p \in pets THEN me.read \ {me.ref}
                                    ELSE aliases[p]
  BY <1>2 DEF HInv, Types, TypeOK
<1>10. Known' /\ Rows'
  BY <1>2 DEF HInv, Ledger, Known, Rows
<1>11. Lists'
  BY <1>2, <1>3, <1>9 DEF HInv, Ledger, Lists, Sound
<1>12. ASSUME Calm, Alone(r) PROVE Stage(q)'
  <2>1. Stage(me) /\ pets \subseteq Pets
    BY <1>1, <1>2, <1>12, Before DEF BookSteps, HInv, Types, TypeOK
  <2>2. /\ me.pet \in pets /\ me.drop = {} /\ me.take \subseteq aliases[me.pet]
        /\ me.ref \in Foreign /\ me.ref \in aliases[me.pet]
        /\ Knowing(me.ref) \subseteq {me.pet, me.other} \cup me.others
        /\ me.pet \notin me.others \cup {me.other}
        /\ me.other \in pets => me.read = aliases[me.other]
    BY <1>2, <2>1 DEF Stage, Editing, Claims
  <2>3. InFlux(me) = me.take \cup {me.ref} /\ InFlux(q) = me.take \cup {me.ref}
    BY <1>2, <1>5 DEF InFlux
  <2>4. Settled(me.take \cup {me.ref})
    BY <2>1, <2>3 DEF Stage
  <2>5. \A p \in pets : aliases'[p] = IF p = me.other THEN aliases[p] \ {me.ref} ELSE aliases[p]
    BY <1>9, <2>1, <2>2
  <2>6. ASSUME NEW a \in Refs \ (me.take \cup {me.ref}) PROVE Knowing(a)' = Knowing(a)
    <3>1. \A p \in pets : a \in aliases'[p] <=> a \in aliases[p]
      BY <2>5
    <3> QED BY <1>2, <3>1 DEF Knowing
  <2>7. Settled(me.take \cup {me.ref})'
    BY <1>2, <2>4, <2>6, SettledStays
  <2>8. Settled(InFlux(q))'
    BY <2>3, <2>7
  <2>9. Knowing(me.ref)' \subseteq {me.pet} \cup me.others
    <3>1. \A p \in pets : me.ref \in aliases'[p] => me.ref \in aliases[p] /\ p # me.other
      BY <2>5
    <3>2. \A p \in pets : p # me.ref
      BY <2>1, <2>2, PetIds
    <3> QED BY <1>2, <2>2, <3>1, <3>2 DEF Knowing
  <2>10. aliases'[me.pet] = aliases[me.pet]
    BY <2>2, <2>5
  <2> QED BY <1>2, <1>5, <2>2, <2>8, <2>9, <2>10 DEF Stage, Editing, Claims
<1> QED BY <1>2, <1>6, <1>7, <1>8, <1>10, <1>11, <1>12, BookStep

LEMMA EditBindsBook ==
  ASSUME HInv, NEW r \in Requests, EditBinds(r)
  PROVE  Ledger' /\ (~overlapped' => Calm')
<1>1. PICK me \in Fit : me = request[r]
  BY DEF HInv, Types, MoreTypes
<1>2. /\ me.pc = "bind" /\ Writing(r) /\ Request(r) /\ me.pet \in Pets /\ me.ref \in Refs
      /\ Attribute(me.ref, me.pet) /\ Go(r, [me EXCEPT !.pc = "claim"])
      /\ UNCHANGED <<pets, mintedPets, aliases, ingest>>
  BY <1>1 DEF EditBinds, At, Writing, BookSteps, Request, Fit, Equipped
<1>3. Sound(me)
  BY <1>1, <1>2, SoundKept
<1>4. PICK q : q = [me EXCEPT !.pc = "claim"]
  OBVIOUS
<1>5. q.pc = "claim" /\ q.pet = me.pet /\ q.take = me.take /\ q.drop = me.drop /\ q.read = me.read
  BY <1>4 DEF Fit, RequestType
<1>6. Only(r) /\ request'[r] = q
  BY <1>2, <1>4, GoMoves DEF HInv, Types
<1>7. q \in Fit
  BY <1>6, EditMoves DEF HInv
<1>8. Sound(q)' /\ q.pc \in BookSteps /\ mintedPets <= mintedPets'
  BY <1>2, <1>3, <1>5, IdsAreNumbers DEF Sound, BookSteps, HInv, Types, TypeOK
<1>9. Known' /\ Lists'
  BY <1>2 DEF HInv, Ledger, Known, Lists
<1>10. Rows'
  BY <1>2, <1>3, AttributeRows DEF HInv, Ledger, Sound
<1>11. ASSUME Calm, Alone(r) PROVE Stage(q)'
  <2>1. Stage(me)
    BY <1>1, <1>2, <1>11, Before DEF BookSteps
  <2>2. /\ me.pet \in pets /\ me.drop = {} /\ me.take \subseteq aliases[me.pet]
        /\ me.ref \in Foreign /\ Knowing(me.ref) = {me.pet}
    BY <1>2, <2>1 DEF Stage, Editing, Claims
  <2>3. InFlux(me) = me.take \cup {me.ref} /\ InFlux(q) = me.take
    BY <1>2, <1>5, <2>2 DEF InFlux
  <2>4. Settled(me.take \cup {me.ref})
    BY <2>1, <2>3 DEF Stage
  <2>5. Settled(me.take)'
    BY <1>2, <2>2, <2>4, AttributeSettles DEF HInv
  <2>6. Settled(InFlux(q))'
    BY <2>3, <2>5
  <2> QED BY <1>2, <1>5, <2>2, <2>6 DEF Stage, Editing, Claims
<1> QED BY <1>2, <1>6, <1>7, <1>8, <1>9, <1>10, <1>11, BookStep

LEMMA ImportBeginsBook ==
  ASSUME HInv, NEW r \in Requests, ImportBegins(r)
  PROVE  Ledger' /\ (~overlapped' => Calm')
<1>1. PICK ref \in Foreign : Resolve(ref) = NoPet /\ Begin(r, [Idle EXCEPT !.pc = "create", !.ref = ref])
  BY DEF ImportBegins
<1>2. PICK q : q = [Idle EXCEPT !.pc = "create", !.ref = ref]
  OBVIOUS
<1>3. /\ q.pc = "create" /\ q.pet = NoPet /\ q.take = {} /\ q.read = {} /\ q.drop = {} /\ q.ref = ref
  BY <1>2 DEF Idle
<1>4. Only(r) /\ request'[r] = q /\ At(r, "idle")
  BY <1>1, <1>2, GoMoves DEF Begin, At, HInv, Types
<1>5. q \in Fit /\ Request(r)
  BY <1>4, ImportMoves DEF Request, HInv
<1>6. UNCHANGED <<pets, mintedPets, aliases, event, ingest>> /\ q.pc \in BookSteps
  BY <1>3 DEF ImportBegins, book, BookSteps
<1>7. Sound(q)
  <2>1. mintedPets \in Nat
    BY IdsAreNumbers DEF HInv, Types, TypeOK
  <2> QED BY <1>3, <2>1 DEF Sound, NoPet
<1>8. ASSUME Calm, Alone(r) PROVE Stage(q)
  <2>1. Settled({})
    BY <1>4, <1>8 DEF Calm, Alone, Writing, At, BookSteps
  <2>2. InFlux(q) = {}
    BY <1>3 DEF InFlux
  <2>3. Knowing(ref) = {}
    BY <1>1, ResolveKnows, PetIds DEF HInv, Types, NoPet
  <2> QED BY <1>3, <2>1, <2>2, <2>3 DEF Stage, Editing, Claims
<1> QED BY <1>4, <1>5, <1>6, <1>7, <1>8, ReadStep

LEMMA ImportCreatesBook ==
  ASSUME HInv, NEW r \in Requests, ImportCreates(r)
  PROVE  Ledger' /\ (~overlapped' => Calm')
<1>1. PICK me \in Fit : me = request[r]
  BY DEF HInv, Types, MoreTypes
<1>2. PICK n : n = mintedPets + 1
  OBVIOUS
<1>3. /\ me.pc = "create" /\ Writing(r) /\ Request(r) /\ n \in Pets /\ me.ref \in Foreign
      /\ mintedPets' = n /\ pets' = pets \cup {n}
      /\ Go(r, [me EXCEPT !.pc = "alias", !.pet = n])
      /\ UNCHANGED <<aliases, event, ingest>>
  BY <1>1, <1>2 DEF ImportCreates, At, Writing, BookSteps, Request, Fit, Equipped
<1>4. Sound(me) /\ mintedPets \in Nat /\ n \in Nat /\ n > mintedPets
  BY <1>1, <1>2, IdsAreNumbers DEF HInv, Ledger, Asks, Types, TypeOK
<1>5. PICK q : q = [me EXCEPT !.pc = "alias", !.pet = n]
  OBVIOUS
<1>6. /\ q.pc = "alias" /\ q.pet = n /\ q.take = me.take /\ q.drop = me.drop
      /\ q.read = me.read /\ q.ref = me.ref
  BY <1>5 DEF Fit, RequestType
<1>7. Only(r) /\ request'[r] = q
  BY <1>3, <1>5, GoMoves DEF HInv, Types
<1>8. q \in Fit
  BY <1>7, ImportMoves DEF HInv
<1>9. Sound(q)' /\ q.pc \in BookSteps /\ mintedPets <= mintedPets'
  BY <1>3, <1>4, <1>6 DEF Sound, BookSteps
<1>10. \A p \in pets : p \in Nat /\ p <= mintedPets
  BY IdsAreNumbers DEF HInv, Types, TypeOK, Ledger, Known
<1>11. n \notin pets /\ aliases[n] = {} /\ pets \subseteq Pets
  BY <1>3, <1>4, <1>10 DEF HInv, Types, TypeOK, Ledger, Lists
<1>12. Known'
  BY <1>3, <1>4, <1>10 DEF Known
<1>13. Lists'
  BY <1>3 DEF HInv, Ledger, Lists
<1>14. Rows'
  <2>1. ASSUME NEW u \in Reports
        PROVE  /\ event[u] <= n /\ ingest[u] <= n
               /\ RefOf[u] <= mintedPets => RefOf[u] <= n
    <3>1. event[u] \in Pets \cup {0, -1} /\ ingest[u] \in Pets \cup {0, -2} /\ RefOf[u] \in Pets \cup Foreign
      BY ReportRefs DEF HInv, Types, TypeOK, NoPet, NoRow, NotRunning, Refs
    <3>2. event[u] \in Int /\ ingest[u] \in Int /\ RefOf[u] \in Int
      BY <3>1, MarksAreNumbers
    <3>3. event[u] <= mintedPets /\ ingest[u] <= mintedPets
      BY DEF HInv, Ledger, Rows
    <3> QED BY <1>4, <3>2, <3>3
  <2> QED BY <1>3, <2>1 DEF HInv, Ledger, Rows
<1>15. ASSUME Calm, Alone(r) PROVE Stage(q)'
  <2>1. Stage(me)
    BY <1>1, <1>3, <1>15, Before DEF BookSteps
  <2>2. Settled({}) /\ Knowing(me.ref) = {}
    BY <1>3, <2>1 DEF Stage, InFlux
  <2>3. \A a : a # n => Knowing(a)' = Knowing(a)
    BY <1>3, <1>11 DEF Knowing
  <2>4. Knowing(n)' = {n}
    <3>1. \A p \in pets : n \notin aliases[p]
      BY <1>3, <1>11, PetIds DEF HInv, Ledger, Lists
    <3> QED BY <1>3, <1>11, <3>1 DEF Knowing
  <2>5. \A u \in Reports : event[u] \in Pets \ pets => event[u] \notin pets'
    <3> SUFFICES ASSUME NEW u \in Reports, event[u] \in Pets PROVE event[u] # n
      BY <1>3
    <3>1. event[u] <= mintedPets /\ event[u] \in Nat
      BY IdsAreNumbers DEF HInv, Ledger, Rows
    <3> QED BY <1>4, <3>1
  <2>6. Settled({n})'
    BY <1>3, <2>2, <2>3, <2>5, SettledStays
  <2>7. ASSUME NEW u \in Reports, RefOf[u] = n PROVE event[u] = NoRow
    <3>1. n \notin Foreign /\ ~(n <= mintedPets)
      BY <1>3, <1>4, PetIds
    <3> QED BY <2>7, <3>1 DEF HInv, Ledger, Rows
  <2>8. Settled({})'
    <3>1. ASSUME NEW u \in Reports, RefOf[u] = n PROVE Agrees(u)'
      BY <1>3, <2>7, <3>1 DEF Agrees
    <3> QED BY <2>4, <2>6, <3>1 DEF Settled
  <2>9. InFlux(q) = {}
    BY <1>6 DEF InFlux
  <2>10. Settled(InFlux(q))'
    BY <2>8, <2>9
  <2>11. Knowing(q.ref)' = {}
    BY <1>3, <1>6, <2>2, <2>3, PetIds
  <2>12. aliases'[n] = {} /\ n \in pets'
    BY <1>3, <1>11
  <2> QED BY <1>6, <2>10, <2>11, <2>12 DEF Stage, Editing, Claims
<1> QED BY <1>3, <1>7, <1>8, <1>9, <1>12, <1>13, <1>14, <1>15, BookStep

LEMMA ImportNamesBook ==
  ASSUME HInv, NEW r \in Requests, ImportNames(r)
  PROVE  Ledger' /\ (~overlapped' => Calm')
<1>1. PICK me \in Fit : me = request[r]
  BY DEF HInv, Types, MoreTypes
<1>2. /\ me.pc = "alias" /\ Writing(r) /\ Request(r) /\ me.pet \in Pets /\ me.ref \in Foreign
      /\ aliases' = IF me.pet \in pets THEN [aliases EXCEPT ![me.pet] = {me.ref}] ELSE aliases
      /\ Go(r, [me EXCEPT !.pc = "bindnew"])
      /\ UNCHANGED <<pets, mintedPets, event, ingest>>
  BY <1>1 DEF ImportNames, At, Writing, BookSteps, Request, Fit, Equipped
<1>3. Sound(me)
  BY <1>1, <1>2, SoundKept
<1>4. PICK q : q = [me EXCEPT !.pc = "bindnew"]
  OBVIOUS
<1>5. /\ q.pc = "bindnew" /\ q.pet = me.pet /\ q.take = me.take /\ q.drop = me.drop
      /\ q.read = me.read /\ q.ref = me.ref
  BY <1>4 DEF Fit, RequestType
<1>6. Only(r) /\ request'[r] = q
  BY <1>2, <1>4, GoMoves DEF HInv, Types
<1>7. q \in Fit
  BY <1>6, ImportMoves DEF HInv
<1>8. Sound(q)' /\ q.pc \in BookSteps /\ mintedPets <= mintedPets'
  BY <1>2, <1>3, <1>5, IdsAreNumbers DEF Sound, BookSteps, HInv, Types, TypeOK
<1>9. \A p \in Pets : aliases'[p] = IF p = me.pet /\ p \in pets THEN {me.ref} ELSE aliases[p]
  BY <1>2 DEF HInv, Types, TypeOK
<1>10. Known' /\ Rows'
  BY <1>2 DEF HInv, Ledger, Known, Rows
<1>11. Lists'
  BY <1>2, <1>9 DEF HInv, Ledger, Lists
<1>12. ASSUME Calm, Alone(r) PROVE Stage(q)'
  <2>1. Stage(me) /\ pets \subseteq Pets
    BY <1>1, <1>2, <1>12, Before DEF BookSteps, HInv, Types, TypeOK
  <2>2. me.pet \in pets /\ Settled({}) /\ Knowing(me.ref) = {} /\ aliases[me.pet] = {}
    BY <1>2, <2>1 DEF Stage, InFlux
  <2>3. \A p \in pets : aliases'[p] = IF p = me.pet THEN {me.ref} ELSE aliases[p]
    BY <1>9, <2>1
  <2>4. \A a : a # me.ref => Knowing(a)' = Knowing(a)
    BY <1>2, <2>2, <2>3 DEF Knowing
  <2>5. Settled({me.ref})'
    BY <1>2, <2>2, <2>4, SettledStays
  <2>6. InFlux(q) = {me.ref}
    BY <1>5 DEF InFlux
  <2>7. Settled(InFlux(q))'
    BY <2>5, <2>6
  <2>8. Knowing(me.ref)' = {me.pet}
    BY <1>2, <2>2, <2>3 DEF Knowing
  <2> QED BY <1>2, <1>5, <2>2, <2>7, <2>8 DEF Stage, Editing, Claims
<1> QED BY <1>2, <1>6, <1>7, <1>8, <1>10, <1>11, <1>12, BookStep

LEMMA ImportBindsBook ==
  ASSUME HInv, NEW r \in Requests, ImportBinds(r)
  PROVE  Ledger' /\ (~overlapped' => Calm')
<1>1. PICK me \in Fit : me = request[r]
  BY DEF HInv, Types, MoreTypes
<1>2. /\ me.pc = "bindnew" /\ Writing(r) /\ Request(r) /\ me.pet \in Pets /\ me.ref \in Foreign
      /\ Attribute(me.ref, me.pet)
      /\ Go(r, [Idle EXCEPT !.pc = "upload", !.pet = me.pet]) \/ Go(r, Idle)
      /\ UNCHANGED <<pets, mintedPets, aliases, ingest>>
  BY <1>1 DEF ImportBinds, At, Writing, BookSteps, Request, Fit, Equipped
<1>3. Sound(me) /\ mintedPets \in Nat
  BY <1>1, <1>2, SoundKept, IdsAreNumbers DEF HInv, Types, TypeOK
<1>4. PICK q : /\ request'[r] = q /\ Only(r) /\ q.pc \in {"upload", "idle"}
               /\ q.pet \in {me.pet, NoPet} /\ q.take = {} /\ q.drop = {} /\ q.read = {}
  <2>1. CASE Go(r, Idle)
    BY <2>1, GoMoves DEF HInv, Types, Idle
  <2>2. CASE Go(r, [Idle EXCEPT !.pc = "upload", !.pet = me.pet])
    <3>1. PICK q : q = [Idle EXCEPT !.pc = "upload", !.pet = me.pet]
      OBVIOUS
    <3>2. q.pc = "upload" /\ q.pet = me.pet /\ q.take = {} /\ q.drop = {} /\ q.read = {}
      BY <3>1 DEF Idle
    <3>3. request'[r] = q /\ Only(r)
      BY <2>2, <3>1, GoMoves DEF HInv, Types
    <3> QED BY <3>2, <3>3
  <2> QED BY <1>2, <2>1, <2>2
<1>5. q \in Fit
  BY <1>4, ImportMoves DEF HInv
<1>6. Sound(q)' /\ q.pc \notin BookSteps /\ mintedPets <= mintedPets'
  BY <1>2, <1>3, <1>4 DEF Sound, BookSteps, NoPet
<1>7. Known' /\ Lists'
  BY <1>2 DEF HInv, Ledger, Known, Lists
<1>8. Rows'
  BY <1>2, <1>3, AttributeRows DEF HInv, Ledger, Sound
<1>9. ASSUME Calm, Alone(r) PROVE Settled({})'
  <2>1. Stage(me)
    BY <1>1, <1>2, <1>9, Before DEF BookSteps
  <2>2. Settled({me.ref}) /\ Knowing(me.ref) = {me.pet}
    BY <1>2, <2>1 DEF Stage, InFlux
  <2> QED BY <1>2, <2>2, AttributeSettles DEF HInv
<1> QED BY <1>2, <1>4, <1>5, <1>6, <1>7, <1>8, <1>9, BookStep

LEMMA DeleteBeginsBook ==
  ASSUME HInv, NEW r \in Requests, DeleteBegins(r)
  PROVE  Ledger' /\ (~overlapped' => Calm')
<1>1. PICK p \in pets : Begin(r, [Idle EXCEPT !.pc = "unlink", !.pet = p])
  BY DEF DeleteBegins
<1>2. PICK q : q = [Idle EXCEPT !.pc = "unlink", !.pet = p]
  OBVIOUS
<1>3. q.pc = "unlink" /\ q.pet = p /\ q.take = {} /\ q.read = {} /\ q.drop = {}
  BY <1>2 DEF Idle
<1>4. Only(r) /\ request'[r] = q /\ At(r, "idle")
  BY <1>1, <1>2, GoMoves DEF Begin, At, HInv, Types
<1>5. q \in Fit /\ Request(r)
  BY <1>4, ImportMoves DEF Request, HInv
<1>6. UNCHANGED <<pets, mintedPets, aliases, event, ingest>> /\ q.pc \in BookSteps
  BY <1>3 DEF DeleteBegins, book, BookSteps
<1>7. Sound(q)
  BY <1>3 DEF Sound, HInv, Ledger, Known
<1>8. ASSUME Calm, Alone(r) PROVE Stage(q)
  <2>1. Settled({})
    BY <1>4, <1>8 DEF Calm, Alone, Writing, At, BookSteps
  <2>2. InFlux(q) = {}
    BY <1>3 DEF InFlux
  <2> QED BY <1>3, <2>1, <2>2 DEF Stage, Editing, Claims
<1> QED BY <1>4, <1>5, <1>6, <1>7, <1>8, ReadStep

LEMMA DeleteUnlinksBook ==
  ASSUME HInv, NEW r \in Requests, DeleteUnlinks(r)
  PROVE  Ledger' /\ (~overlapped' => Calm')
<1>1. PICK me \in Fit : me = request[r]
  BY DEF HInv, Types, MoreTypes
<1>2. /\ me.pc = "unlink" /\ Request(r) /\ Go(r, [me EXCEPT !.pc = "rows"])
      /\ UNCHANGED <<pets, mintedPets, aliases, event, ingest>>
  BY <1>1 DEF DeleteUnlinks, At, book, Request
<1>3. Sound(me)
  BY <1>1, <1>2, SoundKept
<1>4. PICK q : q = [me EXCEPT !.pc = "rows"]
  OBVIOUS
<1>5. q.pc = "rows" /\ q.pet = me.pet /\ q.take = me.take /\ q.drop = me.drop /\ q.read = me.read
  BY <1>4 DEF Fit, RequestType
<1>6. Only(r) /\ request'[r] = q
  BY <1>2, <1>4, GoMoves DEF HInv, Types
<1>7. q \in Fit
  BY <1>6, ImportMoves DEF HInv
<1>8. Sound(q) /\ q.pc \in BookSteps
  BY <1>3, <1>5 DEF Sound, BookSteps
<1>9. ASSUME Calm, Alone(r) PROVE Stage(q)
  <2>1. Stage(me)
    BY <1>1, <1>2, <1>9, Before DEF BookSteps
  <2>2. Settled({}) /\ me.pet \in pets
    BY <1>2, <2>1 DEF Stage, InFlux
  <2>3. InFlux(q) = {}
    BY <1>5 DEF InFlux
  <2> QED BY <1>5, <2>2, <2>3 DEF Stage, Editing, Claims
<1> QED BY <1>2, <1>6, <1>7, <1>8, <1>9, ReadStep

LEMMA DeleteRowsBook ==
  ASSUME HInv, NEW r \in Requests, DeleteRows(r)
  PROVE  Ledger' /\ (~overlapped' => Calm')
<1>1. PICK me \in Fit : me = request[r]
  BY DEF HInv, Types, MoreTypes
<1>2. /\ me.pc = "rows" /\ Writing(r) /\ Request(r) /\ me.pet \in Pets
      /\ pets' = pets \ {me.pet} /\ aliases' = [aliases EXCEPT ![me.pet] = {}] /\ Go(r, Idle)
      /\ UNCHANGED <<mintedPets, event, ingest>>
  BY <1>1 DEF DeleteRows, At, Writing, BookSteps, Request, Fit, Equipped
<1>3. Only(r) /\ request'[r] = Idle
  BY <1>2, GoMoves DEF HInv, Types
<1>4. \A p \in Pets : aliases'[p] = IF p = me.pet THEN {} ELSE aliases[p]
  BY <1>2 DEF HInv, Types, TypeOK
<1>5. Known' /\ Rows'
  BY <1>2 DEF HInv, Ledger, Known, Rows
<1>6. Lists'
  BY <1>2, <1>4 DEF HInv, Ledger, Lists
<1>7. mintedPets \in Nat
  BY IdsAreNumbers DEF HInv, Types, TypeOK
<1>8. Sound(Idle)' /\ mintedPets <= mintedPets' /\ Idle.pc \notin BookSteps
  BY <1>2, <1>7 DEF Sound, Idle, NoPet, BookSteps
<1>9. ASSUME Calm, Alone(r) PROVE Settled({})'
  <2>1. Stage(me) /\ pets \subseteq Pets
    BY <1>1, <1>2, <1>9, Before DEF BookSteps, HInv, Types, TypeOK
  <2>2. Settled({})
    BY <1>2, <2>1 DEF Stage, InFlux
  <2>3. \A a : Knowing(a)' = Knowing(a) \ {me.pet}
    BY <1>2, <1>4, <2>1 DEF Knowing
  <2> SUFFICES ASSUME NEW ref \in Refs
               PROVE  /\ \A p, q \in Knowing(ref)' : p = q
                      /\ \A u \in Reports : RefOf[u] = ref => Agrees(u)'
    BY DEF Settled, Knowing
  <2>4. \A p, q \in Knowing(ref)' : p = q
    BY <2>2, <2>3 DEF Settled
  <2>5. ASSUME NEW u \in Reports, RefOf[u] = ref PROVE Agrees(u)'
    <3>1. Agrees(u)
      BY <2>2, <2>5 DEF Settled
    <3>2. Knowing(RefOf[u])' = Knowing(RefOf[u]) \ {me.pet}
      BY <2>3
    <3> QED BY <1>2, <3>1, <3>2 DEF Agrees
  <2> QED BY <2>4, <2>5
<1> QED BY <1>2, <1>3, <1>5, <1>6, <1>8, <1>9, IdleIsFit, BookStep

-----------------------------------------------------------------------------
(* The steps beside the book                                               *)

\* A request about a photo.
LEMMA FaceStepBook ==
  ASSUME HInv, NEW r \in Requests, Request(r), NEW q \in Fit, Only(r), request'[r] = q,
         ~Writing(r), q.pc \notin BookSteps, Sound(q),
         UNCHANGED <<pets, mintedPets, aliases, event>>
  PROVE  Ledger' /\ (~overlapped' => Calm')
<1>1. ingest' = ingest /\ overlapped' = (overlapped \/ Overlap') /\ request' \in [Requests -> Fit]
  BY RequestFrame, RequestTypes DEF HInv, Types, MoreTypes
<1>2. Known' /\ Lists' /\ Rows'
  BY <1>1, LedgerKept DEF HInv
<1>3. Asks'
  BY DEF HInv, Ledger, Asks, Sound, Only
<1>4. \A s \in Requests : Writing(s)' <=> Writing(s)
  BY DEF Writing, Only
<1>5. ASSUME ~overlapped' PROVE Calm'
  <2>1. Calm /\ ~Overlap'
    BY <1>1, <1>5 DEF HInv
  <2>2. ASSUME \A s \in Requests : ~Writing(s)' PROVE Settled({})'
    <3>1. Settled({})
      BY <1>4, <2>1, <2>2 DEF Calm
    <3> QED BY <3>1, SettledWiden
  <2>3. ASSUME NEW s \in Requests, NEW a \in Fit, a = request'[s], a.pc \in BookSteps
        PROVE  Stage(a)'
    <3>1. s # r /\ request[s] = a
      BY <2>3 DEF Only
    <3>2. Stage(a)
      BY <2>1, <2>3, <3>1 DEF Calm
    <3> QED BY <3>2, StageStays
  <2>4. ASSUME NEW u \in Reports, ingest'[u] # NotRunning
        PROVE  (ingest[u] = NoPet /\ Knowing(RefOf[u])' = {}) \/ Knowing(RefOf[u])' = {ingest[u]}
    BY <1>1, <2>1, <2>4 DEF Calm, Knowing
  <2> QED BY <1>1, <2>1, <2>2, <2>3, <2>4 DEF Calm
<1> QED BY <1>2, <1>3, <1>5 DEF Ledger

LEMMA FaceRequestsBook ==
  ASSUME HInv, NEW r \in Requests,
         \/ UploadBegins(r) \/ UploadAddsRow(r) \/ UploadWritesFile(r) \/ UploadFails(r)
         \/ UploadDropsRow(r) \/ UploadSetsPath(r)
         \/ FaceDeleteBegins(r) \/ FaceUnlinks(r) \/ FaceDropsRow(r)
  PROVE  Ledger' /\ (~overlapped' => Calm')
<1>1. PICK me \in Fit : me = request[r]
  BY SMTT(60) DEF HInv, Types, MoreTypes
<1>2. /\ Request(r) /\ UNCHANGED <<pets, mintedPets, aliases, event>>
      /\ me.pc \in {"idle", "upload", "store", "path", "unstore", "face", "facerow"}
  BY <1>1 DEF Request, UploadBegins, UploadAddsRow, UploadWritesFile, UploadFails, UploadDropsRow,
     UploadSetsPath, FaceDeleteBegins, FaceUnlinks, FaceDropsRow, book, Begin, At
<1>3. ~Writing(r)
  BY <1>1, <1>2 DEF Writing, BookSteps
<1>4. Sound(me) /\ mintedPets \in Nat
  BY <1>1, <1>2, SoundKept, IdsAreNumbers DEF HInv, Types, TypeOK
<1>5. PICK q \in Fit : request'[r] = q
  BY FaceMoves DEF HInv
<1>6. Only(r) /\ q.pc \notin BookSteps /\ Sound(q)
  <2>1. ASSUME Go(r, Idle) PROVE Only(r) /\ q.pc \notin BookSteps /\ Sound(q)
    <3>1. Only(r) /\ q = Idle
      BY <1>5, <2>1, GoMoves DEF HInv, Types
    <3> QED BY <1>4, <3>1 DEF Idle, BookSteps, Sound, NoPet
  <2>2. ASSUME NEW pc \in {"path", "unstore", "facerow"}, Go(r, [me EXCEPT !.pc = pc])
        PROVE  Only(r) /\ q.pc \notin BookSteps /\ Sound(q)
    <3>1. PICK n : n = [me EXCEPT !.pc = pc]
      OBVIOUS
    <3>2. n.pc = pc /\ n.pet = me.pet /\ n.take = me.take /\ n.drop = me.drop /\ n.read = me.read
      BY <3>1 DEF Fit, RequestType
    <3>3. Only(r) /\ q = n
      BY <1>5, <2>2, <3>1, GoMoves DEF HInv, Types
    <3> QED BY <1>4, <3>2, <3>3 DEF BookSteps, Sound
  <2>3. CASE UploadBegins(r)
    <3>1. PICK p \in pets : Begin(r, [Idle EXCEPT !.pc = "upload", !.pet = p])
      BY <2>3 DEF UploadBegins
    <3>2. PICK n : n = [Idle EXCEPT !.pc = "upload", !.pet = p]
      OBVIOUS
    <3>3. n.pc = "upload" /\ n.pet = p /\ n.take = {} /\ n.drop = {} /\ n.read = {}
      BY <3>2 DEF Idle
    <3>4. Only(r) /\ q = n
      BY <1>5, <3>1, <3>2, GoMoves DEF HInv, Types
    <3> QED BY <3>3, <3>4 DEF BookSteps, Sound, HInv, Ledger, Known
  <2>4. CASE FaceDeleteBegins(r)
    <3>1. PICK f \in FaceIds : Begin(r, [Idle EXCEPT !.pc = "face", !.face = f])
      BY <2>4 DEF FaceDeleteBegins
    <3>2. PICK n : n = [Idle EXCEPT !.pc = "face", !.face = f]
      OBVIOUS
    <3>3. n.pc = "face" /\ n.pet = NoPet /\ n.take = {} /\ n.drop = {} /\ n.read = {}
      BY <3>2 DEF Idle
    <3>4. Only(r) /\ q = n
      BY <1>5, <3>1, <3>2, GoMoves DEF HInv, Types
    <3> QED BY <1>4, <3>3, <3>4 DEF BookSteps, Sound, NoPet
  <2>5. CASE UploadAddsRow(r)
    <3>1. Go(r, Idle) \/ Go(r, [me EXCEPT !.pc = "store", !.face = mintedFaces'])
      BY <1>1, <2>5 DEF UploadAddsRow
    <3>2. ASSUME Go(r, [me EXCEPT !.pc = "store", !.face = mintedFaces'])
          PROVE  Only(r) /\ q.pc \notin BookSteps /\ Sound(q)
      <4>1. PICK n : n = [me EXCEPT !.pc = "store", !.face = mintedFaces']
        OBVIOUS
      <4>2. n.pc = "store" /\ n.pet = me.pet /\ n.take = me.take /\ n.drop = me.drop /\ n.read = me.read
        BY <4>1 DEF Fit, RequestType
      <4>3. Only(r) /\ q = n
        BY <1>5, <3>2, <4>1, GoMoves DEF HInv, Types
      <4> QED BY <1>4, <4>2, <4>3 DEF BookSteps, Sound
    <3> QED BY <2>1, <3>1, <3>2
  <2>6. CASE UploadWritesFile(r)
    <3>1. Go(r, [me EXCEPT !.pc = "path"])
      BY <1>1, <2>6 DEF UploadWritesFile
    <3> QED BY <2>2, <3>1
  <2>7. CASE UploadFails(r)
    <3>1. Go(r, [me EXCEPT !.pc = "unstore"])
      BY <1>1, <2>7 DEF UploadFails
    <3> QED BY <2>2, <3>1
  <2>8. CASE UploadDropsRow(r) \/ UploadSetsPath(r) \/ FaceDropsRow(r)
    BY <2>1, <2>8 DEF UploadDropsRow, UploadSetsPath, FaceDropsRow
  <2>9. CASE FaceUnlinks(r)
    <3>1. Go(r, Idle) \/ Go(r, [me EXCEPT !.pc = "facerow"])
      BY <1>1, <2>9 DEF FaceUnlinks
    <3> QED BY <2>1, <2>2, <3>1
  <2> QED BY <2>3, <2>4, <2>5, <2>6, <2>7, <2>8, <2>9
<1> QED BY <1>2, <1>3, <1>5, <1>6, FaceStepBook

LEMMA ReportResolvesBook ==
  ASSUME HInv, NEW u \in Reports, ReportResolves(u)
  PROVE  Ledger' /\ (~overlapped' => Calm')
<1>1. PICK answer : answer = Resolve(RefOf[u])
  OBVIOUS
<1>2. /\ ingest[u] = NotRunning /\ (RefOf[u] \in Foreign \/ RefOf[u] <= mintedPets)
      /\ ingest' = [ingest EXCEPT ![u] = answer]
      /\ UNCHANGED <<pets, mintedPets, aliases, event, request>>
      /\ overlapped' = (overlapped \/ Overlap')
  BY <1>1 DEF ReportResolves, book, Watch
<1>3. /\ ingest'[u] = answer
      /\ \A v \in Reports : v # u => ingest'[v] = ingest[v]
  BY <1>2 DEF HInv, Types, TypeOK
<1>4. IF Knowing(RefOf[u]) = {} THEN answer = NoPet
      ELSE answer \in Knowing(RefOf[u]) /\ answer \in Pets
  BY <1>1, ResolveKnows DEF HInv, Types
<1>5. answer <= mintedPets /\ answer # NotRunning
  <2>1. mintedPets \in Nat
    BY IdsAreNumbers DEF HInv, Types, TypeOK
  <2>2. CASE answer = NoPet
    BY <2>1, <2>2 DEF NoPet, NotRunning
  <2>3. CASE answer \in Knowing(RefOf[u]) /\ answer \in Pets
    <3>1. answer \in Nat
      BY <2>3, IdsAreNumbers
    <3> QED BY <2>3, <3>1 DEF Knowing, HInv, Ledger, Known, NotRunning
  <2> QED BY <1>4, <2>2, <2>3
<1>6. Known' /\ Lists' /\ Asks'
  BY <1>2 DEF HInv, Ledger, Known, Lists, Asks, Sound
<1>7. Rows'
  BY <1>2, <1>3, <1>5 DEF HInv, Ledger, Rows
<1>8. ASSUME ~overlapped' PROVE Calm'
  <2>1. Calm /\ ~Overlap'
    BY <1>2, <1>8 DEF HInv
  <2>2. \A s \in Requests : ~Writing(s) /\ ~Writing(s)'
    BY <1>2, <1>3, <1>5, <2>1 DEF Overlap, Writing
  <2>3. Settled({})
    BY <2>1, <2>2 DEF Calm
  <2>4. Settled({})'
    BY <1>2, <2>3, SettledWiden
  <2>5. \A ref : Knowing(ref)' = Knowing(ref)
    BY <1>2 DEF Knowing
  <2>6. ASSUME NEW v \in Reports, ingest'[v] # NotRunning
        PROVE  \/ ingest'[v] = NoPet /\ Knowing(RefOf[v]) = {}
               \/ Knowing(RefOf[v]) = {ingest'[v]}
    <3>1. CASE v = u
      <4>1. \A p, q \in Knowing(RefOf[u]) : p = q
        BY <2>3, ReportRefs DEF Settled
      <4> QED BY <1>3, <1>4, <3>1, <4>1
    <3>2. CASE v # u
      BY <1>3, <2>1, <2>6, <3>2 DEF Calm
    <3> QED BY <3>1, <3>2
  <2>7. ASSUME NEW v \in Reports, ingest'[v] # NotRunning
        PROVE  \/ ingest'[v] = NoPet /\ Knowing(RefOf[v])' = {}
               \/ Knowing(RefOf[v])' = {ingest'[v]}
    BY <2>5, <2>6, <2>7
  <2>8. \A r \in Requests : \A q \in Fit : ~(q = request'[r] /\ q.pc \in BookSteps)
    BY <2>2 DEF Writing
  <2> QED BY <2>1, <2>4, <2>7, <2>8 DEF Calm
<1> QED BY <1>6, <1>7, <1>8 DEF Ledger

LEMMA ReportStoresBook ==
  ASSUME HInv, NEW u \in Reports, ReportStores(u)
  PROVE  Ledger' /\ (~overlapped' => Calm')
<1>1. /\ ingest[u] # NotRunning
      /\ event' = [event EXCEPT ![u] = ingest[u]] /\ ingest' = [ingest EXCEPT ![u] = NotRunning]
      /\ UNCHANGED <<pets, mintedPets, aliases, request>>
      /\ overlapped' = (overlapped \/ Overlap')
  BY DEF ReportStores, Watch
<1>2. /\ event'[u] = ingest[u] /\ ingest'[u] = NotRunning
      /\ \A v \in Reports : v # u => event'[v] = event[v] /\ ingest'[v] = ingest[v]
  BY <1>1 DEF HInv, Types, TypeOK
<1>3. Known' /\ Lists' /\ Asks'
  BY <1>1 DEF HInv, Ledger, Known, Lists, Asks, Sound
<1>4. Rows'
  <2>1. mintedPets \in Nat
    BY IdsAreNumbers DEF HInv, Types, TypeOK
  <2>2. ASSUME NEW v \in Reports
        PROVE  /\ event'[v] <= mintedPets /\ ingest'[v] <= mintedPets
               /\ event'[v] # NoRow \/ ingest'[v] # NotRunning =>
                    RefOf[v] \in Foreign \/ RefOf[v] <= mintedPets
    <3>1. CASE v = u
      BY <1>1, <1>2, <2>1, <3>1 DEF HInv, Ledger, Rows, NotRunning
    <3>2. CASE v # u
      BY <1>2, <3>2 DEF HInv, Ledger, Rows
    <3> QED BY <3>1, <3>2
  <2> QED BY <1>1, <2>2 DEF Rows
<1>5. ASSUME ~overlapped' PROVE Calm'
  <2>1. Calm /\ ~Overlap /\ ~Overlap'
    BY <1>1, <1>5 DEF HInv, Calm
  <2>2. \A s \in Requests : ~Writing(s)
    BY <1>1, <2>1 DEF Overlap
  <2>3. Settled({})
    BY <2>1, <2>2 DEF Calm
  <2>4. \A ref : Knowing(ref)' = Knowing(ref)
    BY <1>1 DEF Knowing
  <2>5. Settled({})'
    <3> SUFFICES ASSUME NEW ref \in Refs
                 PROVE  /\ \A p, q \in Knowing(ref)' : p = q
                        /\ \A v \in Reports : RefOf[v] = ref => Agrees(v)'
      BY DEF Settled, Knowing
    <3>1. \A p, q \in Knowing(ref)' : p = q
      BY <2>3, <2>4 DEF Settled
    <3>2. ASSUME NEW v \in Reports, RefOf[v] = ref PROVE Agrees(v)'
      <4>1. Knowing(RefOf[v])' = Knowing(RefOf[v])
        BY <2>4
      <4>2. CASE v = u
        <5>1. (ingest[u] = NoPet /\ Knowing(RefOf[u]) = {}) \/ Knowing(RefOf[u]) = {ingest[u]}
          BY <1>1, <2>1 DEF Calm
        <5> QED BY <1>2, <4>1, <4>2, <5>1 DEF Agrees
      <4>3. CASE v # u
        <5>1. Agrees(v)
          BY <2>3, <3>2 DEF Settled
        <5> QED BY <1>1, <1>2, <4>1, <4>3, <5>1 DEF Agrees
      <4> QED BY <4>2, <4>3
    <3> QED BY <3>1, <3>2
  <2>6. ASSUME NEW v \in Reports, ingest'[v] # NotRunning
        PROVE  \/ ingest'[v] = NoPet /\ Knowing(RefOf[v])' = {}
               \/ Knowing(RefOf[v])' = {ingest'[v]}
    <3>1. v # u /\ ingest'[v] = ingest[v]
      BY <1>2, <2>6
    <3>2. Knowing(RefOf[v])' = Knowing(RefOf[v])
      BY <2>4
    <3> QED BY <2>1, <2>6, <3>1, <3>2 DEF Calm
  <2>7. \A r \in Requests : \A q \in Fit : ~(q = request'[r] /\ q.pc \in BookSteps)
    BY <1>1, <2>2 DEF Writing
  <2> QED BY <2>1, <2>5, <2>6, <2>7 DEF Calm
<1> QED BY <1>3, <1>4, <1>5 DEF Ledger

LEMMA KillBook ==
  ASSUME HInv, Kill
  PROVE  Ledger' /\ (~overlapped' => Calm')
<1>1. /\ \A r \in Requests : request'[r] = Idle
      /\ \A u \in Reports : ingest'[u] = NotRunning
      /\ overlapped' = (overlapped \/ \E r \in Requests : Writing(r))
      /\ UNCHANGED <<pets, mintedPets, aliases, event>>
  BY DEF Kill, book
<1>2. mintedPets \in Nat
  BY IdsAreNumbers DEF HInv, Types, TypeOK
<1>3. Known' /\ Lists'
  BY <1>1 DEF HInv, Ledger, Known, Lists
<1>4. Rows'
  BY <1>1, <1>2 DEF HInv, Ledger, Rows, NotRunning
<1>5. Asks'
  BY <1>1, <1>2 DEF Asks, Sound, Idle, NoPet
<1>6. ASSUME ~overlapped' PROVE Calm'
  <2>1. Settled({})
    BY <1>1, <1>6 DEF HInv, Calm
  <2>2. Settled({})'
    BY <1>1, <2>1, SettledWiden
  <2>3. \A r \in Requests : request'[r].pc \notin BookSteps
    BY <1>1 DEF Idle, BookSteps
  <2>4. ~Overlap'
    BY <2>3 DEF Overlap, Writing
  <2> QED BY <1>1, <2>2, <2>3, <2>4 DEF Calm
<1> QED BY <1>3, <1>4, <1>5, <1>6 DEF Ledger

LEMMA HNext ==
  ASSUME Offered \subseteq Foreign, HInv, [Next]_vars
  PROVE  HInv'
<1>1. Types'
  BY NextTypes DEF HInv
<1>2. ASSUME NEW r \in Requests, Request(r) PROVE Ledger' /\ (~overlapped' => Calm')
  BY <1>2, EditBeginsBook, EditUpdatesBook, EditRereadsBook, EditUnbindsBook, EditClaimsBook,
     EditReadsOtherBook, EditStripsOtherBook, EditBindsBook, ImportBeginsBook,
     ImportCreatesBook, ImportNamesBook, ImportBindsBook, DeleteBeginsBook,
     DeleteUnlinksBook, DeleteRowsBook, FaceRequestsBook DEF Request
<1>3. CASE UNCHANGED vars
  <2>1. /\ UNCHANGED <<pets, mintedPets, aliases, event, ingest>>
        /\ UNCHANGED <<request, overlapped>>
    BY <1>3 DEF vars
  <2>2. Known' /\ Lists' /\ Rows' /\ Asks'
    BY <2>1, LedgerKept DEF HInv, Ledger, Asks, Sound
  <2>3. ASSUME Calm PROVE Calm'
    <3>1. (\A r \in Requests : ~Writing(r)) => Settled({})'
      <4> SUFFICES ASSUME \A r \in Requests : ~Writing(r) PROVE Settled({})'
        OBVIOUS
      <4>1. Settled({})
        BY <2>3 DEF Calm
      <4> QED BY <2>1, <4>1, SettledWiden
    <3>2. \A r \in Requests : \A q \in Fit : q = request[r] /\ q.pc \in BookSteps => Stage(q)'
      <4> SUFFICES ASSUME NEW r \in Requests, NEW q \in Fit, q = request[r], q.pc \in BookSteps
                   PROVE  Stage(q)'
        OBVIOUS
      <4>1. Stage(q)
        BY <2>3 DEF Calm
      <4> QED BY <2>1, <4>1, StageStays
    <3>3. ~Overlap' /\ \A r \in Requests : Writing(r)' <=> Writing(r)
      BY <2>1, <2>3 DEF Calm, Overlap, Writing
    <3>4. \A u \in Reports : ingest'[u] # NotRunning =>
            \/ ingest'[u] = NoPet /\ Knowing(RefOf[u])' = {}
            \/ Knowing(RefOf[u])' = {ingest'[u]}
      BY <2>1, <2>3 DEF Calm, Knowing
    <3> QED BY <2>1, <3>1, <3>2, <3>3, <3>4 DEF Calm
  <2> QED BY <1>1, <2>1, <2>2, <2>3 DEF HInv, Ledger
<1> QED BY <1>1, <1>2, <1>3, ReportResolvesBook, ReportStoresBook, KillBook DEF Next, HInv

LEMMA HInit == Init => HInv
<1> SUFFICES ASSUME Init PROVE HInv
  OBVIOUS
<1>1. PICK owner \in [Foreign -> pets \cup {NoPet}] :
        aliases = [p \in Pets |-> {ref \in Foreign : owner[ref] = p}]
  BY DEF Init
<1>2. /\ pets = {p \in Pets : p <= 2} /\ mintedPets = 2
      /\ \A u \in Reports : event[u] = -1 /\ ingest[u] = NotRunning
      /\ \A r \in Requests : request[r] = Idle
  BY DEF Init, NoRow
<1>3. \A p \in Pets : aliases[p] = {ref \in Foreign : owner[ref] = p}
  BY <1>1
<1>4. Known /\ Rows /\ Asks
  BY <1>2 DEF Known, Rows, NoRow, NotRunning, Asks, Sound, Idle, NoPet
<1>5. Lists
  <2>1. NoPet \notin Pets
    BY PetIds DEF NoPet
  <2> QED BY <1>1, <1>3, <2>1 DEF Lists
<1>6. Settled({})
  <2>1. ASSUME NEW ref \in Refs PROVE \A p, q \in Knowing(ref) : p = q
    <3>1. \A p \in Knowing(ref) : p \in Pets /\ (p = ref \/ (ref \in Foreign /\ owner[ref] = p))
      BY <1>2, <1>3 DEF Knowing
    <3> QED BY <3>1, PetIds
  <2>2. \A u \in Reports : Agrees(u)
    BY <1>2 DEF Agrees, NoRow
  <2> QED BY <2>1, <2>2 DEF Settled
<1>7. \A r \in Requests : request[r].pc \notin BookSteps
  BY <1>2 DEF Idle, BookSteps
<1>8. Calm
  BY <1>2, <1>6, <1>7 DEF Calm, Overlap, Writing
<1> QED BY <1>4, <1>5, <1>8, InitTypes DEF HInv, Ledger

(* As long as no two writers of the book were under way at once and nobody     *)
(* listed another pet's own row id, the history belongs to the pet that a new  *)
(* report would be given to: through edits, imports, deletions and kills.      *)
THEOREM HistoryIsKept ==
  ASSUME Offered \subseteq Foreign
  PROVE  Spec => []HistoryAgrees
<1>1. HInv => HistoryAgrees
  <2> SUFFICES ASSUME HInv, AtRest, ~overlapped, NEW u \in Reports
               PROVE  \/ event[u] \in {NoRow, Resolve(RefOf[u])}
                      \/ Resolve(RefOf[u]) = NoPet /\ event[u] \in Pets \ pets
    BY DEF HistoryAgrees
  <2>1. \A r \in Requests : ~Writing(r)
    BY DEF AtRest, Writing, Idle, BookSteps
  <2>2. Agrees(u)
    BY <2>1, ReportRefs DEF HInv, Calm, Settled
  <2>3. IF Knowing(RefOf[u]) = {} THEN Resolve(RefOf[u]) = NoPet
        ELSE Resolve(RefOf[u]) \in Knowing(RefOf[u])
    BY ResolveKnows DEF HInv, Types
  <2> QED BY <2>2, <2>3 DEF Agrees
<1> QED BY <1>1, HInit, HNext, PTL DEF Spec
=============================================================================
