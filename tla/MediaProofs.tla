---------------------------- MODULE MediaProofs ----------------------------
(***************************************************************************)
(* The life of the footage, for any number of chunks, tasks, reports,      *)
(* faults and kills.  Timeline: whatever retention has selected is due, an *)
(* id in its hands names what it named then, and the swap of rows puts a   *)
(* chunk into the clip in the step that takes its own row.  Footage: what  *)
(* leaves a file or the staging directory is in another file, due, or      *)
(* written down as lost.  Tasks: what a task has claimed is empty and its  *)
(* own.  Ready rows: a name belongs to one task or one row at a time,      *)
(* until it is freed or taken without a claim.                             *)
(***************************************************************************)
EXTENDS MediaLifecycle, WellFoundedInduction, FiniteSetTheorems, TLAPS

\* A task works on a chunk, and from the claim on it has a file name.
TaskInv ==
  \A t \in Tasks :
    /\ task[t].pc # "idle" => task[t].chunk \in Chunks
    /\ task[t].pc \in {"claimed", "written", "filed"} => task[t].path \in Paths

PathInv == \A c \in Chunks : row[c].status = "ready" => row[c].path \in Paths

BatchInv == IF stitch = "idle" THEN joined = {} ELSE batch # {}

\* What a sweep holds is due, and a clip it holds is the clip of that id.
SelectInv ==
  \A e \in expiring :
    /\ e.has \subseteq expired
    /\ e.chunk # 0 => e.has = {e.chunk}
    /\ e.chunk = 0 => e.id \leq clipRow.id
    /\ e.chunk = 0 /\ e.id = clipRow.id => clipRow.has \subseteq e.has

ClipInv == clipRow.status = "none" => clipRow.has = {}

IInv == TypeOK /\ TaskInv /\ PathInv /\ BatchInv /\ SelectInv /\ ClipInv /\ TimelineKeeps

-----------------------------------------------------------------------------
(* The operators                                                           *)

\* The names that are computed are paths of the tree.
LEMMA NamesArePaths ==
  /\ \A c \in Chunks, n \in Numbers : <<Sec[c], n, "mp4">> \in Paths
  /\ \A p \in Paths : Fallback(p) \in Paths
BY MediaAssumption DEF Paths, Seconds, Fallback

LEMMA HeldAreChunks ==
  ASSUME TypeOK, NEW p \in Paths
  PROVE  Held(p) \subseteq Chunks /\ (Held(p) # {} => file[p] = Held(p))
BY DEF TypeOK, Contents, Held, Exists

\* The clip is named after a chunk of the episode.
LEMMA FirstIsThere ==
  ASSUME TypeOK, batch # {}
  PROVE  First \in batch /\ FinalPath \in Paths
<1> DEFINE T == {e.chunk : e \in batch}
<1>1. T \subseteq Nat /\ T # {}
  <2>1. T \subseteq Nat
    BY MediaAssumption DEF TypeOK, Entry
  <2>2. PICK e \in batch : TRUE
    OBVIOUS
  <2> QED BY <2>1, <2>2
<1>2. PICK n \in T : \A k \in T : ~(<<k, n>> \in OpToRel(<, Nat))
  <2>1. IsWellFoundedOn(OpToRel(<, Nat), Nat)
    BY NatLessThanWellFounded
  <2> QED BY <1>1, <2>1, WFMin
<1>3. PICK e \in batch : e.chunk = n
  OBVIOUS
<1>4. ASSUME NEW d \in batch PROVE e.chunk \leq d.chunk
  <2>1. d.chunk \in T /\ d.chunk \in Nat /\ n \in Nat
    BY <1>1
  <2>2. ~(d.chunk < n)
    BY <1>2, <2>1 DEF OpToRel
  <2> QED BY <1>3, <2>1, <2>2
<1>5. First \in batch
  BY <1>3, <1>4 DEF First
<1>6. First.chunk \in Chunks
  BY <1>5 DEF TypeOK, Entry
<1> QED BY <1>5, <1>6, NamesArePaths, MediaAssumption DEF FinalPath

\* Writing an outcome, a mark or a report into the table keeps its type, and
\* no chunk is forgotten by it.
LEMMA RowsAreTyped ==
  ASSUME TypeOK, PathInv
  PROVE  /\ \A c \in Chunks : UpsertInfo(c) =>
              row' \in [Chunks -> Row] /\ PathInv' /\ \A d \in Chunks : Known(d) => Known(d)'
         /\ \A c \in Chunks, s \in {"missing", "error", "skipped"} : UpsertOutcome(c, s) =>
              row' \in [Chunks -> Row] /\ PathInv' /\ \A d \in Chunks : Known(d) => Known(d)'
         /\ \A ids : row' = Marked(ids) =>
              row' \in [Chunks -> Row] /\ PathInv' /\ \A d \in Chunks : Known(d) => Known(d)'
         /\ \A ids : row' = Deleted(ids) => row' \in [Chunks -> Row] /\ PathInv'
<1> USE DEF TypeOK
<1>1. ASSUME NEW c \in Chunks, UpsertInfo(c)
      PROVE  row' \in [Chunks -> Row] /\ PathInv' /\ \A d \in Chunks : Known(d) => Known(d)'
  <2>1. PICK r \in Row : /\ r.status = "pending"
                       /\ row' = [row EXCEPT ![c] = r]
    <3>1. row[c] \in Row
      OBVIOUS
    <3>2. CASE row[c].status = "none"
      <4>1. [id |-> row[c].id + 1, status |-> "pending", path |-> NoPath, mark |-> FALSE] \in Row
        BY <3>1 DEF Row, NoPath
      <4> QED BY <1>1, <3>2, <4>1 DEF UpsertInfo
    <3>3. CASE row[c].status # "none"
      <4>1. [row[c] EXCEPT !.status = "pending"] \in Row
        BY <3>1 DEF Row
      <4>2. [row[c] EXCEPT !.status = "pending"].status = "pending"
        BY <3>1 DEF Row
      <4> QED BY <1>1, <3>3, <4>1, <4>2 DEF UpsertInfo
    <3> QED BY <3>2, <3>3
  <2> QED BY <2>1 DEF PathInv, Known
<1>2. ASSUME NEW c \in Chunks, NEW s \in {"missing", "error", "skipped"}, UpsertOutcome(c, s)
      PROVE  row' \in [Chunks -> Row] /\ PathInv' /\ \A d \in Chunks : Known(d) => Known(d)'
  BY <1>2 DEF UpsertOutcome, PathInv, Known, Row
<1>3. ASSUME NEW ids, row' = Marked(ids)
      PROVE  row' \in [Chunks -> Row] /\ PathInv' /\ \A d \in Chunks : Known(d) => Known(d)'
  BY <1>3, ZenonT(60) DEF Marked, PathInv, Known, Row
<1>4. ASSUME NEW ids, row' = Deleted(ids)
      PROVE  row' \in [Chunks -> Row] /\ PathInv'
  BY <1>4 DEF Deleted, PathInv, NoRow, Row, NoPath
<1> QED BY <1>1, <1>2, <1>3, <1>4

LEMMA TrampleIsTyped ==
  ASSUME TypeOK, NEW D \in SUBSET Chunks,
         NEW by \in Tramplers, Trample(D, by)
  PROVE  trampled' \subseteq Chunks \X Tramplers
BY DEF TypeOK, Trample

LEMMA PutIsTyped ==
  ASSUME TypeOK, NEW p \in Paths, NEW C \in SUBSET Chunks, NEW by \in {"write", "move"},
         Put(p, C, by)
  PROVE  /\ file' \in [Paths -> Contents]
         /\ trampled' \subseteq Chunks \X Tramplers
<1>1. Held(p) \ C \in SUBSET Chunks
  BY HeldAreChunks
<1> QED BY <1>1, TrampleIsTyped DEF Put, TypeOK, Contents, Tramplers

\* A table in which no chunk was forgotten keeps the timeline.
LEMMA KnownKeepsTimeline ==
  ASSUME TimelineKeeps, TypeOK, \A d \in Chunks : Known(d) => Known(d)',
         shown' = shown, expired \subseteq expired', clipRow' = clipRow
  PROVE  TimelineKeeps'
BY DEF TimelineKeeps, TypeOK

-----------------------------------------------------------------------------
(* The invariant, step by step                                             *)

LEMMA InitInv == Init => IInv
<1> SUFFICES ASSUME Init PROVE IInv
  OBVIOUS
<1>1. TypeOK
  BY MediaAssumption DEF Init, TypeOK, Contents, Row, NoRow, ClipRow, Task, Idle, NoPath
<1>2. TaskInv /\ PathInv /\ BatchInv /\ SelectInv /\ ClipInv /\ TimelineKeeps
  BY DEF Init, TaskInv, PathInv, BatchInv, SelectInv, ClipInv, TimelineKeeps, NoRow, Idle
<1> QED BY <1>1, <1>2 DEF IInv

LEMMA StutterKeeps == ASSUME IInv, UNCHANGED vars PROVE IInv'
<1> USE DEF vars, work, stitcher, sweeper, counters, history
<1>1. TypeOK'
  BY DEF IInv, TypeOK
<1>2. TaskInv' /\ PathInv' /\ BatchInv' /\ SelectInv' /\ ClipInv' /\ TimelineKeeps'
  BY DEF IInv, TaskInv, PathInv, BatchInv, SelectInv, ClipInv, TimelineKeeps, Known
<1> QED BY <1>1, <1>2 DEF IInv

\* What a step of the device or of a task leaves alone: stitcher, sweep, clip.
LEMMA IngestStepKeeps ==
  ASSUME IInv, UNCHANGED <<clipRow, stitcher, sweeper, expired, stranded>>,
         raw' \subseteq Chunks, {reports, upsets}' \subseteq Nat, file' \in [Paths -> Contents],
         row' \in [Chunks -> Row], task' \in [Tasks -> Task], shown' \subseteq Chunks,
         trampled' \subseteq Chunks \X Tramplers, loose' \subseteq Seconds,
         TaskInv', PathInv', TimelineKeeps'
  PROVE  IInv'
<1> USE DEF stitcher, sweeper
<1>1. TypeOK'
  BY DEF IInv, TypeOK
<1>2. BatchInv' /\ SelectInv' /\ ClipInv'
  BY DEF IInv, BatchInv, SelectInv, ClipInv
<1> QED BY <1>1, <1>2 DEF IInv

LEMMA UpsetIsTyped == TypeOK /\ Upset => upsets' \in Nat
BY DEF TypeOK, Upset

\* Where a task may go.
LEMMA TaskMoves ==
  ASSUME IInv, NEW t \in Tasks
  PROVE  /\ Done(t) => task' \in [Tasks -> Task] /\ TaskInv'
         /\ \A pc \in {"located", "read", "written", "filed"} :
              /\ Goto(t, pc)
              /\ task[t].pc # "idle"
              /\ pc \in {"located", "read"} \/ task[t].path \in Paths
              => task' \in [Tasks -> Task] /\ TaskInv'
<1> USE DEF IInv, TypeOK
<1>1. Done(t) => task' \in [Tasks -> Task] /\ TaskInv'
  BY DEF Done, Idle, NoPath, Task, TaskInv
<1>2. ASSUME NEW pc \in {"located", "read", "written", "filed"}, Goto(t, pc),
             task[t].pc # "idle", pc \in {"located", "read"} \/ task[t].path \in Paths
      PROVE  task' \in [Tasks -> Task] /\ TaskInv'
  BY <1>2 DEF Goto, Task, TaskInv
<1> QED BY <1>1, <1>2

LEMMA DeviceKeeps ==
  ASSUME IInv, NEW c \in Chunks, Upload(c) \/ \E t \in Tasks : Report(c, t)
  PROVE  IInv'
<1> USE DEF IInv
<1>1. CASE Upload(c)
  <2>1. raw' \subseteq Chunks /\ {reports, upsets}' \subseteq Nat
    BY <1>1, UpsetIsTyped DEF Upload, TypeOK
  <2>2. TaskInv' /\ PathInv' /\ TimelineKeeps'
    BY <1>1, KnownKeepsTimeline DEF Upload, TaskInv, PathInv, Known, history
  <2> QED BY <1>1, <2>1, <2>2, IngestStepKeeps DEF Upload, TypeOK, history
<1>2. ASSUME NEW t \in Tasks, Report(c, t) PROVE IInv'
  <2>1. row' \in [Chunks -> Row] /\ PathInv' /\ \A d \in Chunks : Known(d) => Known(d)'
    BY <1>2, RowsAreTyped DEF Report
  <2>2. task' \in [Tasks -> Task] /\ TaskInv'
    BY <1>2 DEF Report, TypeOK, Task, TaskInv, NoPath
  <2>3. {reports, upsets}' \subseteq Nat /\ TimelineKeeps'
    BY <1>2, <2>1, KnownKeepsTimeline DEF Report, history, TypeOK
  <2> QED BY <1>2, <2>1, <2>2, <2>3, IngestStepKeeps DEF Report, TypeOK, history
<1> QED BY <1>1, <1>2

LEMMA OutcomeKeeps ==
  ASSUME IInv, NEW t \in Tasks, Skip(t) \/ Locate(t) \/ Read(t)
  PROVE  IInv'
<1> USE DEF IInv
<1>1. task[t].chunk \in Chunks /\ task[t].pc # "idle"
  BY DEF Skip, Locate, Read, At, TaskInv
<1>2. UNCHANGED <<raw, file, clipRow, stitcher, sweeper, counters, history>>
  BY DEF Skip, Locate, Read
<1>3. row' \in [Chunks -> Row] /\ PathInv' /\ \A d \in Chunks : Known(d) => Known(d)'
  <2>1. row' = row \/ \E s \in {"missing", "error", "skipped"} : UpsertOutcome(task[t].chunk, s)
    BY DEF Skip, Locate, Read
  <2>2. CASE row' = row
    BY <2>2 DEF PathInv, Known, TypeOK
  <2> QED BY <1>1, <2>1, <2>2, RowsAreTyped
<1>4. task' \in [Tasks -> Task] /\ TaskInv'
  BY <1>1, TaskMoves DEF Skip, Locate, Read
<1>5. TimelineKeeps'
  BY <1>2, <1>3, KnownKeepsTimeline DEF history
<1> QED BY <1>2, <1>3, <1>4, <1>5, IngestStepKeeps DEF history, counters, TypeOK

LEMMA FileStepKeeps ==
  ASSUME IInv, NEW t \in Tasks,
         ClaimPath(t) \/ Write(t) \/ WriteFallback(t) \/ WriteFails(t)
  PROVE  IInv'
<1> USE DEF IInv
<1> DEFINE p == task[t].path
           c == task[t].chunk
<1>1. c \in Chunks
  BY DEF ClaimPath, Write, WriteFallback, WriteFails, At, TaskInv
<1>2. UNCHANGED <<raw, row, clipRow, stitcher, sweeper, reports, shown, expired, stranded>>
  BY DEF ClaimPath, Write, WriteFallback, WriteFails, counters, history, work
<1>3. PathInv' /\ TimelineKeeps'
  BY <1>2, KnownKeepsTimeline DEF PathInv, Known
<1>4. {reports, upsets}' \subseteq Nat
  BY <1>2, UpsetIsTyped DEF ClaimPath, Write, WriteFallback, WriteFails, counters, TypeOK
<1>5. /\ file' \in [Paths -> Contents]
      /\ trampled' \subseteq Chunks \X Tramplers /\ loose' \subseteq Seconds
  <2>1. CASE ClaimPath(t)
    BY <1>1, <2>1 DEF ClaimPath, history, TypeOK, Contents
  <2>2. CASE Write(t)
    BY <1>1, <2>2, PutIsTyped DEF Write, At, TaskInv, TypeOK
  <2>3. CASE WriteFallback(t)
    <3>1. p \in Paths /\ Fallback(p) \in Paths
      BY <2>3, NamesArePaths DEF WriteFallback, At, TaskInv
    <3>2. (Held(p) \cup Held(Fallback(p))) \ {c} \in SUBSET Chunks
      BY <3>1, HeldAreChunks
    <3>3. file' \in [Paths -> Contents]
      BY <1>1, <2>3, <3>1 DEF WriteFallback, TypeOK, Contents
    <3>4. loose' \subseteq Seconds
      <4>1. p[1] \in Seconds
        BY <3>1 DEF Paths
      <4>2. loose' \subseteq loose \cup {p[1]}
        BY <2>3 DEF WriteFallback
      <4> QED BY <4>1, <4>2 DEF TypeOK
    <3> QED BY <2>3, <3>2, <3>3, <3>4, TrampleIsTyped DEF WriteFallback, Tramplers
  <2>4. CASE WriteFails(t)
    BY <2>4 DEF WriteFails, work, history, TypeOK
  <2> QED BY <2>1, <2>2, <2>3, <2>4
<1>6. task' \in [Tasks -> Task] /\ TaskInv'
  <2>1. CASE ClaimPath(t)
    <3>1. PICK n \in Numbers :
            task' = [task EXCEPT ![t].pc = "claimed", ![t].path = <<Sec[c], n, "mp4">>]
      BY <2>1 DEF ClaimPath
    <3>2. <<Sec[c], n, "mp4">> \in Paths
      BY <1>1, NamesArePaths
    <3> QED BY <1>1, <3>1, <3>2, ZenonT(60) DEF TypeOK, Task, TaskInv
  <2>2. CASE Write(t)
    BY <2>2, TaskMoves DEF Write, At, TaskInv
  <2>3. CASE WriteFallback(t)
    <3>1. Fallback(p) \in Paths
      BY <2>3, NamesArePaths DEF WriteFallback, At, TaskInv
    <3> QED BY <1>1, <2>3, <3>1, ZenonT(60) DEF WriteFallback, TypeOK, Task, TaskInv
  <2>4. CASE WriteFails(t)
    BY <2>4, TaskMoves DEF WriteFails
  <2> QED BY <2>1, <2>2, <2>3, <2>4
<1> QED BY <1>2, <1>3, <1>4, <1>5, <1>6, IngestStepKeeps DEF TypeOK

LEMMA MarkReadyKeeps == ASSUME IInv, NEW t \in Tasks, MarkReady(t) PROVE IInv'
<1> USE DEF IInv
<1> DEFINE c == task[t].chunk
<1>1. c \in Chunks /\ task[t].path \in Paths /\ task[t].pc # "idle"
  BY DEF MarkReady, At, TaskInv
<1>2. row' \in [Chunks -> Row] /\ PathInv' /\ \A d \in Chunks : Known(d) => Known(d)'
  BY <1>1 DEF MarkReady, TypeOK, Row, PathInv, Known
<1>3. task' \in [Tasks -> Task] /\ TaskInv'
  BY <1>1, TaskMoves DEF MarkReady
<1>4. shown' \subseteq Chunks /\ TimelineKeeps'
  <2>1. shown' \subseteq shown \cup {c} /\ (c \in shown' \ shown => Known(c))
    BY DEF MarkReady
  <2> QED BY <1>1, <1>2, <2>1 DEF MarkReady, TimelineKeeps, TypeOK
<1> QED BY <1>2, <1>3, <1>4, IngestStepKeeps DEF MarkReady, TypeOK, counters

LEMMA RemoveRawKeeps == ASSUME IInv, NEW t \in Tasks, RemoveRaw(t) PROVE IInv'
<1> USE DEF IInv
<1>1. raw' \subseteq Chunks /\ {reports, upsets}' \subseteq Nat
  BY UpsetIsTyped DEF RemoveRaw, TypeOK
<1>2. task' \in [Tasks -> Task] /\ TaskInv'
  BY TaskMoves DEF RemoveRaw
<1>3. PathInv' /\ TimelineKeeps'
  BY KnownKeepsTimeline DEF RemoveRaw, PathInv, Known, history
<1> QED BY <1>1, <1>2, <1>3, IngestStepKeeps DEF RemoveRaw, TypeOK, history

\* What a step of the stitcher leaves alone: the tasks, the sweep.
LEMMA StitcherStepKeeps ==
  ASSUME IInv, UNCHANGED <<raw, task, sweeper, shown, expired, reports, loose>>,
         file' \in [Paths -> Contents], row' \in [Chunks -> Row], clipRow' \in ClipRow,
         stitch' \in {"idle", "given", "verified", "removed", "moved", "swapped"},
         batch' \subseteq Entry /\ joined' \subseteq batch' /\ clip' \subseteq Chunks,
         upsets' \in Nat, stranded' \subseteq Chunks,
         trampled' \subseteq Chunks \X Tramplers,
         PathInv', BatchInv', SelectInv', ClipInv', TimelineKeeps'
  PROVE  IInv'
<1>1. TypeOK'
  BY DEF IInv, TypeOK, sweeper
<1>2. TaskInv'
  BY DEF IInv, TaskInv
<1> QED BY <1>1, <1>2 DEF IInv

LEMMA ForgetIsTyped ==
  Forget => /\ stitch' \in {"idle", "given", "verified", "removed", "moved", "swapped"}
            /\ batch' \subseteq Entry /\ joined' \subseteq batch'
            /\ BatchInv'
BY DEF Forget, BatchInv

LEMMA SelectionStays ==
  ASSUME IInv, UNCHANGED <<clipRow, expiring, expired>>
  PROVE  SelectInv' /\ ClipInv'
BY DEF IInv, SelectInv, ClipInv

LEMMA GiveEpisodeKeeps == ASSUME IInv, GiveEpisode PROVE IInv'
<1> USE DEF IInv
<1>1. Candidates # {}
  BY FS_EmptySet DEF GiveEpisode
<1>2. batch' # {} /\ batch' \subseteq Entry
  <2>1. \A c \in Candidates : [chunk |-> c, id |-> row[c].id, path |-> row[c].path] \in Entry
    BY DEF Candidates, PathInv, TypeOK, Row, Entry
  <2>2. PICK c \in Candidates : TRUE
    BY <1>1
  <2> QED BY <2>1, <2>2 DEF GiveEpisode
<1>3. joined' = {}
  BY DEF GiveEpisode, BatchInv
<1>4. BatchInv' /\ PathInv' /\ TimelineKeeps'
  BY <1>2, KnownKeepsTimeline DEF GiveEpisode, BatchInv, PathInv, Known, work, history
<1>5. SelectInv' /\ ClipInv'
  BY SelectionStays DEF GiveEpisode, work, sweeper, history
<1> QED BY <1>2, <1>3, <1>4, <1>5, StitcherStepKeeps
        DEF GiveEpisode, work, counters, history, TypeOK

\* The clip is made of files of the tree.
LEMMA ClipsAreTyped ==
  ASSUME TypeOK, NEW J \in Choices
  PROVE  J \subseteq batch /\ UNION {file[e.path] : e \in J} \subseteq Chunks
<1>1. J \subseteq batch /\ \A e \in J : Held(e.path) # {} /\ e.path \in Paths
  BY DEF Choices, TypeOK, Entry
<1>2. \A e \in J : file[e.path] \subseteq Chunks
  BY <1>1, HeldAreChunks
<1> QED BY <1>1, <1>2

LEMMA JoinKeeps == ASSUME IInv, Join PROVE IInv'
<1> USE DEF IInv
<1>1. PICK J \in Choices : /\ joined' = J
                           /\ clip' = UNION {file[e.path] : e \in J}
                           /\ Trample(clip \ clip', "rejoin")
  BY DEF Join
<1>2. joined' \subseteq batch /\ clip' \subseteq Chunks
  BY <1>1, ClipsAreTyped
<1>3. clip \ clip' \in SUBSET Chunks
  BY DEF TypeOK
<1>4. trampled' \subseteq Chunks \X Tramplers
  BY <1>1, <1>3, TrampleIsTyped DEF Tramplers
<1>5. BatchInv' /\ PathInv' /\ TimelineKeeps'
  BY KnownKeepsTimeline DEF Join, BatchInv, PathInv, Known, work
<1>6. SelectInv' /\ ClipInv'
  BY SelectionStays DEF Join, work, sweeper
<1> QED BY <1>2, <1>4, <1>5, <1>6, StitcherStepKeeps DEF Join, work, counters, TypeOK

\* An episode that is given up: rows may be marked, none is forgotten.
LEMMA GivingUpKeeps ==
  ASSUME IInv, TooFew \/ JoinFails \/ MoveFails \/ SwapRefused \/ MarkExcluded
  PROVE  IInv'
<1> USE DEF IInv
<1>1. Forget /\ UNCHANGED <<raw, file, clipRow, task, sweeper, shown, expired, reports, loose>>
  BY DEF TooFew, JoinFails, MoveFails, SwapRefused, MarkExcluded, work, counters, history
<1>2. row' \in [Chunks -> Row] /\ PathInv' /\ \A d \in Chunks : Known(d) => Known(d)'
  <2>1. row' = row \/ \E ids : row' = Marked(ids)
    BY DEF TooFew, JoinFails, MoveFails, SwapRefused, MarkExcluded, work
  <2>2. CASE row' = row
    BY <2>2 DEF PathInv, Known, TypeOK
  <2> QED BY <2>1, <2>2, RowsAreTyped
<1>3. upsets' \in Nat
  BY UpsetIsTyped DEF TooFew, JoinFails, MoveFails, SwapRefused, MarkExcluded, counters, TypeOK
<1>4. clip' \subseteq Chunks
  BY DEF TooFew, JoinFails, MoveFails, SwapRefused, MarkExcluded, TypeOK
<1>5. Sources \subseteq Chunks
  BY DEF Sources, TypeOK, Entry
<1>6. stranded' \subseteq Chunks
  BY <1>5 DEF TooFew, JoinFails, MoveFails, SwapRefused, MarkExcluded, history, TypeOK
<1>7. trampled' \subseteq Chunks \X Tramplers
  <2>1. CASE JoinFails
    <3>1. clip \in SUBSET Chunks
      BY DEF TypeOK
    <3> QED BY <2>1, <3>1, TrampleIsTyped DEF JoinFails, Tramplers
  <2>2. CASE trampled' = trampled
    BY <2>2 DEF TypeOK
  <2> QED BY <2>1, <2>2 DEF TooFew, MoveFails, SwapRefused, MarkExcluded, history
<1>8. TimelineKeeps'
  BY <1>1, <1>2, KnownKeepsTimeline
<1>9. SelectInv' /\ ClipInv'
  BY <1>1, SelectionStays DEF sweeper
<1> QED BY <1>1, <1>2, <1>3, <1>4, <1>6, <1>7, <1>8, <1>9, ForgetIsTyped, StitcherStepKeeps
        DEF TypeOK

LEMMA FilesMoveKeeps == ASSUME IInv, RemoveSources \/ Move PROVE IInv'
<1> USE DEF IInv
<1>1. UNCHANGED <<raw, row, clipRow, task, batch, joined, sweeper, counters, shown, expired,
                  stranded, loose>>
  BY DEF RemoveSources, Move, history
<1>2. /\ file' \in [Paths -> Contents] /\ clip' \subseteq Chunks
      /\ trampled' \subseteq Chunks \X Tramplers
  <2>1. CASE RemoveSources
    <3>1. (UNION {Held(p) : p \in {e.path : e \in joined} \ {FinalPath}}) \ clip \in SUBSET Chunks
      BY HeldAreChunks DEF TypeOK, Entry
    <3> QED BY <2>1, <3>1, TrampleIsTyped DEF RemoveSources, TypeOK, Contents, Tramplers
  <2>2. CASE Move
    <3>1. FinalPath \in Paths
      BY <2>2, FirstIsThere DEF Move, BatchInv
    <3>2. clip \in SUBSET Chunks
      BY DEF TypeOK
    <3> QED BY <2>2, <3>1, <3>2, PutIsTyped DEF Move
  <2> QED BY <2>1, <2>2
<1>3. BatchInv' /\ stitch' \in {"removed", "moved"}
  BY DEF RemoveSources, Move, BatchInv
<1>4. PathInv' /\ TimelineKeeps'
  BY <1>1, KnownKeepsTimeline DEF PathInv, Known
<1>5. SelectInv' /\ ClipInv'
  BY <1>1, SelectionStays DEF sweeper
<1> QED BY <1>1, <1>2, <1>3, <1>4, <1>5, StitcherStepKeeps DEF counters, TypeOK

\* A chunk whose row goes is in the clip whose row comes; the id of that row
\* is in nobody's hands yet.
LEMMA SwapKeeps == ASSUME IInv, Swap PROVE IInv'
<1> USE DEF IInv
<1>1. FinalPath \in Paths /\ Sources \subseteq Chunks
  BY FirstIsThere DEF Swap, BatchInv, Sources, TypeOK, Entry
<1>2. clipRow' \in ClipRow /\ clipRow'.id = clipRow.id + 1 /\ clipRow'.has = Sources
  BY <1>1 DEF Swap, TypeOK, ClipRow
<1>3. row' \in [Chunks -> Row] /\ PathInv'
  BY RowsAreTyped DEF Swap
<1>4. TimelineKeeps'
  <2>1. ASSUME NEW c \in Chunks, Known(c) PROVE Known(c)' \/ c \in Sources
    BY <2>1 DEF Swap, Deleted, Known, Sources
  <2>2. clipRow.has = {}
    BY DEF Swap, ClipInv
  <2>3. UNCHANGED <<shown, expired>>
    BY DEF Swap, history
  <2>4. \A c \in shown \ expired : c \in Chunks /\ Known(c)
    BY <2>2 DEF TimelineKeeps, TypeOK
  <2> QED BY <1>2, <2>1, <2>3, <2>4 DEF TimelineKeeps
<1>5. SelectInv'
  <2>1. clipRow.id \in Nat /\ \A e \in expiring : e.id \in Nat
    BY DEF TypeOK, ClipRow, Expired
  <2> QED BY <1>2, <2>1 DEF Swap, SelectInv, sweeper, history
<1>6. ClipInv' /\ BatchInv'
  BY DEF Swap, ClipInv, BatchInv
<1> QED BY <1>2, <1>3, <1>4, <1>5, <1>6, StitcherStepKeeps
        DEF Swap, counters, history, TypeOK

-----------------------------------------------------------------------------
(* Retention and kills                                                     *)

LEMMA SelectExpiredKeeps == ASSUME IInv, SelectExpired PROVE IInv'
<1> USE DEF IInv
<1>1. ASSUME NEW e \in Visible
      PROVE  /\ e \in Expired
             /\ e.chunk # 0 => e.has = {e.chunk}
             /\ e.chunk = 0 => e.id = clipRow.id /\ e.has = clipRow.has
  BY MediaAssumption DEF Visible, Expired, TypeOK, Row, ClipRow
<1>2. expiring' \subseteq Visible /\ expired' = expired \cup UNION {e.has : e \in expiring'}
  BY DEF SelectExpired
<1>3. \A e \in expiring' : e.has \subseteq expired'
  BY <1>2
<1>4. SelectInv'
  <2>1. clipRow' = clipRow /\ clipRow.id \in Nat
    BY DEF SelectExpired, work, TypeOK, ClipRow
  <2> QED BY <1>1, <1>2, <1>3, <2>1 DEF SelectInv
<1>5. expired' \subseteq Chunks
  BY <1>1, <1>2 DEF TypeOK, Expired
<1>6. TypeOK'
  <2>1. \A e \in expiring' : e.path # NoPath => e.path[1] \in Seconds
    BY <1>1, <1>2 DEF Expired, Paths
  <2>2. loose' \subseteq Seconds
    BY <2>1 DEF SelectExpired, TypeOK
  <2> QED BY <1>1, <1>2, <1>5, <2>2, UpsetIsTyped DEF SelectExpired, TypeOK, work, stitcher
<1>7. TaskInv' /\ PathInv' /\ BatchInv' /\ ClipInv'
  BY DEF SelectExpired, TaskInv, PathInv, BatchInv, ClipInv, work, stitcher
<1>8. TimelineKeeps'
  BY <1>2, KnownKeepsTimeline DEF SelectExpired, work, Known
<1> QED BY <1>4, <1>6, <1>7, <1>8

LEMMA UnlinkKeeps == ASSUME IInv, Unlink PROVE IInv'
<1> USE DEF IInv
<1> DEFINE gone == {e.path : e \in expiring}
           D == (UNION {Held(p) : p \in gone \cap Paths}) \ (UNION {e.has : e \in expiring})
<1>1. D \in SUBSET Chunks
  BY HeldAreChunks
<1>2. trampled' \subseteq Chunks \X Tramplers
  BY <1>1, TrampleIsTyped DEF Unlink, Tramplers
<1>3. file' \in [Paths -> Contents]
  BY DEF Unlink, TypeOK, Contents
<1>4. TypeOK'
  BY <1>2, <1>3 DEF Unlink, TypeOK, stitcher, counters
<1>5. TaskInv' /\ PathInv' /\ BatchInv' /\ ClipInv' /\ SelectInv'
  BY DEF Unlink, TaskInv, PathInv, BatchInv, ClipInv, SelectInv, stitcher
<1>6. TimelineKeeps'
  BY KnownKeepsTimeline DEF Unlink, Known
<1> QED BY <1>4, <1>5, <1>6

\* The rows that go are those of chunks that are due, and the clip's only
\* when it is the clip that was selected.
LEMMA DeleteRowKeeps == ASSUME IInv, DeleteRow PROVE IInv'
<1> USE DEF IInv
<1>1. PICK e \in expiring :
        /\ expiring' = expiring \ {e}
        /\ row' = Deleted({e})
        /\ clipRow' = IF e.chunk = 0 /\ e.id = clipRow.id
                      THEN [clipRow EXCEPT !.status = "none", !.has = {}] ELSE clipRow
  BY DEF DeleteRow
<1>2. row' \in [Chunks -> Row] /\ PathInv'
  BY <1>1, RowsAreTyped
<1>3. /\ clipRow' \in ClipRow /\ clipRow'.id = clipRow.id
      /\ clipRow'.has = clipRow.has \/ clipRow'.has = {}
      /\ ClipInv'
  BY <1>1 DEF TypeOK, ClipRow, ClipInv
<1>4. TypeOK'
  BY <1>1, <1>2, <1>3 DEF DeleteRow, TypeOK, stitcher, counters, history
<1>5. SelectInv'
  BY <1>1, <1>3 DEF DeleteRow, SelectInv, history
<1>6. TimelineKeeps'
  <2>1. ASSUME NEW c \in Chunks, Known(c) PROVE Known(c)' \/ c \in expired
    BY <1>1, <2>1, MediaAssumption DEF Deleted, Known, SelectInv
  <2>2. clipRow.has \subseteq clipRow'.has \cup expired
    BY <1>1, <1>3 DEF SelectInv
  <2> QED BY <2>1, <2>2 DEF DeleteRow, TimelineKeeps, TypeOK, history
<1>7. TaskInv' /\ BatchInv'
  BY DEF DeleteRow, TaskInv, BatchInv, stitcher
<1> QED BY <1>2, <1>3, <1>4, <1>5, <1>6, <1>7

LEMMA SweepKeeps == ASSUME IInv, SweepRaw \/ SweepWork PROVE IInv'
<1> USE DEF IInv
<1>1. CASE SweepRaw
  <2>1. PICK c \in raw : raw' = raw \ {c} /\ expired' = expired \cup {c}
    BY <1>1 DEF SweepRaw
  <2>2. TypeOK'
    BY <1>1, <2>1, UpsetIsTyped DEF SweepRaw, TypeOK, stitcher, sweeper
  <2>3. TaskInv' /\ PathInv' /\ BatchInv' /\ ClipInv' /\ SelectInv'
    BY <1>1, <2>1 DEF SweepRaw, TaskInv, PathInv, BatchInv, ClipInv, SelectInv, stitcher,
                      sweeper
  <2>4. TimelineKeeps'
    BY <1>1, <2>1, KnownKeepsTimeline DEF SweepRaw, Known
  <2> QED BY <2>2, <2>3, <2>4
<1>2. CASE SweepWork
  <2>1. clip \in SUBSET Chunks
    BY DEF TypeOK
  <2>2. trampled' \subseteq Chunks \X Tramplers
    BY <1>2, <2>1, TrampleIsTyped DEF SweepWork, Tramplers
  <2>3. TypeOK'
    BY <1>2, <2>2 DEF SweepWork, TypeOK, work, sweeper, counters
  <2>4. TaskInv' /\ PathInv' /\ BatchInv' /\ ClipInv' /\ SelectInv'
    BY <1>2 DEF SweepWork, TaskInv, PathInv, BatchInv, ClipInv, SelectInv, work, sweeper
  <2>5. TimelineKeeps'
    BY <1>2, KnownKeepsTimeline DEF SweepWork, Known, work
  <2> QED BY <2>3, <2>4, <2>5
<1> QED BY <1>1, <1>2

LEMMA CrashKeeps == ASSUME IInv, Crash PROVE IInv'
<1> USE DEF IInv
<1>1. task' \in [Tasks -> Task] /\ TaskInv'
  BY DEF Crash, Task, Idle, NoPath, TaskInv
<1>2. stranded' \subseteq Chunks
  BY DEF Crash, Sources, TypeOK, Entry
<1>3. TypeOK'
  BY <1>1, <1>2, ForgetIsTyped, UpsetIsTyped DEF Crash, TypeOK, work
<1>4. PathInv' /\ ClipInv' /\ SelectInv'
  BY DEF Crash, PathInv, ClipInv, SelectInv, work
<1>5. TimelineKeeps'
  BY KnownKeepsTimeline DEF Crash, Known, work
<1> QED BY <1>1, <1>3, <1>4, <1>5, ForgetIsTyped DEF Crash

LEMMA NextKeeps == IInv /\ [Next]_vars => IInv'
<1> SUFFICES ASSUME IInv, [Next]_vars PROVE IInv'
  OBVIOUS
<1>1. CASE \E c \in Chunks : Upload(c) \/ \E t \in Tasks : Report(c, t)
  BY <1>1, DeviceKeeps
<1>2. CASE \E t \in Tasks : Skip(t) \/ Locate(t) \/ Read(t)
  BY <1>2, OutcomeKeeps
<1>3. CASE \E t \in Tasks : ClaimPath(t) \/ Write(t) \/ WriteFallback(t) \/ WriteFails(t)
  BY <1>3, FileStepKeeps
<1>4. CASE \E t \in Tasks : MarkReady(t) \/ RemoveRaw(t)
  BY <1>4, MarkReadyKeeps, RemoveRawKeeps
<1>5. CASE GiveEpisode \/ Join \/ TooFew \/ JoinFails \/ RemoveSources \/ Move \/ MoveFails
           \/ Swap \/ SwapRefused \/ MarkExcluded
  BY <1>5, GiveEpisodeKeeps, JoinKeeps, GivingUpKeeps, FilesMoveKeeps, SwapKeeps
<1>6. CASE SelectExpired \/ Unlink \/ DeleteRow \/ SweepRaw \/ SweepWork
  BY <1>6, SelectExpiredKeeps, UnlinkKeeps, DeleteRowKeeps, SweepKeeps
<1>7. CASE Crash
  BY <1>7, CrashKeeps
<1>8. CASE UNCHANGED vars
  BY <1>8, StutterKeeps
<1> QED BY <1>1, <1>2, <1>3, <1>4, <1>5, <1>6, <1>7, <1>8 DEF Next

LEMMA Inductive == Spec => []IInv
BY InitInv, NextKeeps, PTL DEF Spec

\* The state of ingest, stitcher and retention keeps its types, for any number
\* of chunks, tasks and faults.
THEOREM TypeCorrect == Spec => []TypeOK
<1>1. IInv => TypeOK
  BY DEF IInv
<1> QED BY <1>1, Inductive, PTL

\* A chunk that was ready once is in a row of its own or in that of the clip
\* until it expires, whatever stitches, sweeps, repeated reports and kills
\* come in between (store.py 624-627).
THEOREM TimelineIsKept == Spec => []TimelineKeeps
<1>1. IInv => TimelineKeeps
  BY DEF IInv
<1> QED BY <1>1, Inductive, PTL

-----------------------------------------------------------------------------
(* No footage is lost without a trace                                      *)

\* The chunk is somewhere else than in the staging directory, or is due, or
\* the model knows what took it.
Safe(c) == c \in OnDisk \cup clip \cup expired \cup Trampled

\* A name is claimed for a remux, and what a task has written is safe.
FiledInv ==
  \A t \in Tasks :
    /\ task[t].pc = "claimed" => task[t].path[3] = "mp4"
    /\ task[t].pc \in {"written", "filed"} => Safe(task[t].chunk)

FootageInv == \A c \in Chunks : c \in raw \/ Safe(c)

FInv == IInv /\ FiledInv /\ FootageInv

LEMMA TrampleAdds ==
  ASSUME NEW D, NEW by, Trample(D, by)
  PROVE  Trampled' = Trampled \cup D
<1>1. \A x \in D : <<x, by>>[1] = x
  OBVIOUS
<1> QED BY <1>1 DEF Trample, Trampled

\* Nothing a step takes from a file or from the work directory disappears.
LEMMA SafeCarries ==
  ASSUME \A p \in Paths : Held(p) \subseteq OnDisk' \cup clip' \cup expired' \cup Trampled',
         clip \subseteq OnDisk' \cup clip' \cup expired' \cup Trampled',
         expired \subseteq expired', Trampled \subseteq Trampled',
         NEW c, Safe(c)
  PROVE  Safe(c)'
BY DEF Safe, OnDisk

LEMMA SafeIfFilesStay ==
  ASSUME UNCHANGED <<file, clip, trampled>>, expired \subseteq expired', NEW c, Safe(c)
  PROVE  Safe(c)'
BY DEF Safe, OnDisk, Held, Exists, Trampled

\* os.replace and a truncating write.
LEMMA PutCarries ==
  ASSUME IInv, NEW p \in Paths, NEW C \in SUBSET Chunks, NEW by, Put(p, C, by)
  PROVE  /\ C \subseteq OnDisk'
         /\ \A q \in Paths : Held(q) \subseteq OnDisk' \cup Trampled'
         /\ Trampled \subseteq Trampled'
<1>1. Trampled' = Trampled \cup (Held(p) \ C)
  BY TrampleAdds DEF Put
<1>2. Held(p)' = C
  BY MediaAssumption DEF Put, Held, Exists, IInv, TypeOK
<1>3. \A q \in Paths : q # p => Held(q)' = Held(q)
  BY DEF Put, Held, Exists, IInv, TypeOK
<1>4. \A q \in Paths : Held(q)' \subseteq OnDisk'
  BY DEF OnDisk
<1> QED BY <1>1, <1>2, <1>3, <1>4

LEMMA FallbackCarries ==
  ASSUME IInv, FiledInv, NEW t \in Tasks, WriteFallback(t)
  PROVE  /\ task[t].chunk \in OnDisk'
         /\ \A q \in Paths : Held(q) \subseteq OnDisk' \cup Trampled'
         /\ Trampled \subseteq Trampled'
<1>1. PICK c \in Chunks, p \in Paths, q \in Paths :
        /\ c = task[t].chunk /\ p = task[t].path /\ q = Fallback(p) /\ p[3] = "mp4"
  BY NamesArePaths DEF WriteFallback, At, IInv, TaskInv, FiledInv
<1>2. q # p
  BY <1>1 DEF Fallback
<1>3. Trampled' = Trampled \cup ((Held(p) \cup Held(q)) \ {c})
  BY <1>1, TrampleAdds DEF WriteFallback
<1>4. file' = [file EXCEPT ![q] = {c}, ![p] = NoFile]
  BY <1>1 DEF WriteFallback
<1>5. Held(q)' = {c}
  BY <1>2, <1>4, MediaAssumption DEF Held, Exists, IInv, TypeOK
<1>6. \A r \in Paths : r \notin {p, q} => Held(r)' = Held(r)
  BY <1>4 DEF Held, Exists, IInv, TypeOK
<1>7. \A r \in Paths : Held(r)' \subseteq OnDisk'
  BY DEF OnDisk
<1>8. c \in OnDisk'
  BY <1>5, <1>7
<1>9. \A r \in Paths : Held(r) \subseteq OnDisk' \cup Trampled'
  BY <1>3, <1>6, <1>7, <1>8
<1> QED BY <1>1, <1>3, <1>8, <1>9

\* Files that are unlinked.
LEMMA UnlinkCarries ==
  ASSUME IInv, NEW gone,
         file' = [p \in Paths |-> IF p \in gone THEN NoFile ELSE file[p]],
         NEW D, \A p \in Paths \cap gone : Held(p) \subseteq D
  PROVE  \A q \in Paths : Held(q) \subseteq OnDisk' \cup D
<1>1. \A q \in Paths : q \notin gone => Held(q)' = Held(q)
  BY DEF Held, Exists
<1>2. \A q \in Paths : Held(q)' \subseteq OnDisk'
  BY DEF OnDisk
<1> QED BY <1>1, <1>2

LEMMA MemberOrLeft ==
  ASSUME NEW S, NEW A \in S, NEW B
  PROVE  A \subseteq ((UNION S) \ B) \cup B
OBVIOUS

\* Whatever a step does, a chunk that is safe stays safe.
LEMMA SafeStays ==
  ASSUME IInv, FiledInv, [Next]_vars, NEW c, Safe(c)
  PROVE  Safe(c)'
<1> USE DEF IInv
<1>1. CASE \E t \in Tasks : Write(t)
  <2>1. PICK t \in Tasks : Write(t)
    BY <1>1
  <2>2. task[t].path \in Paths /\ {task[t].chunk} \in SUBSET Chunks
    BY <2>1 DEF Write, At, TaskInv
  <2> QED BY <2>1, <2>2, PutCarries, SafeCarries DEF Write, stitcher
<1>2. CASE \E t \in Tasks : WriteFallback(t)
  BY <1>2, FallbackCarries, SafeCarries DEF WriteFallback, stitcher
<1>3. CASE \E t \in Tasks : ClaimPath(t)
  <2>1. PICK t \in Tasks, p \in Paths : ~Exists(p) /\ file' = [file EXCEPT ![p] = {}]
    BY <1>3, NamesArePaths DEF ClaimPath, Free, At, TaskInv
  <2>2. \A q \in Paths : Held(q)' = Held(q)
    BY <2>1 DEF Held, Exists, TypeOK
  <2>3. OnDisk' = OnDisk
    BY <2>2 DEF OnDisk
  <2> QED BY <1>3, <2>3 DEF ClaimPath, Safe, Trampled, stitcher, history
<1>4. CASE Join \/ JoinFails \/ SweepWork
  <2>1. PICK by : Trample(clip \ clip', by)
    BY <1>4 DEF Join, JoinFails, SweepWork
  <2>2. UNCHANGED <<file, expired>>
    BY <1>4 DEF Join, JoinFails, SweepWork, work
  <2>3. \A p \in Paths : Held(p) \subseteq OnDisk'
    BY <2>2 DEF OnDisk, Held, Exists
  <2> QED BY <2>1, <2>2, <2>3, TrampleAdds, SafeCarries
<1>5. CASE RemoveSources
  <2> DEFINE gone == {e.path : e \in joined} \ {FinalPath}
             D == (UNION {Held(p) : p \in gone}) \ clip
  <2>1. Trampled' = Trampled \cup D /\ UNCHANGED <<clip, expired>>
    BY <1>5, TrampleAdds DEF RemoveSources
  <2>2. \A q \in Paths : Held(q) \subseteq OnDisk' \cup (D \cup clip)
    <3>1. file' = [p \in Paths |-> IF p \in gone THEN NoFile ELSE file[p]]
      BY <1>5 DEF RemoveSources
    <3>2. ASSUME NEW p \in Paths \cap gone PROVE Held(p) \subseteq D \cup clip
      <4>1. Held(p) \in {Held(q) : q \in gone}
        BY Zenon
      <4> QED BY <4>1, MemberOrLeft
    <3> HIDE DEF gone, D
    <3> QED BY <3>1, <3>2, UnlinkCarries
  <2> QED BY <2>1, <2>2, SafeCarries
<1>6. CASE Move
  <2>1. FinalPath \in Paths /\ clip \in SUBSET Chunks
    BY <1>6, FirstIsThere DEF Move, BatchInv, TypeOK
  <2> QED BY <1>6, <2>1, PutCarries, SafeCarries DEF Move
<1>7. CASE Unlink
  <2> DEFINE gone == {e.path : e \in expiring}
             due == UNION {e.has : e \in expiring}
             D == (UNION {Held(p) : p \in gone \cap Paths}) \ due
  <2>1. Trampled' = Trampled \cup D /\ UNCHANGED <<clip, expired>>
    BY <1>7, TrampleAdds DEF Unlink, stitcher
  <2>2. \A q \in Paths : Held(q) \subseteq OnDisk' \cup (D \cup due)
    <3>1. file' = [p \in Paths |-> IF p \in gone THEN NoFile ELSE file[p]]
      BY <1>7 DEF Unlink
    <3>2. ASSUME NEW p \in Paths \cap gone PROVE Held(p) \subseteq D \cup due
      <4>1. Held(p) \in {Held(q) : q \in gone \cap Paths}
        BY Zenon
      <4> QED BY <4>1, MemberOrLeft
    <3> HIDE DEF gone, D, due
    <3> QED BY <3>1, <3>2, UnlinkCarries
  <2>3. due \subseteq expired
    BY DEF SelectInv
  <2> QED BY <2>1, <2>2, <2>3, SafeCarries
<1>8. CASE /\ UNCHANGED <<file, clip, trampled>>
           /\ expired \subseteq expired'
  BY <1>8, SafeIfFilesStay
<1>9. ASSUME Next
      PROVE  \/ \E t \in Tasks : Write(t) \/ WriteFallback(t) \/ ClaimPath(t)
             \/ Join \/ JoinFails \/ SweepWork \/ RemoveSources \/ Move \/ Unlink
             \/ UNCHANGED <<file, clip, trampled>> /\ expired \subseteq expired'
  <2>1. CASE \E d \in Chunks : Upload(d) \/ \E t \in Tasks : Report(d, t)
    BY <2>1 DEF Upload, Report, stitcher, history
  <2>2. CASE \E t \in Tasks : Skip(t) \/ Locate(t) \/ Read(t) \/ WriteFails(t) \/ MarkReady(t)
                              \/ RemoveRaw(t)
    BY <2>2 DEF Skip, Locate, Read, WriteFails, MarkReady, RemoveRaw, stitcher, history, work
  <2>3. CASE GiveEpisode \/ TooFew \/ MoveFails \/ Swap \/ SwapRefused \/ MarkExcluded
    BY <2>3 DEF GiveEpisode, TooFew, MoveFails, Swap, SwapRefused, MarkExcluded, work, history
  <2>4. CASE SelectExpired \/ DeleteRow \/ SweepRaw \/ Crash
    BY <2>4 DEF SelectExpired, DeleteRow, SweepRaw, Crash, work, stitcher, history
  <2> QED BY <1>9, <2>1, <2>2, <2>3, <2>4 DEF Next
<1>10. CASE UNCHANGED vars
  BY <1>8, <1>10 DEF vars, work, stitcher, history
<1> QED BY <1>1, <1>2, <1>3, <1>4, <1>5, <1>6, <1>7, <1>8, <1>9, <1>10

\* What the steps of tasks do to what is written and what is claimed.
LEMMA TasksMove ==
  ASSUME IInv, FiledInv, [Next]_vars, NEW t \in Tasks
  PROVE  /\ task'[t].pc = "claimed" =>
              task'[t] = task[t] \/ \E n : task'[t].path = <<Sec[task[t].chunk], n, "mp4">>
         /\ task'[t].pc \in {"written", "filed"} =>
              /\ task'[t].chunk = task[t].chunk
              /\ task[t].pc \in {"written", "filed"} \/ Write(t) \/ WriteFallback(t)
<1> USE DEF IInv, TypeOK
<1>1. CASE \E c \in Chunks, u \in Tasks : Report(c, u)
  BY <1>1 DEF Report, Idle, NoPath
<1>2. CASE \E u \in Tasks : Skip(u) \/ WriteFails(u) \/ RemoveRaw(u)
  BY <1>2 DEF Skip, WriteFails, RemoveRaw, Done, Idle
<1>3. CASE \E u \in Tasks : Locate(u) \/ Read(u) \/ MarkReady(u)
  BY <1>3 DEF Locate, Read, MarkReady, Done, Goto, At, Idle, Task
<1>4. CASE \E u \in Tasks : ClaimPath(u)
  BY <1>4 DEF ClaimPath, At, Task
<1>5. CASE \E u \in Tasks : Write(u)
  <2>1. PICK u \in Tasks : Write(u) /\ task' = [task EXCEPT ![u].pc = "written"]
    BY <1>5 DEF Write, Goto
  <2> QED BY <2>1 DEF Task
<1>6. CASE \E u \in Tasks : WriteFallback(u)
  <2>1. PICK u \in Tasks : WriteFallback(u)
    BY <1>6
  <2>2. PICK q : task' = [task EXCEPT ![u].pc = "written", ![u].path = q]
    BY <2>1 DEF WriteFallback
  <2> QED BY <2>1, <2>2 DEF Task
<1>7. CASE Crash
  BY <1>7 DEF Crash, Idle
<1>8. CASE UNCHANGED task
  BY <1>8
<1>9. CASE UNCHANGED vars
  BY <1>9, <1>8 DEF vars
<1>10. CASE \E c \in Chunks : Upload(c)
  BY <1>8, <1>10 DEF Upload
<1>11. CASE GiveEpisode \/ Join \/ TooFew \/ JoinFails \/ RemoveSources \/ Move \/ MoveFails
            \/ Swap \/ SwapRefused \/ MarkExcluded
  BY <1>8, <1>11 DEF GiveEpisode, Join, TooFew, JoinFails, RemoveSources, Move, MoveFails, Swap,
                     SwapRefused, MarkExcluded
<1>12. CASE SelectExpired \/ Unlink \/ DeleteRow \/ SweepRaw \/ SweepWork
  BY <1>8, <1>12 DEF SelectExpired, Unlink, DeleteRow, SweepRaw, SweepWork
<1> QED BY <1>1, <1>2, <1>3, <1>4, <1>5, <1>6, <1>7, <1>9, <1>10, <1>11, <1>12 DEF Next

\* The staging directory loses a chunk to a task that has filed it, or because
\* it is due.
LEMMA RawShrinks ==
  ASSUME IInv, [Next]_vars, NEW c \in raw, c \notin raw'
  PROVE  c \in expired' \/ \E t \in Tasks : task[t].pc = "filed" /\ task[t].chunk = c
<1>1. CASE \E d \in Chunks : Upload(d)
  BY <1>1 DEF Upload
<1>2. CASE \E t \in Tasks : RemoveRaw(t)
  BY <1>2 DEF RemoveRaw, At
<1>3. CASE SweepRaw
  BY <1>3 DEF SweepRaw
<1>4. CASE UNCHANGED raw
  BY <1>4
<1>5. CASE UNCHANGED vars
  BY <1>4, <1>5 DEF vars, work
<1>6. CASE \/ \E d \in Chunks, t \in Tasks : Report(d, t)
           \/ \E t \in Tasks : Skip(t) \/ Locate(t) \/ Read(t) \/ ClaimPath(t) \/ Write(t)
                              \/ WriteFallback(t) \/ WriteFails(t) \/ MarkReady(t)
  BY <1>4, <1>6 DEF Report, Skip, Locate, Read, ClaimPath, Write, WriteFallback, WriteFails,
                    MarkReady, work
<1>7. CASE GiveEpisode \/ Join \/ TooFew \/ JoinFails \/ RemoveSources \/ Move \/ MoveFails
           \/ Swap \/ SwapRefused \/ MarkExcluded
  BY <1>4, <1>7 DEF GiveEpisode, Join, TooFew, JoinFails, RemoveSources, Move, MoveFails, Swap,
                    SwapRefused, MarkExcluded, work
<1>8. CASE SelectExpired \/ Unlink \/ DeleteRow \/ SweepWork \/ Crash
  BY <1>4, <1>8 DEF SelectExpired, Unlink, DeleteRow, SweepWork, Crash, work
<1> QED BY <1>1, <1>2, <1>3, <1>5, <1>6, <1>7, <1>8 DEF Next

LEMMA FInit == Init => FInv
<1> SUFFICES ASSUME Init PROVE FInv
  OBVIOUS
<1>1. FiledInv /\ FootageInv
  BY DEF Init, FiledInv, FootageInv, Idle
<1> QED BY <1>1, InitInv DEF FInv

LEMMA FNext == FInv /\ [Next]_vars => FInv'
<1> SUFFICES ASSUME FInv, [Next]_vars PROVE FInv'
  OBVIOUS
<1> USE DEF FInv
<1>1. IInv'
  BY NextKeeps
<1>2. ASSUME NEW t \in Tasks, task'[t].pc \in {"written", "filed"}
      PROVE  Safe(task[t].chunk)'
  <2>1. PICK c : c = task[t].chunk /\ c = task'[t].chunk
    BY <1>2, TasksMove
  <2>2. CASE task[t].pc \in {"written", "filed"}
    <3>1. Safe(c)
      BY <2>1, <2>2 DEF FiledInv
    <3> QED BY <2>1, <3>1, SafeStays DEF Safe
  <2>3. CASE Write(t)
    <3>1. {c} \in SUBSET Chunks /\ task[t].path \in Paths
      BY <2>1, <2>3 DEF Write, At, IInv, TaskInv
    <3>2. {c} \subseteq OnDisk'
      BY <2>1, <2>3, <3>1, PutCarries DEF Write
    <3> QED BY <2>1, <3>2 DEF Safe
  <2>4. CASE WriteFallback(t)
    BY <2>1, <2>4, FallbackCarries DEF Safe
  <2> QED BY <1>2, <2>2, <2>3, <2>4, TasksMove
<1>3. FiledInv'
  <2>1. ASSUME NEW t \in Tasks, task'[t].pc = "claimed" PROVE task'[t].path[3] = "mp4"
    BY <2>1, TasksMove DEF FiledInv
  <2> QED BY <1>2, <2>1 DEF FiledInv
<1>4. ASSUME NEW c \in Chunks, c \notin raw' PROVE Safe(c)'
  <2>1. CASE c \in raw
    <3>1. c \in expired' \/ Safe(c)
      BY <1>4, <2>1, RawShrinks DEF FiledInv
    <3>2. CASE c \in expired'
      BY <3>2 DEF Safe
    <3> QED BY <3>1, <3>2, SafeStays
  <2>2. CASE c \notin raw
    BY <2>2, SafeStays DEF FootageInv
  <2> QED BY <2>1, <2>2
<1> QED BY <1>1, <1>3, <1>4 DEF FootageInv

\* Whatever tasks, stitcher, sweeps, failed calls and kills do to each other, a
\* chunk the device uploaded is in the staging directory, in the friendly tree
\* or in the work directory until it is due, unless an operation on another
\* file took its file: for any number of chunks, seconds, tasks and faults.
THEOREM FootageIsKept == Spec => []FootageKept
<1>1. FInv => FootageKept
  BY DEF FInv, FootageInv, FootageKept, Safe
<1> QED BY <1>1, FInit, FNext, PTL DEF Spec

-----------------------------------------------------------------------------
(* Tasks that run side by side                                             *)

Quiet == upsets = 0 /\ clipRow.status = "none" /\ stitch # "moved"

\* Nothing is swept unless something was selected.
SweepInv == upsets = 0 => sweep = "idle"

\* As long as nothing takes a name without reserving it, a claimed file is an
\* empty one of its task alone, the work file holds what the join read, and
\* what it read is still where it was.
QuietInv ==
  Quiet =>
    /\ trampled = {} /\ stitch # "swapped"
    /\ \A t \in Tasks :
         task[t].pc = "claimed" =>
           /\ file[task[t].path] = {}
           /\ \A u \in Tasks : task[u].pc = "claimed" /\ task[u].path = task[t].path => u = t
    /\ stitch \notin {"verified", "removed"} => clip = {}
    /\ stitch = "verified" => \A e \in joined : Held(e.path) # {} /\ Held(e.path) \subseteq clip

AInv == IInv /\ SweepInv /\ QuietInv

LEMMA NothingTrampled ==
  ASSUME NEW D, NEW by, D = {}, Trample(D, by)
  PROVE  trampled' = trampled
BY DEF Trample

LEMMA SweepInvKeeps == ASSUME IInv, SweepInv, [Next]_vars PROVE SweepInv'
<1> USE DEF IInv, TypeOK
<1>1. upsets \in Nat /\ upsets' \in Nat /\ (Upset => upsets' # 0)
  BY NextKeeps DEF Upset
<1>2. CASE SelectExpired \/ Crash
  BY <1>1, <1>2 DEF SelectExpired, Crash, SweepInv
<1>3. CASE Unlink \/ DeleteRow
  BY <1>3 DEF Unlink, DeleteRow, SweepInv, counters
<1>4. CASE UNCHANGED sweep /\ (Upset \/ UNCHANGED upsets)
  BY <1>1, <1>4 DEF SweepInv
<1>5. CASE UNCHANGED vars
  BY <1>4, <1>5 DEF vars, sweeper, counters
<1>6. CASE \E c \in Chunks : Upload(c) \/ \E t \in Tasks : Report(c, t)
  BY <1>4, <1>6 DEF Upload, Report, sweeper
<1>7. CASE \E t \in Tasks : \/ Skip(t) \/ Locate(t) \/ Read(t) \/ ClaimPath(t) \/ Write(t)
                            \/ WriteFallback(t) \/ WriteFails(t) \/ MarkReady(t) \/ RemoveRaw(t)
  BY <1>4, <1>7 DEF Skip, Locate, Read, ClaimPath, Write, WriteFallback, WriteFails, MarkReady,
                    RemoveRaw, sweeper, counters
<1>8. CASE GiveEpisode \/ Join \/ TooFew \/ JoinFails \/ RemoveSources \/ Move \/ MoveFails
           \/ Swap \/ SwapRefused \/ MarkExcluded \/ SweepRaw \/ SweepWork
  BY <1>4, <1>8 DEF GiveEpisode, Join, TooFew, JoinFails, RemoveSources, Move, MoveFails, Swap,
                    SwapRefused, MarkExcluded, SweepRaw, SweepWork, sweeper, counters
<1> QED BY <1>2, <1>3, <1>5, <1>6, <1>7, <1>8 DEF Next

\* What can have happened in a step after which all is still quiet.
LEMMA QuietBefore ==
  ASSUME AInv, [Next]_vars, Quiet'
  PROVE  /\ Quiet
         /\ \/ UNCHANGED <<file, trampled, stitcher>> /\ \E t \in Tasks : Done(t)
            \/ /\ UNCHANGED <<file, trampled, stitcher>>
               /\ \E t \in Tasks, pc \in {"located", "read", "filed"} : Goto(t, pc)
            \/ UNCHANGED <<file, trampled, stitcher>> /\ \E c \in Chunks, t \in Tasks : Report(c, t)
            \/ \E t \in Tasks : ClaimPath(t) \/ Write(t)
            \/ GiveEpisode \/ Join \/ TooFew \/ JoinFails \/ RemoveSources \/ SweepWork
            \/ UNCHANGED vars
<1> USE DEF AInv, IInv, TypeOK
<1>1. upsets = 0 /\ ~Upset /\ sweep = "idle"
  <2>1. upsets \in Nat /\ (upsets' = upsets \/ Upset)
    <3>1. CASE \E c \in Chunks : Upload(c) \/ \E t \in Tasks : Report(c, t)
      BY <3>1 DEF Upload, Report
    <3>2. CASE \E t \in Tasks : \/ Skip(t) \/ Locate(t) \/ Read(t) \/ ClaimPath(t) \/ Write(t)
                                \/ WriteFallback(t) \/ WriteFails(t) \/ MarkReady(t)
                                \/ RemoveRaw(t)
      BY <3>2 DEF Skip, Locate, Read, ClaimPath, Write, WriteFallback, WriteFails, MarkReady,
                  RemoveRaw, counters
    <3>3. CASE GiveEpisode \/ Join \/ TooFew \/ JoinFails \/ RemoveSources \/ Move \/ MoveFails
               \/ Swap \/ SwapRefused \/ MarkExcluded
      BY <3>3 DEF GiveEpisode, Join, TooFew, JoinFails, RemoveSources, Move, MoveFails, Swap,
                  SwapRefused, MarkExcluded, counters
    <3>4. CASE SelectExpired \/ Unlink \/ DeleteRow \/ SweepRaw \/ SweepWork \/ Crash
      BY <3>4 DEF SelectExpired, Unlink, DeleteRow, SweepRaw, SweepWork, Crash, counters
    <3> QED BY <3>1, <3>2, <3>3, <3>4 DEF Next, vars, counters
  <2>2. upsets = 0 /\ ~Upset
    BY <2>1 DEF Quiet, Upset
  <2> QED BY <2>2 DEF SweepInv
<1>2. CASE \E c \in Chunks : Upload(c) \/ \E t \in Tasks : Report(c, t)
  BY <1>1, <1>2 DEF Upload, Report, Quiet, stitcher, history
<1>3. CASE \E t \in Tasks : \/ Skip(t) \/ Locate(t) \/ Read(t)
                            \/ WriteFallback(t) \/ WriteFails(t) \/ MarkReady(t) \/ RemoveRaw(t)
  BY <1>1, <1>3 DEF Skip, Locate, Read, WriteFallback, WriteFails, MarkReady, RemoveRaw,
                    Quiet, stitcher, history
<1>4. CASE \E t \in Tasks : ClaimPath(t) \/ Write(t)
  BY <1>1, <1>4 DEF ClaimPath, Write, Quiet, stitcher
<1>5. CASE GiveEpisode \/ Join \/ TooFew \/ JoinFails \/ RemoveSources \/ SweepWork
  BY <1>1, <1>5 DEF GiveEpisode, Join, TooFew, JoinFails, RemoveSources, SweepWork, Quiet, work
<1>6. ~Move /\ ~MoveFails /\ ~Swap /\ ~SwapRefused
  BY <1>1 DEF Move, MoveFails, Swap, SwapRefused, Quiet, work
<1>7. ~MarkExcluded
  BY <1>1 DEF MarkExcluded, QuietInv, Quiet
<1>8. ~SelectExpired /\ ~Unlink /\ ~DeleteRow /\ ~SweepRaw /\ ~Crash
  BY <1>1 DEF SelectExpired, Unlink, DeleteRow, SweepRaw, Crash
<1>9. CASE UNCHANGED vars
  BY <1>1, <1>9 DEF vars, work, stitcher, Quiet
<1> QED BY <1>2, <1>3, <1>4, <1>5, <1>6, <1>7, <1>8, <1>9 DEF Next

LEMMA QuietKeeps == ASSUME AInv, [Next]_vars PROVE QuietInv'
<1> SUFFICES ASSUME Quiet' PROVE QuietInv'
  BY DEF QuietInv
<1>1. Quiet
  BY QuietBefore
<1> USE <1>1 DEF AInv, IInv, TypeOK, QuietInv
<1>2. CASE /\ UNCHANGED <<file, trampled, stitcher>>
           /\ \A t \in Tasks : task'[t].pc = "claimed" => task'[t] = task[t]
  BY <1>2 DEF stitcher, Held, Exists
<1>3. CASE \E t \in Tasks : ClaimPath(t)
  <2>1. PICK t \in Tasks, p \in Paths :
          /\ task[t].pc = "read" /\ ~Exists(p) /\ file' = [file EXCEPT ![p] = {}]
          /\ task' = [task EXCEPT ![t].pc = "claimed", ![t].path = p]
          /\ UNCHANGED <<stitcher, history>>
    BY <1>3, NamesArePaths DEF ClaimPath, Free, At, TaskInv
  <2>2. \A q \in Paths : Held(q)' = Held(q)
    BY <2>1 DEF Held, Exists
  <2>3. ASSUME NEW u \in Tasks, task'[u].pc = "claimed"
        PROVE  /\ file'[task'[u].path] = {}
               /\ \A v \in Tasks : task'[v].pc = "claimed" /\ task'[v].path = task'[u].path
                                   => v = u
    <3>1. \A v \in Tasks : v # t /\ task'[v].pc = "claimed" =>
            /\ task'[v] = task[v] /\ task[v].path \in Paths
            /\ file[task[v].path] = {} /\ task[v].path # p
      BY <2>1, MediaAssumption DEF TaskInv, Exists
    <3>2. task'[t].path = p
      BY <2>1 DEF Task
    <3> QED BY <2>1, <2>3, <3>1, <3>2
  <2>4. \A e \in joined : e.path \in Paths
    BY DEF Entry
  <2> QED BY <2>1, <2>2, <2>3, <2>4 DEF stitcher, history
<1>4. CASE \E t \in Tasks : Write(t)
  <2>1. PICK t \in Tasks, p \in Paths, C \in SUBSET Chunks :
          /\ p = task[t].path /\ task[t].pc = "claimed" /\ Put(p, C, "write")
          /\ task' = [task EXCEPT ![t].pc = "written"]
          /\ UNCHANGED <<stitcher>>
    <3>1. PICK t \in Tasks : Write(t)
      BY <1>4
    <3>2. task[t].path \in Paths /\ {task[t].chunk} \in SUBSET Chunks
      BY <3>1 DEF Write, At, TaskInv
    <3> QED BY <3>1, <3>2 DEF Write, Goto, At
  <2>2. file[p] = {} /\ Held(p) = {}
    BY <2>1 DEF Held
  <2>3. trampled' = trampled
    <3>1. Held(p) \ C = {}
      BY <2>2
    <3> QED BY <2>1, <3>1, NothingTrampled DEF Put
  <2>4. \A q \in Paths : q # p => file'[q] = file[q] /\ Held(q)' = Held(q)
    BY <2>1 DEF Put, Held, Exists
  <2>5. ASSUME NEW u \in Tasks, task'[u].pc = "claimed"
        PROVE  task'[u] = task[u] /\ task[u].path \in Paths /\ task[u].path # p
    BY <2>1, <2>5 DEF Task, TaskInv
  <2>6. stitch = "verified" => \A e \in joined : e.path \in Paths /\ e.path # p
    BY <2>2 DEF Entry
  <2> QED BY <2>1, <2>3, <2>4, <2>5, <2>6 DEF stitcher
<1>5. CASE GiveEpisode \/ TooFew
  BY <1>5 DEF GiveEpisode, TooFew, Forget, work, counters, history
<1>6. CASE JoinFails \/ SweepWork
  <2>1. clip = {} /\ JoinFails
    BY <1>6 DEF JoinFails, SweepWork
  <2> QED BY <2>1, NothingTrampled DEF JoinFails, Forget
<1>7. CASE Join
  <2>1. PICK J \in Choices : /\ joined' = J
                             /\ clip' = UNION {file[e.path] : e \in J}
                             /\ Trample(clip \ clip', "rejoin")
    BY <1>7 DEF Join
  <2>2. clip \ clip' = {}
    BY <1>7 DEF Join
  <2>3. trampled' = trampled
    BY <2>1, <2>2, NothingTrampled
  <2>4. UNCHANGED <<file, task>> /\ stitch' = "verified"
    BY <1>7 DEF Join, work
  <2>5. ASSUME NEW e \in J PROVE Held(e.path)' # {} /\ Held(e.path)' \subseteq clip'
    <3>1. Held(e.path) # {} /\ Held(e.path) = file[e.path]
      BY HeldAreChunks DEF Choices, Entry
    <3>2. file[e.path] \in {file[d.path] : d \in J}
      BY Zenon
    <3> QED BY <2>1, <2>4, <3>1, <3>2 DEF Held, Exists
  <2> QED BY <2>1, <2>3, <2>4, <2>5
<1>8. CASE RemoveSources
  <2> DEFINE gone == {e.path : e \in joined} \ {FinalPath}
  <2>1. \A q \in gone : Held(q) # {} /\ Held(q) \subseteq clip
    BY <1>8 DEF RemoveSources
  <2>2. (UNION {Held(q) : q \in gone}) \ clip = {}
    BY <2>1
  <2>3. trampled' = trampled
    <3>1. Trample((UNION {Held(q) : q \in gone}) \ clip, "remove")
      BY <1>8 DEF RemoveSources
    <3> QED BY <2>2, <3>1, NothingTrampled
  <2>4. ASSUME NEW t \in Tasks, task[t].pc = "claimed"
        PROVE  file'[task[t].path] = {}
    <3>1. task[t].path \in Paths /\ file[task[t].path] = {} /\ Held(task[t].path) = {}
      BY <2>4 DEF TaskInv, Held
    <3> QED BY <1>8, <2>1, <3>1 DEF RemoveSources
  <2> QED BY <1>8, <2>3, <2>4 DEF RemoveSources
<1>9. CASE UNCHANGED vars
  BY <1>2, <1>9 DEF vars, work, stitcher, history
<1>10. ASSUME NEW t \in Tasks, UNCHANGED <<file, trampled, stitcher>>,
              \/ Done(t)
              \/ \E pc \in {"located", "read", "filed"} : Goto(t, pc)
              \/ \E c \in Chunks : Report(c, t)
       PROVE  QuietInv'
  <2>1. CASE Done(t)
    BY <1>2, <1>10, <2>1 DEF Done, Idle
  <2>2. CASE \E pc \in {"located", "read", "filed"} : Goto(t, pc)
    <3>1. PICK pc \in {"located", "read", "filed"} : task' = [task EXCEPT ![t].pc = pc]
      BY <2>2 DEF Goto
    <3>2. task'[t].pc = pc /\ \A u \in Tasks : u # t => task'[u] = task[u]
      BY <3>1 DEF Task
    <3> QED BY <1>2, <1>10, <3>2
  <2>3. CASE \E c \in Chunks : Report(c, t)
    BY <1>2, <1>10, <2>3 DEF Report
  <2> QED BY <1>10, <2>1, <2>2, <2>3
<1> QED BY <1>3, <1>4, <1>5, <1>6, <1>7, <1>8, <1>9, <1>10, QuietBefore

\* Tasks that run side by side never take each other's file, for any number
\* of tasks and chunks: the reservation of a name holds until the file is
\* written, as long as nothing takes a name without reserving it.
THEOREM TasksAreKeptApart == Spec => []TasksKeepApart
<1>1. Init => AInv
  BY InitInv DEF AInv, Init, SweepInv, QuietInv, Idle
<1>2. AInv /\ [Next]_vars => AInv'
  BY NextKeeps, SweepInvKeeps, QuietKeeps DEF AInv
<1>3. AInv => TasksKeepApart
  BY DEF AInv, QuietInv, Quiet, TasksKeepApart
<1> QED BY <1>1, <1>2, <1>3, PTL DEF Spec

-----------------------------------------------------------------------------
(* What is ready plays                                                     *)

Working == {t \in Tasks : task[t].pc \in {"claimed", "written"}}
Reading == stitch \in {"given", "verified"}
Joining == stitch \in {"given", "verified", "removed", "moved"}

\* A file is named after the second of its chunk, and the names a sweep has
\* in its hands are no longer reserved for anybody.
NamesInv ==
  /\ \A c \in Chunks : row[c].path # NoPath => row[c].path[1] = Sec[c]
  /\ \A t \in Tasks : task[t].path # NoPath => task[t].path[1] = Sec[task[t].chunk]
  /\ \A e \in batch : e.path[1] = Sec[e.chunk]
  /\ \A e \in expiring : e.path # NoPath => e.path[1] \in loose
  /\ \A e \in expiring : e.chunk # 0 => Sec[e.chunk] \in loose

Files == {p \in Paths : Exists(p)}
held == [p \in Paths |-> Held(p)]
Ready == {c \in Chunks : row[c].status = "ready"}

\* The name a task has claimed is there and its own: no other task writes to
\* it, the join does not read from it, and a row that has it still is on its
\* way into a clip.
Owns(t) ==
  /\ task[t].path \in Files
  /\ task[t].pc = "written" => task[t].chunk \in held[task[t].path]
  /\ \A u \in Working : task[u].path = task[t].path => u = t
  /\ \A d \in Ready : row[d].path = task[t].path => d \in InJoin
  /\ Reading => \A e \in batch : e.path # task[t].path
TasksInv == \A t \in Working : Sec[task[t].chunk] \notin Spoilt => Owns(t)

\* A ready row has its chunk in its file, which no other row has, and what the
\* join reads under that name is this chunk.
Plays(c) ==
  /\ c \in held[row[c].path] \cup InJoin
  /\ \A d \in Ready : row[d].path = row[c].path => c = d \/ c \in InJoin \/ d \in InJoin
  /\ Reading => \A e \in batch : e.path = row[c].path => e.chunk = c
RowsInv == \A c \in Ready : Sec[c] \notin Spoilt => Plays(c)

\* What the join was given is where it was, and the rows are the same until
\* the clip's row comes.
EntriesInv ==
  \A e \in batch : Sec[e.chunk] \notin Spoilt =>
    /\ Reading => e.chunk \in held[e.path]
    /\ Joining => row[e.chunk].status # "none" /\ row[e.chunk].id = e.id

RInv == FInv /\ NamesInv /\ TasksInv /\ RowsInv /\ EntriesInv

LEMMA PathsAreNames == \A p \in Paths : p # NoPath
<1>1. ASSUME NEW p \in Paths PROVE p # NoPath
  <2>1. PICK sec \in Seconds, n \in Numbers, ext \in {"mp4", "ts"} : p = <<sec, n, ext>>
    BY DEF Paths
  <2>2. 1 \in DOMAIN <<sec, n, ext>> /\ 1 \notin DOMAIN << >>
    OBVIOUS
  <2> QED BY <2>1, <2>2 DEF NoPath
<1> QED BY <1>1

\* What the history holds against a second, it holds for ever.
LEMMA TracesStay ==
  ASSUME IInv, [Next]_vars
  PROVE  /\ loose \subseteq loose' /\ stranded \subseteq stranded' /\ Trampled \subseteq Trampled'
         /\ Spoilt \subseteq Spoilt'
<1>1. loose \subseteq loose' /\ stranded \subseteq stranded' /\ Trampled \subseteq Trampled'
  <2>1. CASE UNCHANGED <<trampled, stranded>> /\ loose \subseteq loose'
    BY <2>1 DEF Trampled
  <2>2. CASE UNCHANGED <<trampled, loose>> /\ stranded \subseteq stranded'
    BY <2>2 DEF Trampled
  <2>3. CASE (\E D, by : Trample(D, by)) /\ loose \subseteq loose' /\ UNCHANGED stranded
    BY <2>3, TrampleAdds
  <2>4. CASE UNCHANGED history
    BY <2>1, <2>4 DEF history
  <2>5. CASE UNCHANGED vars
    BY <2>4, <2>5 DEF vars
  <2>6. CASE \E c \in Chunks : Upload(c) \/ \E t \in Tasks : Report(c, t)
    BY <2>4, <2>6 DEF Upload, Report
  <2>7. CASE \E t \in Tasks : Skip(t) \/ Locate(t) \/ Read(t) \/ ClaimPath(t) \/ WriteFails(t)
                              \/ RemoveRaw(t)
    BY <2>4, <2>7 DEF Skip, Locate, Read, ClaimPath, WriteFails, RemoveRaw
  <2>8. CASE \E t \in Tasks : MarkReady(t)
    BY <2>1, <2>8 DEF MarkReady
  <2>9. CASE \E t \in Tasks : Write(t) \/ WriteFallback(t)
    BY <2>3, <2>9 DEF Write, WriteFallback, Put
  <2>10. CASE GiveEpisode \/ TooFew \/ Swap \/ MarkExcluded \/ DeleteRow
    BY <2>4, <2>10 DEF GiveEpisode, TooFew, Swap, MarkExcluded, DeleteRow
  <2>11. CASE Join \/ JoinFails \/ RemoveSources \/ Move \/ Unlink \/ SweepWork
    BY <2>3, <2>11 DEF Join, JoinFails, RemoveSources, Move, Put, Unlink, SweepWork
  <2>12. CASE MoveFails \/ SwapRefused \/ Crash
    BY <2>2, <2>12 DEF MoveFails, SwapRefused, Crash
  <2>13. CASE SelectExpired \/ SweepRaw
    BY <2>1, <2>13 DEF SelectExpired, SweepRaw
  <2> QED BY <2>5, <2>6, <2>7, <2>8, <2>9, <2>10, <2>11, <2>12, <2>13 DEF Next
<1> QED BY <1>1 DEF Spoilt

\* A step without a newcomer: who works, who is ready and what the join was
\* given were so before, and none of them loses what it held, unless it goes
\* into the clip.
LEMMA NobodyCame ==
  ASSUME RInv, TypeOK', Spoilt \subseteq Spoilt',
         \A t \in Working' :
           /\ t \in Working /\ task'[t].chunk = task[t].chunk /\ task'[t].path = task[t].path
           /\ Sec[task[t].chunk] \notin Spoilt' /\ Owns(t) =>
                /\ task[t].path \in Files'
                /\ task'[t].pc = "written" => task[t].chunk \in held'[task[t].path],
         \A c \in Ready' :
           /\ c \in Ready /\ row'[c].path = row[c].path
           /\ Sec[c] \notin Spoilt' =>
                /\ c \in InJoin => c \in InJoin'
                /\ c \in held[row[c].path] => c \in held'[row[c].path] \cup InJoin',
         batch' \subseteq batch, Reading' => Reading, Joining' => Joining,
         \A e \in batch' : Sec[e.chunk] \notin Spoilt' =>
           /\ Reading' /\ e.chunk \in held[e.path] => e.chunk \in held'[e.path]
           /\ Joining' /\ row[e.chunk].status # "none" =>
                row'[e.chunk].status # "none" /\ row'[e.chunk].id = row[e.chunk].id
  PROVE  TasksInv' /\ RowsInv' /\ EntriesInv'
<1> USE DEF RInv
<1>1. \A c \in Ready : row[c].path \in Paths /\ row[c].path # NoPath /\ c \in Chunks
  BY PathsAreNames DEF FInv, IInv, PathInv, Ready
<1>2. \A c \in Ready : row[c].path[1] = Sec[c]
  BY <1>1 DEF NamesInv
<1>3. ASSUME NEW t \in Working', Sec[task'[t].chunk] \notin Spoilt' PROVE Owns(t)'
  <2>1. t \in Working /\ Owns(t)
    BY <1>3 DEF TasksInv
  <2> DEFINE p == task[t].path
  <2>2. /\ task'[t].path = p /\ p \in Files'
        /\ task'[t].pc = "written" => task'[t].chunk \in held'[p]
    BY <1>3, <2>1
  <2>3. \A u \in Working' : task'[u].path = p => u = t
    BY <2>1 DEF Owns
  <2>4. ASSUME NEW d \in Ready', row'[d].path = p PROVE d \in InJoin'
    <3>1. d \in Ready /\ row[d].path = p /\ d \in InJoin
      BY <2>1, <2>4 DEF Owns
    <3>2. p[1] = Sec[task[t].chunk] /\ p[1] = Sec[d]
      BY <1>1, <1>2, <2>1, <3>1 DEF NamesInv, Working
    <3>3. Sec[d] \notin Spoilt'
      BY <1>3, <3>2
    <3> QED BY <2>4, <3>1, <3>3
  <2>5. Reading' => \A e \in batch' : e.path # p
    BY <2>1 DEF Owns
  <2> QED BY <2>2, <2>3, <2>4, <2>5 DEF Owns
<1>4. ASSUME NEW c \in Ready', Sec[c] \notin Spoilt' PROVE Plays(c)'
  <2>1. Plays(c) /\ c \in Ready /\ row'[c].path = row[c].path
    BY <1>4 DEF RowsInv
  <2> DEFINE p == row[c].path
  <2>2. c \in held'[p] \cup InJoin'
    BY <1>4, <2>1 DEF Plays
  <2>3. ASSUME NEW d \in Ready', row'[d].path = p PROVE c = d \/ c \in InJoin' \/ d \in InJoin'
    <3>1. d \in Ready /\ row[d].path = p /\ (c = d \/ c \in InJoin \/ d \in InJoin)
      BY <2>1, <2>3 DEF Plays
    <3>2. Sec[d] \notin Spoilt'
      BY <1>2, <1>4, <2>1, <3>1
    <3> QED BY <1>4, <2>3, <3>1, <3>2
  <2>4. Reading' => \A e \in batch' : e.path = p => e.chunk = c
    BY <2>1 DEF Plays
  <2> QED BY <2>1, <2>2, <2>3, <2>4 DEF Plays
<1>5. EntriesInv'
  BY DEF EntriesInv
<1> QED BY <1>3, <1>4, <1>5 DEF TasksInv, RowsInv

LEMMA HeldIs ==
  /\ \A p \in Paths : held[p] = Held(p)
  /\ file' = file => held' = held /\ Files' = Files
BY DEF held, Held, Exists, Files

\* A row that is written is ready only if it was, and stays the row it is.
StillRow(c) ==
  /\ row'[c].status = "ready" => row[c].status = "ready" /\ row'[c].path = row[c].path
  /\ row[c].status # "none" => row'[c].status # "none" /\ row'[c].id = row[c].id
  /\ row'[c].path # NoPath => row'[c].path = row[c].path

LEMMA RowsStay ==
  ASSUME TypeOK
  PROVE  /\ \A c \in Chunks : UpsertInfo(c) => \A d \in Chunks : StillRow(d)
         /\ \A c \in Chunks, s \in {"missing", "error", "skipped"} :
              UpsertOutcome(c, s) => \A d \in Chunks : StillRow(d)
         /\ \A ids : row' = Marked(ids) => \A d \in Chunks : StillRow(d)
         /\ row' = row => \A d \in Chunks : StillRow(d)
<1> USE DEF TypeOK, StillRow
<1>1. ASSUME NEW c \in Chunks, UpsertInfo(c), NEW d \in Chunks PROVE StillRow(d)
  <2>1. CASE d # c
    BY <1>1, <2>1 DEF UpsertInfo
  <2>2. CASE d = c /\ row[c].status = "none"
    BY <1>1, <2>2 DEF UpsertInfo
  <2>3. CASE d = c /\ row[c].status # "none"
    <3>1. row[c] \in Row /\ row'[c] = [row[c] EXCEPT !.status = "pending"]
      BY <1>1, <2>3 DEF UpsertInfo
    <3> QED BY <2>3, <3>1 DEF Row
  <2> QED BY <2>1, <2>2, <2>3
<1>2. ASSUME NEW c \in Chunks, NEW s \in {"missing", "error", "skipped"}, UpsertOutcome(c, s),
             NEW d \in Chunks
      PROVE  StillRow(d)
  BY <1>2 DEF UpsertOutcome, Known, Row
<1>3. ASSUME NEW ids, row' = Marked(ids), NEW d \in Chunks PROVE StillRow(d)
  BY <1>3 DEF Marked, Row
<1> QED BY <1>1, <1>2, <1>3

\* Files and stitcher stay: the device, the tasks and the sweeper.
LEMMA NothingMoved ==
  ASSUME RInv, TypeOK', Spoilt \subseteq Spoilt', UNCHANGED <<file, stitch, batch, joined>>,
         \A t \in Working' : t \in Working /\ task'[t] = task[t],
         \A c \in Chunks : StillRow(c)
  PROVE  TasksInv' /\ RowsInv' /\ EntriesInv'
<1>1. held' = held /\ Files' = Files
  BY HeldIs
<1>2. InJoin' = InJoin /\ Reading' = Reading /\ Joining' = Joining
  BY DEF InJoin, Sources, Reading, Joining
<1>3. \A e \in batch : e.chunk \in Chunks
  BY DEF RInv, FInv, IInv, TypeOK, Entry
<1>4. \A t \in Working' : Owns(t) => /\ task[t].path \in Files
                                     /\ task[t].pc = "written" => task[t].chunk \in held[task[t].path]
  BY DEF Owns
<1> QED BY <1>1, <1>2, <1>3, <1>4, NobodyCame DEF Ready, StillRow

\* What the steps of tasks that write no file do to those that do.
LEMMA WorkersStay ==
  ASSUME TypeOK, NEW t \in Tasks,
         \/ Done(t)
         \/ \E pc \in {"located", "read", "filed"} : Goto(t, pc)
         \/ \E c \in Chunks : task' = [task EXCEPT ![t] = [pc |-> "begun", chunk |-> c, path |-> NoPath]]
  PROVE  \A u \in Working' : u \in Working /\ task'[u] = task[u]
<1> SUFFICES ASSUME NEW u \in Tasks, task'[u].pc \in {"claimed", "written"} PROVE task'[u] = task[u]
  BY DEF Working
<1>1. CASE Done(t)
  BY <1>1 DEF Done, Idle, TypeOK
<1>2. CASE \E pc \in {"located", "read", "filed"} : Goto(t, pc)
  <2>1. PICK pc \in {"located", "read", "filed"} : task' = [task EXCEPT ![t].pc = pc]
    BY <1>2 DEF Goto
  <2> QED BY <2>1 DEF TypeOK, Task
<1>3. CASE \E c \in Chunks : task' = [task EXCEPT ![t] = [pc |-> "begun", chunk |-> c, path |-> NoPath]]
  BY <1>3 DEF TypeOK
<1> QED BY <1>1, <1>2, <1>3

LEMMA IngestPlays ==
  ASSUME RInv, [Next]_vars,
         \/ \E c \in Chunks : Upload(c) \/ \E t \in Tasks : Report(c, t)
         \/ \E t \in Tasks : Skip(t) \/ Locate(t) \/ Read(t) \/ WriteFails(t) \/ RemoveRaw(t)
         \/ SelectExpired \/ SweepRaw \/ SweepWork \/ UNCHANGED vars
  PROVE  TasksInv' /\ RowsInv' /\ EntriesInv'
<1>1. IInv /\ TypeOK /\ TypeOK' /\ Spoilt \subseteq Spoilt'
  BY NextKeeps, TracesStay DEF RInv, FInv, IInv
<1>2. UNCHANGED <<file, stitch, batch, joined>>
  BY DEF Upload, Report, Skip, Locate, Read, WriteFails, RemoveRaw, SelectExpired, SweepRaw,
         SweepWork, vars, work, stitcher
<1>3. \A t \in Working' : t \in Working /\ task'[t] = task[t]
  <2>1. CASE \E c \in Chunks, t \in Tasks : Report(c, t)
    BY <1>1, <2>1, WorkersStay DEF Report
  <2>2. CASE \E t \in Tasks : Skip(t) \/ Locate(t) \/ Read(t) \/ WriteFails(t) \/ RemoveRaw(t)
    BY <1>1, <2>2, WorkersStay DEF Skip, Locate, Read, WriteFails, RemoveRaw
  <2>3. CASE task' = task
    BY <2>3 DEF Working
  <2> QED BY <2>1, <2>2, <2>3 DEF Upload, SelectExpired, SweepRaw, SweepWork, vars
<1>4. \A c \in Chunks : StillRow(c)
  <2>1. CASE \E c \in Chunks, t \in Tasks : Report(c, t)
    BY <1>1, <2>1, RowsStay DEF Report
  <2>2. CASE \E t \in Tasks : Skip(t) \/ Locate(t) \/ Read(t)
    <3>1. PICK t \in Tasks : Skip(t) \/ Locate(t) \/ Read(t)
      BY <2>2
    <3>2. task[t].chunk \in Chunks
      BY <1>1, <3>1 DEF Skip, Locate, Read, At, IInv, TaskInv
    <3>3. row' = row \/ \E s \in {"missing", "error", "skipped"} : UpsertOutcome(task[t].chunk, s)
      BY <3>1 DEF Skip, Locate, Read
    <3> QED BY <1>1, <3>2, <3>3, RowsStay
  <2>3. CASE row' = row
    BY <1>1, <2>3, RowsStay
  <2> QED BY <2>1, <2>2, <2>3
        DEF Upload, WriteFails, RemoveRaw, SelectExpired, SweepRaw, SweepWork, vars, work
<1> QED BY <1>1, <1>2, <1>3, <1>4, NothingMoved

\* The stitcher goes on, and the files stay.
LEMMA PassOn ==
  ASSUME RInv, TypeOK', Spoilt \subseteq Spoilt', UNCHANGED file,
         \A t \in Working' : t \in Working /\ task'[t] = task[t],
         batch' \subseteq batch, Reading' => Reading, Joining' => Joining,
         \A c \in Ready' :
           /\ c \in Ready /\ row'[c].path = row[c].path
           /\ c \in InJoin /\ Sec[c] \notin Spoilt' => c \in InJoin',
         Joining' => \A e \in batch' : Sec[e.chunk] \notin Spoilt' => StillRow(e.chunk)
  PROVE  TasksInv' /\ RowsInv' /\ EntriesInv'
<1>1. held' = held /\ Files' = Files
  BY HeldIs
<1>2. \A t \in Working' : Owns(t) => /\ task[t].path \in Files
                                     /\ task[t].pc = "written" => task[t].chunk \in held[task[t].path]
  BY DEF Owns
<1> QED BY <1>1, <1>2, NobodyCame DEF StillRow

\* A row is deleted with all that depends on it.
LEMMA DeletedRows ==
  ASSUME TypeOK, NEW ids, row' = Deleted(ids)
  PROVE  /\ \A c \in Ready' : c \in Ready /\ row'[c].path = row[c].path
         /\ \A c \in Chunks :
              IF \E e \in ids : e.chunk = c /\ e.id = row[c].id
              THEN row'[c].status = "none" /\ row'[c].path = NoPath ELSE row'[c] = row[c]
BY DEF Deleted, NoRow, Ready, TypeOK, Row

LEMMA StitchPlays ==
  ASSUME RInv, [Next]_vars,
         Join \/ TooFew \/ JoinFails \/ MoveFails \/ Swap \/ SwapRefused \/ MarkExcluded \/ Crash
  PROVE  TasksInv' /\ RowsInv' /\ EntriesInv'
<1>1. IInv /\ TypeOK /\ TypeOK' /\ Spoilt \subseteq Spoilt'
  BY NextKeeps, TracesStay DEF RInv, FInv, IInv
<1>2. UNCHANGED file
  BY DEF Join, TooFew, JoinFails, MoveFails, Swap, SwapRefused, MarkExcluded, Crash, work
<1>3. \A t \in Working' : t \in Working /\ task'[t] = task[t]
  BY DEF Join, TooFew, JoinFails, MoveFails, Swap, SwapRefused, MarkExcluded, Crash, Working, Idle
<1>4. batch' \subseteq batch /\ (Reading' => Reading) /\ (Joining' => Joining)
  BY DEF Join, TooFew, JoinFails, MoveFails, Swap, SwapRefused, MarkExcluded, Crash, Forget,
         Reading, Joining
<1>5. CASE Swap
  <2>1. row' = Deleted(joined) /\ stitch = "moved" /\ stitch' = "swapped"
    BY <1>5 DEF Swap
  <2>2. ASSUME NEW c \in Ready', c \in InJoin PROVE Sec[c] \in Spoilt'
    <3>1. PICK e \in joined : e.chunk = c
      BY <2>1, <2>2 DEF InJoin, Sources
    <3>2. c \in Chunks /\ e \in batch /\ row'[c].status = "ready"
      BY <1>1, <2>2 DEF Ready, TypeOK
    <3>3. row[c].id # e.id
      BY <1>1, <2>1, <3>1, <3>2, DeletedRows
    <3>4. Sec[c] \in Spoilt
      BY <2>1, <3>1, <3>2, <3>3 DEF RInv, EntriesInv, Joining
    <3> QED BY <1>1, <3>4
  <2>3. ~Joining'
    BY <2>1 DEF Joining
  <2> QED BY <1>1, <1>2, <1>3, <1>4, <2>1, <2>2, <2>3, DeletedRows, PassOn
<1>6. CASE Join \/ TooFew \/ JoinFails \/ MarkExcluded
  <2>1. row' = row \/ \E ids : row' = Marked(ids)
    BY <1>6 DEF Join, TooFew, JoinFails, MarkExcluded, work
  <2>2. \A c \in Chunks : StillRow(c)
    BY <1>1, <2>1, RowsStay
  <2>3. InJoin = {}
    BY <1>6 DEF Join, TooFew, JoinFails, MarkExcluded, InJoin
  <2>4. \A e \in batch' : e.chunk \in Chunks
    BY <1>1 DEF TypeOK, Entry
  <2>5. \A c \in Ready' : c \in Ready /\ row'[c].path = row[c].path
    BY <2>2 DEF Ready, StillRow
  <2> QED BY <1>1, <1>2, <1>3, <1>4, <2>2, <2>3, <2>4, <2>5, PassOn
<1>7. CASE MoveFails \/ SwapRefused \/ Crash
  <2>1. row' = row \/ \E ids : row' = Marked(ids)
    BY <1>7 DEF MoveFails, SwapRefused, Crash, work
  <2>2. \A c \in Chunks : StillRow(c)
    BY <1>1, <2>1, RowsStay
  <2>3. InJoin \subseteq stranded'
    BY <1>7 DEF MoveFails, SwapRefused, Crash, InJoin
  <2>4. \A c \in InJoin : Sec[c] \in Spoilt'
    BY <2>3 DEF Spoilt
  <2>5. \A c \in Ready' : c \in Ready /\ row'[c].path = row[c].path
    BY <2>2 DEF Ready, StillRow
  <2>6. \A e \in batch' : e.chunk \in Chunks
    BY <1>1 DEF TypeOK, Entry
  <2> QED BY <1>1, <1>2, <1>3, <1>4, <2>2, <2>4, <2>5, <2>6, PassOn
<1> QED BY <1>5, <1>6, <1>7

LEMMA DeleteRowPlays ==
  ASSUME RInv, [Next]_vars, DeleteRow
  PROVE  TasksInv' /\ RowsInv' /\ EntriesInv'
<1>1. IInv /\ TypeOK /\ TypeOK' /\ Spoilt \subseteq Spoilt'
  BY NextKeeps, TracesStay DEF RInv, FInv, IInv
<1>2. UNCHANGED <<file, task, stitch, batch, joined>>
  BY DEF DeleteRow, stitcher
<1>3. PICK e \in expiring : row' = Deleted({e})
  BY DEF DeleteRow
<1>4. \A d \in batch : d.chunk \in Chunks
  BY <1>1 DEF TypeOK, Entry
<1>5. e.chunk # 0 => Sec[e.chunk] \in Spoilt
  BY DEF RInv, NamesInv, Spoilt
<1>6. ASSUME NEW c \in Chunks, Sec[c] \notin Spoilt' PROVE StillRow(c)
  <2>1. c # 0 /\ e.chunk # c
    BY <1>1, <1>5, <1>6, MediaAssumption
  <2>2. row'[c] = row[c]
    BY <1>1, <1>3, <2>1, DeletedRows
  <2> QED BY <2>2 DEF StillRow
<1>7. \A c \in Ready' : c \in Ready /\ row'[c].path = row[c].path
  BY <1>1, <1>3, DeletedRows
<1>8. UNCHANGED <<InJoin, Reading, Joining, Working>>
  BY <1>2 DEF InJoin, Sources, Reading, Joining, Working
<1> QED BY <1>1, <1>2, <1>4, <1>6, <1>7, <1>8, PassOn

\* Whoever has a name has one of his second.
LEMMA Placed ==
  ASSUME RInv
  PROVE  /\ \A c \in Ready : c \in Chunks /\ row[c].path \in Paths /\ row[c].path[1] = Sec[c]
         /\ \A t \in Working : /\ t \in Tasks /\ task[t].chunk \in Chunks
                               /\ task[t].path \in Paths
                               /\ task[t].path[1] = Sec[task[t].chunk]
         /\ \A e \in batch : e.chunk \in Chunks /\ e.path \in Paths /\ e.path[1] = Sec[e.chunk]
<1>1. \A c \in Ready : c \in Chunks /\ row[c].path \in Paths
  BY DEF RInv, FInv, IInv, PathInv, Ready
<1>2. \A t \in Working : t \in Tasks /\ task[t].chunk \in Chunks /\ task[t].path \in Paths
  BY DEF RInv, FInv, IInv, TaskInv, Working
<1>3. \A e \in batch : e.chunk \in Chunks /\ e.path \in Paths /\ e.path[1] = Sec[e.chunk]
  BY DEF RInv, FInv, IInv, TypeOK, Entry, NamesInv
<1> QED BY <1>1, <1>2, <1>3, PathsAreNames DEF RInv, NamesInv

\* os.replace and a truncating write leave a file with every name, and what
\* they take from it is spoilt.
LEMMA PutKeeps ==
  ASSUME IInv, Spoilt \subseteq Spoilt', UNCHANGED <<loose, stranded>>,
         NEW p \in Paths, NEW C \in SUBSET Chunks, NEW by, Put(p, C, by)
  PROVE  /\ Files \subseteq Files' /\ C \subseteq held'[p]
         /\ \A q \in Paths : \A x \in held[q] : Sec[x] \notin Spoilt' => x \in held'[q]
<1>1. Trampled' = Trampled \cup (Held(p) \ C)
  BY TrampleAdds DEF Put
<1>2. Held(p)' = C /\ Exists(p)'
  BY MediaAssumption DEF Put, Held, Exists, IInv, TypeOK
<1>3. \A q \in Paths : q # p => Held(q)' = Held(q) /\ Exists(q)' = Exists(q)
  BY DEF Put, Held, Exists, IInv, TypeOK
<1>4. \A x \in Held(p) \ C : Sec[x] \in Spoilt'
  BY <1>1 DEF Spoilt
<1>5. held'[p] = C /\ held[p] = Held(p) /\ \A q \in Paths : q # p => held'[q] = held[q]
  BY <1>2, <1>3 DEF held
<1>6. Files \subseteq Files'
  BY <1>2, <1>3 DEF Files
<1> QED BY <1>4, <1>5, <1>6

LEMMA GiveEpisodePlays ==
  ASSUME RInv, [Next]_vars, GiveEpisode
  PROVE  TasksInv' /\ RowsInv' /\ EntriesInv'
<1> USE DEF RInv
<1>1. Spoilt \subseteq Spoilt'
  BY NextKeeps, TracesStay DEF FInv
<1>2. held' = held /\ Files' = Files /\ UNCHANGED <<row, task, Ready, Working>>
  BY HeldIs DEF GiveEpisode, work, Ready, Working
<1>3. InJoin = {} /\ InJoin' = {} /\ Reading'
  BY DEF GiveEpisode, InJoin, Reading
<1>4. \A e \in batch' : e.chunk \in Ready /\ e.path = row[e.chunk].path /\ e.id = row[e.chunk].id
  BY DEF GiveEpisode, Candidates, Ready
<1>5. ASSUME NEW t \in Working', Sec[task'[t].chunk] \notin Spoilt' PROVE Owns(t)'
  <2>1. Owns(t)
    BY <1>1, <1>2, <1>5 DEF TasksInv
  <2>2. \A e \in batch' : e.path # task[t].path
    BY <1>3, <1>4, <2>1 DEF Owns
  <2> QED BY <1>2, <1>3, <2>1, <2>2 DEF Owns
<1>6. ASSUME NEW c \in Ready', Sec[c] \notin Spoilt' PROVE Plays(c)'
  <2>1. Plays(c)
    BY <1>1, <1>2, <1>6 DEF RowsInv
  <2>2. \A e \in batch' : e.path = row[c].path => e.chunk = c
    BY <1>3, <1>4, <2>1 DEF Plays
  <2> QED BY <1>2, <1>3, <2>1, <2>2 DEF Plays
<1>7. ASSUME NEW e \in batch', Sec[e.chunk] \notin Spoilt'
      PROVE  e.chunk \in held[e.path] /\ row[e.chunk].status # "none" /\ row[e.chunk].id = e.id
  <2>1. Plays(e.chunk)
    BY <1>1, <1>4, <1>7 DEF RowsInv
  <2> QED BY <1>3, <1>4, <2>1 DEF Plays, Ready
<1>8. EntriesInv'
  BY <1>2, <1>7 DEF EntriesInv
<1> QED BY <1>5, <1>6, <1>8 DEF TasksInv, RowsInv

LEMMA MovePlays ==
  ASSUME RInv, [Next]_vars, Move
  PROVE  TasksInv' /\ RowsInv' /\ EntriesInv'
<1>1. IInv /\ TypeOK /\ TypeOK' /\ Spoilt \subseteq Spoilt'
  BY NextKeeps, TracesStay DEF RInv, FInv, IInv
<1>2. FinalPath \in Paths /\ clip \in SUBSET Chunks
  BY <1>1, FirstIsThere DEF Move, IInv, BatchInv, TypeOK
<1>3. Put(FinalPath, clip, "move") /\ UNCHANGED <<loose, stranded, row, task, batch, joined>>
  BY DEF Move
<1>4. /\ Files \subseteq Files'
      /\ \A q \in Paths : \A x \in held[q] : Sec[x] \notin Spoilt' => x \in held'[q]
  BY <1>1, <1>2, <1>3, PutKeeps
<1>5. UNCHANGED <<Working, Ready, InJoin>> /\ ~Reading' /\ Joining
  BY <1>3 DEF Move, Working, Ready, InJoin, Sources, Reading, Joining
<1>6. \A t \in Working : Owns(t) =>
        /\ task[t].path \in Files
        /\ task[t].pc = "written" => task[t].chunk \in held[task[t].path]
  BY DEF Owns
<1> QED BY <1>1, <1>3, <1>4, <1>5, <1>6, Placed, NobodyCame

LEMMA WritePlays ==
  ASSUME RInv, [Next]_vars, NEW t \in Tasks, Write(t)
  PROVE  TasksInv' /\ RowsInv' /\ EntriesInv'
<1> DEFINE c == task[t].chunk
           p == task[t].path
<1>1. IInv /\ TypeOK /\ TypeOK' /\ Spoilt \subseteq Spoilt'
  BY NextKeeps, TracesStay DEF RInv, FInv, IInv
<1>2. p \in Paths /\ {c} \in SUBSET Chunks /\ t \in Working
  BY <1>1 DEF Write, At, IInv, TaskInv, Working
<1>3. Put(p, {c}, "write") /\ UNCHANGED <<loose, stranded, row, stitch, batch, joined>>
  BY DEF Write, stitcher
<1>4. /\ Files \subseteq Files' /\ c \in held'[p]
      /\ \A q \in Paths : \A x \in held[q] : Sec[x] \notin Spoilt' => x \in held'[q]
  BY <1>1, <1>2, <1>3, PutKeeps
<1>5. UNCHANGED <<Ready, InJoin, Reading, Joining>>
  BY <1>3 DEF Ready, InJoin, Sources, Reading, Joining
<1>6. \A u \in Tasks : /\ task'[u].chunk = task[u].chunk /\ task'[u].path = task[u].path
                       /\ u # t => task'[u] = task[u]
  BY <1>1 DEF Write, Goto, TypeOK, Task
<1>7. Working' = Working
  <2>1. task'[t].pc = "written"
    BY <1>1 DEF Write, Goto, TypeOK, Task
  <2> QED BY <1>2, <1>6, <2>1 DEF Working
<1>8. ASSUME NEW u \in Working, Owns(u), Sec[task[u].chunk] \notin Spoilt'
      PROVE  /\ task[u].path \in Files
             /\ task'[u].pc = "written" => task[u].chunk \in held'[task[u].path]
  <2>1. CASE u = t
    BY <1>4, <1>8, <2>1 DEF Owns
  <2>2. CASE u # t
    BY <1>4, <1>6, <1>8, <2>2, Placed DEF Owns
  <2> QED BY <2>1, <2>2
<1> QED BY <1>1, <1>3, <1>4, <1>5, <1>6, <1>7, <1>8, Placed, NobodyCame DEF Working

LEMMA ClearedFiles ==
  ASSUME NEW gone, TypeOK, file' = [p \in Paths |-> IF p \in gone THEN NoFile ELSE file[p]]
  PROVE  \A q \in Paths \ gone : held'[q] = held[q] /\ (q \in Files => q \in Files')
BY DEF held, Held, Exists, Files

LEMMA RemoveSourcesPlays ==
  ASSUME RInv, [Next]_vars, RemoveSources
  PROVE  TasksInv' /\ RowsInv' /\ EntriesInv'
<1> DEFINE gone == {e.path : e \in joined} \ {FinalPath}
<1>1. IInv /\ TypeOK /\ TypeOK' /\ Spoilt \subseteq Spoilt'
  BY NextKeeps, TracesStay DEF RInv, FInv, IInv
<1>2. UNCHANGED <<row, task, batch, joined, Working, Ready>>
  BY DEF RemoveSources, Working, Ready
<1>3. InJoin' = Sources /\ InJoin = {} /\ Reading /\ ~Reading' /\ Joining
  BY DEF RemoveSources, InJoin, Sources, Reading, Joining
<1>4. \A q \in Paths \ gone : held'[q] = held[q] /\ (q \in Files => q \in Files')
  BY <1>1, ClearedFiles DEF RemoveSources
<1>5. ASSUME NEW t \in Working, Owns(t)
      PROVE  /\ task[t].path \in Files'
             /\ task'[t].pc = "written" => task[t].chunk \in held'[task[t].path]
  <2>1. task[t].path \notin gone
    BY <1>1, <1>3, <1>5 DEF Owns, TypeOK
  <2> QED BY <1>2, <1>4, <1>5, <2>1, Placed DEF Owns
<1>6. ASSUME NEW c \in Ready, Sec[c] \notin Spoilt', c \in held[row[c].path]
      PROVE  c \in held'[row[c].path] \cup InJoin'
  <2>1. Plays(c)
    BY <1>1, <1>6 DEF RInv, RowsInv
  <2>2. CASE row[c].path \in gone
    <3>1. PICK e \in joined : e.path = row[c].path
      BY <2>2
    <3>2. e.chunk = c
      BY <1>1, <1>3, <2>1, <3>1 DEF Plays, TypeOK
    <3> QED BY <1>3, <3>1, <3>2 DEF Sources
  <2> QED BY <1>4, <1>6, <2>2, Placed
<1> QED BY <1>1, <1>2, <1>3, <1>5, <1>6, NobodyCame

LEMMA UnlinkPlays ==
  ASSUME RInv, [Next]_vars, Unlink
  PROVE  TasksInv' /\ RowsInv' /\ EntriesInv'
<1> DEFINE gone == {e.path : e \in expiring}
<1>1. IInv /\ TypeOK /\ TypeOK' /\ Spoilt \subseteq Spoilt'
  BY NextKeeps, TracesStay DEF RInv, FInv, IInv
<1>2. UNCHANGED <<row, task, stitch, batch, joined, Working, Ready, InJoin, Reading, Joining>>
  BY DEF Unlink, stitcher, Working, Ready, InJoin, Sources, Reading, Joining
<1>3. ASSUME NEW q \in Paths, q[1] \notin Spoilt'
      PROVE  held'[q] = held[q] /\ (q \in Files => q \in Files')
  <2>1. q \notin gone
    BY <1>1, <1>3, PathsAreNames DEF RInv, NamesInv, Spoilt
  <2> QED BY <1>1, <2>1, ClearedFiles DEF Unlink
<1>4. ASSUME NEW t \in Working, Owns(t), Sec[task[t].chunk] \notin Spoilt'
      PROVE  /\ task[t].path \in Files'
             /\ task'[t].pc = "written" => task[t].chunk \in held'[task[t].path]
  BY <1>2, <1>3, <1>4, Placed DEF Owns
<1> QED BY <1>1, <1>2, <1>3, <1>4, Placed, NobodyCame

\* A name that is not there is nobody's, but for rows on their way into a clip.
LEMMA FreeNames ==
  ASSUME RInv, NEW p \in Paths, p \notin Files, p[1] \notin Spoilt
  PROVE  /\ held[p] = {}
         /\ \A u \in Working : task[u].path # p
         /\ \A d \in Ready : row[d].path = p => d \in InJoin
         /\ Reading => \A e \in batch : e.path # p
<1>1. held[p] = {}
  BY DEF Files, held, Held
<1>2. \A u \in Working : task[u].path # p
  BY Placed DEF RInv, TasksInv, Owns
<1>3. \A d \in Ready : row[d].path = p => d \in InJoin
  BY <1>1, Placed DEF RInv, RowsInv, Plays
<1>4. Reading => \A e \in batch : e.path # p
  BY <1>1, Placed DEF RInv, EntriesInv
<1> QED BY <1>1, <1>2, <1>3, <1>4

LEMMA ClaimPlays ==
  ASSUME RInv, [Next]_vars, NEW t \in Tasks, ClaimPath(t)
  PROVE  TasksInv' /\ RowsInv' /\ EntriesInv'
<1> DEFINE c == task[t].chunk
<1>1. IInv /\ TypeOK /\ TypeOK' /\ Spoilt' = Spoilt
  BY NextKeeps, TracesStay DEF RInv, FInv, IInv, ClaimPath, history, Spoilt, Trampled
<1>2. c \in Chunks /\ t \notin Working
  BY <1>1 DEF ClaimPath, At, IInv, TaskInv, Working
<1>3. PICK n \in Numbers :
        /\ ~Exists(<<Sec[c], n, "mp4">>)
        /\ file' = [file EXCEPT ![<<Sec[c], n, "mp4">>] = {}]
        /\ task' = [task EXCEPT ![t].pc = "claimed", ![t].path = <<Sec[c], n, "mp4">>]
  BY DEF ClaimPath, Free
<1>4. PICK p : p = <<Sec[c], n, "mp4">>
  OBVIOUS
<1>5. p \in Paths /\ p[1] = Sec[c] /\ p \notin Files
  BY <1>2, <1>3, <1>4, NamesArePaths DEF Files
<1>6. held' = held /\ Files' = Files \cup {p}
  <2>1. \A q \in Paths : q # p => Held(q)' = Held(q) /\ Exists(q)' = Exists(q)
    BY <1>1, <1>3, <1>4 DEF Held, Exists, TypeOK
  <2>2. Held(p) = {} /\ Held(p)' = {} /\ Exists(p)'
    BY <1>1, <1>3, <1>4, <1>5, MediaAssumption DEF Held, Exists, TypeOK
  <2> QED BY <1>5, <2>1, <2>2 DEF held, Files
<1>7. UNCHANGED <<row, stitch, batch, joined, Ready, InJoin, Reading, Joining>>
  BY DEF ClaimPath, stitcher, Ready, InJoin, Sources, Reading, Joining
<1>8. /\ task'[t].pc = "claimed" /\ task'[t].path = p /\ task'[t].chunk = c
      /\ \A u \in Tasks : u # t => task'[u] = task[u]
  BY <1>1, <1>3, <1>4 DEF TypeOK, Task
<1>9. Working' = Working \cup {t}
  BY <1>8 DEF Working
<1>10. ASSUME NEW u \in Working', Sec[task'[u].chunk] \notin Spoilt' PROVE Owns(u)'
  <2>1. CASE u = t
    BY <1>1, <1>5, <1>6, <1>7, <1>8, <1>9, <1>10, <2>1, FreeNames DEF Owns, Working
  <2>2. CASE u # t
    <3>1. u \in Working /\ task'[u] = task[u] /\ Owns(u)
      BY <1>1, <1>8, <1>9, <1>10, <2>2 DEF RInv, TasksInv, Working
    <3>2. task[u].path # p
      BY <1>5, <3>1 DEF Owns
    <3>3. \A v \in Working' : task'[v].path = task[u].path => v = u
      BY <1>8, <1>9, <3>1, <3>2 DEF Owns, Working
    <3> QED BY <1>6, <1>7, <3>1, <3>3 DEF Owns
  <2> QED BY <2>1, <2>2
<1>11. RowsInv' /\ EntriesInv'
  BY <1>1, <1>6, <1>7 DEF RInv, RowsInv, Plays, EntriesInv
<1> QED BY <1>10, <1>11 DEF TasksInv

LEMMA FallbackPlays ==
  ASSUME RInv, [Next]_vars, NEW t \in Tasks, WriteFallback(t)
  PROVE  TasksInv' /\ RowsInv' /\ EntriesInv'
<1> DEFINE c == task[t].chunk
<1>0. PICK p, q : p = task[t].path /\ q = Fallback(p)
  OBVIOUS
<1> USE <1>0
<1>1. IInv /\ TypeOK /\ TypeOK' /\ Spoilt \subseteq Spoilt'
  BY NextKeeps, TracesStay DEF RInv, FInv, IInv
<1>2. t \in Working /\ c \in Chunks /\ p \in Paths /\ q \in Paths /\ p[1] = Sec[c] /\ q[1] = p[1]
  BY Placed, NamesArePaths DEF WriteFallback, At, Working, Fallback
<1>3. p # q
  <2>1. p[3] = "mp4" /\ q[3] = "ts"
    BY DEF RInv, FInv, FiledInv, WriteFallback, At, Fallback
  <2> QED BY <2>1
<1>4. /\ held'[q] = {c} /\ q \in Files'
      /\ \A r \in Paths \ {p, q} : held'[r] = held[r] /\ (r \in Files => r \in Files')
  <2>1. file' = [file EXCEPT ![q] = {c}, ![p] = NoFile]
    BY DEF WriteFallback
  <2>2. Held(q)' = {c} /\ Exists(q)'
    BY <1>1, <1>2, <1>3, <2>1, MediaAssumption DEF TypeOK, Held, Exists
  <2>3. \A r \in Paths \ {p, q} : Held(r)' = Held(r) /\ Exists(r)' = Exists(r)
    BY <1>1, <2>1 DEF TypeOK, Held, Exists
  <2> QED BY <1>2, <2>2, <2>3 DEF held, Files
<1>5. p[1] \notin Spoilt' => q \notin Files /\ p[1] \notin Spoilt
  BY <1>1 DEF WriteFallback, Files, Spoilt
<1>6. UNCHANGED <<row, stitch, batch, joined, Ready, InJoin, Reading, Joining>>
  BY DEF WriteFallback, stitcher, Ready, InJoin, Sources, Reading, Joining
<1>7. /\ task'[t].pc = "written" /\ task'[t].path = q /\ task'[t].chunk = c
      /\ \A u \in Tasks : u # t => task'[u] = task[u]
  BY <1>1 DEF WriteFallback, TypeOK, Task
<1>8. Working' = Working
  BY <1>2, <1>7 DEF Working
<1>9. Sec[c] \notin Spoilt' => Owns(t)
  BY <1>1, <1>2 DEF RInv, TasksInv
<1>10. ASSUME NEW u \in Working', Sec[task'[u].chunk] \notin Spoilt' PROVE Owns(u)'
  <2>1. CASE u = t
    <3>1. /\ \A v \in Working : task[v].path # q
          /\ \A d \in Ready : row[d].path = q => d \in InJoin
          /\ Reading => \A e \in batch : e.path # q
      BY <1>2, <1>5, <1>7, <1>10, <2>1, FreeNames
    <3>2. \A v \in Working' : task'[v].path = q => v = t
      BY <1>7, <1>8, <3>1 DEF Working
    <3> QED BY <1>4, <1>6, <1>7, <2>1, <3>1, <3>2 DEF Owns
  <2>2. CASE u # t
    <3>1. u \in Working /\ task'[u] = task[u] /\ Owns(u)
      BY <1>1, <1>7, <1>8, <1>10, <2>2 DEF RInv, TasksInv, Working
    <3>2. task[u].path # p
      BY <1>2, <2>2, <3>1 DEF Owns
    <3>3. task[u].path # q
      BY <1>2, <1>5, <1>10, <3>1, Placed DEF Owns
    <3>4. \A v \in Working' : task'[v].path = task[u].path => v = u
      BY <1>7, <1>8, <3>1, <3>3 DEF Owns, Working
    <3> QED BY <1>4, <1>6, <3>1, <3>2, <3>3, <3>4, Placed DEF Owns
  <2> QED BY <2>1, <2>2
<1>11. ASSUME NEW d \in Ready', Sec[d] \notin Spoilt' PROVE Plays(d)'
  <2>1. d \in Ready /\ Plays(d) /\ row[d].path \in Paths /\ row[d].path[1] = Sec[d]
    BY <1>1, <1>6, <1>11, Placed DEF RInv, RowsInv
  <2>2. d \in held'[row[d].path] \cup InJoin
    <3>1. CASE row[d].path = p
      BY <1>2, <1>9, <1>11, <2>1, <3>1 DEF Owns
    <3>2. CASE row[d].path = q
      BY <1>2, <1>5, <1>11, <2>1, <3>2, FreeNames
    <3>3. CASE row[d].path \notin {p, q}
      BY <1>4, <2>1, <3>3 DEF Plays
    <3> QED BY <3>1, <3>2, <3>3
  <2> QED BY <1>6, <2>1, <2>2 DEF Plays
<1>12. ASSUME NEW e \in batch, Sec[e.chunk] \notin Spoilt', Reading
       PROVE  e.chunk \in held'[e.path]
  <2>1. e.chunk \in held[e.path] /\ e.path \in Paths /\ e.path[1] = Sec[e.chunk]
    BY <1>1, <1>12, Placed DEF RInv, EntriesInv
  <2>2. e.path # p
    BY <1>2, <1>9, <1>12, <2>1 DEF Owns
  <2>3. e.path # q
    BY <1>2, <1>5, <1>12, <2>1, FreeNames
  <2> QED BY <1>4, <2>1, <2>2, <2>3
<1>13. EntriesInv'
  BY <1>1, <1>6, <1>12 DEF RInv, EntriesInv
<1> QED BY <1>10, <1>11, <1>13 DEF TasksInv, RowsInv

LEMMA MarkReadyPlays ==
  ASSUME RInv, [Next]_vars, NEW t \in Tasks, MarkReady(t)
  PROVE  TasksInv' /\ RowsInv' /\ EntriesInv'
<1> DEFINE c == task[t].chunk
           p == task[t].path
<1>1. IInv /\ TypeOK /\ TypeOK' /\ Spoilt' = Spoilt
  BY NextKeeps DEF RInv, FInv, IInv, MarkReady, Spoilt, Trampled
<1>2. t \in Working /\ c \in Chunks /\ p \in Paths /\ p[1] = Sec[c]
  BY Placed DEF MarkReady, At, Working
<1>3. held' = held /\ Files' = Files /\ UNCHANGED <<stitch, batch, joined>>
  BY HeldIs DEF MarkReady, stitcher
<1>4. UNCHANGED <<InJoin, Reading, Joining>>
  BY <1>3 DEF InJoin, Sources, Reading, Joining
<1>5. CASE Done(t) /\ row' = row
  <2>1. \A d \in Chunks : StillRow(d)
    BY <1>1, <1>5, RowsStay
  <2> QED BY <1>1, <1>5, <2>1, WorkersStay, NothingMoved DEF MarkReady, stitcher
<1>6. CASE /\ row' = [row EXCEPT ![c].status = "ready", ![c].path = p]
           /\ Goto(t, "filed") /\ Known(c)
  <2>1. \A u \in Working' : u \in Working /\ task'[u] = task[u]
    BY <1>1, <1>6, WorkersStay
  <2>2. t \notin Working'
    BY <1>1, <1>6 DEF Goto, Working, TypeOK, Task
  <2>3. /\ row'[c].status = "ready" /\ row'[c].path = p /\ row'[c].id = row[c].id
        /\ \A d \in Chunks : d # c => row'[d] = row[d]
    BY <1>1, <1>2, <1>6 DEF TypeOK, Row
  <2>4. c \in Ready' /\ \A d \in Ready' : d # c => d \in Ready /\ row'[d] = row[d]
    BY <1>2, <2>3 DEF Ready
  <2>5. ASSUME NEW u \in Working', Sec[task'[u].chunk] \notin Spoilt' PROVE Owns(u)'
    <3>1. u \in Working /\ task'[u] = task[u] /\ Owns(u) /\ u # t
      BY <1>1, <2>1, <2>2, <2>5 DEF RInv, TasksInv
    <3>2. task[u].path # p
      BY <1>2, <3>1 DEF Owns
    <3>3. \A d \in Ready' : row'[d].path = task[u].path => d \in InJoin'
      BY <1>4, <2>3, <2>4, <3>1, <3>2 DEF Owns
    <3>4. \A v \in Working' : task'[v].path = task[u].path => v = u
      BY <2>1, <3>1 DEF Owns
    <3> QED BY <1>3, <1>4, <3>1, <3>3, <3>4 DEF Owns
  <2>6. ASSUME NEW d \in Ready', Sec[d] \notin Spoilt' PROVE Plays(d)'
    <3>1. CASE d = c
      <4>1. Owns(t)
        BY <1>1, <1>2, <2>6, <3>1 DEF RInv, TasksInv
      <4>2. c \in held[p]
        BY <4>1 DEF Owns, MarkReady, At
      <4>3. \A x \in Ready' : row'[x].path = p => c = x \/ x \in InJoin
        BY <2>4, <4>1 DEF Owns
      <4>4. Reading => \A e \in batch : e.path # p
        BY <4>1 DEF Owns
      <4> QED BY <1>3, <1>4, <2>3, <3>1, <4>2, <4>3, <4>4 DEF Plays
    <3>2. CASE d # c
      <4>1. d \in Ready /\ row'[d] = row[d] /\ Plays(d)
        BY <1>1, <2>4, <2>6, <3>2 DEF RInv, RowsInv
      <4>2. row[d].path = p => d \in InJoin
        BY <1>1, <1>2, <2>6, <4>1, Placed DEF RInv, TasksInv, Owns
      <4>3. \A x \in Ready' : row'[x].path = row[d].path => d = x \/ d \in InJoin \/ x \in InJoin
        BY <2>3, <2>4, <4>1, <4>2 DEF Plays
      <4> QED BY <1>3, <1>4, <4>1, <4>3 DEF Plays
    <3> QED BY <3>1, <3>2
  <2>7. \A d \in Chunks : row[d].status # "none" => row'[d].status # "none" /\ row'[d].id = row[d].id
    BY <2>3
  <2>8. EntriesInv'
    BY <1>1, <1>3, <1>4, <2>7, Placed DEF RInv, EntriesInv
  <2> QED BY <2>5, <2>6, <2>8 DEF TasksInv, RowsInv
<1> QED BY <1>5, <1>6 DEF MarkReady

\* Rows, tasks, the stitcher and the sweeper name files after their chunks.
LEMMA RowNames ==
  ASSUME RInv, [Next]_vars, NEW c \in Chunks, row'[c].path # NoPath
  PROVE  row'[c].path[1] = Sec[c]
<1> USE DEF RInv, FInv, IInv
<1>1. CASE row'[c].path = row[c].path
  BY <1>1 DEF NamesInv
<1>2. CASE StillRow(c) \/ row' = row
  BY <1>1, <1>2 DEF StillRow
<1>3. CASE \E d \in Chunks, t \in Tasks : Report(d, t)
  BY <1>2, <1>3, RowsStay DEF Report
<1>4. CASE \E t \in Tasks : Skip(t) \/ Locate(t) \/ Read(t)
  <2>1. PICK t \in Tasks : Skip(t) \/ Locate(t) \/ Read(t)
    BY <1>4
  <2>2. task[t].chunk \in Chunks
    BY <2>1 DEF Skip, Locate, Read, At, TaskInv
  <2>3. row' = row \/ \E s \in {"missing", "error", "skipped"} : UpsertOutcome(task[t].chunk, s)
    BY <2>1 DEF Skip, Locate, Read
  <2> QED BY <1>2, <2>2, <2>3, RowsStay
<1>5. CASE \E t \in Tasks : MarkReady(t)
  <2>1. PICK t \in Tasks : MarkReady(t)
    BY <1>5
  <2>2. CASE row' = [row EXCEPT ![task[t].chunk].status = "ready", ![task[t].chunk].path = task[t].path]
    <3>1. CASE c = task[t].chunk
      <4>1. row'[c].path = task[t].path
        BY <2>2, <3>1 DEF TypeOK, Row
      <4> QED BY <3>1, <4>1 DEF NamesInv
    <3>2. CASE c # task[t].chunk
      BY <1>1, <2>2, <3>2 DEF TypeOK
    <3> QED BY <3>1, <3>2
  <2> QED BY <1>2, <2>1, <2>2 DEF MarkReady
<1>6. CASE TooFew \/ JoinFails \/ MoveFails \/ MarkExcluded
  BY <1>2, <1>6, RowsStay DEF TooFew, JoinFails, MoveFails, MarkExcluded
<1>7. CASE Swap \/ DeleteRow
  <2>1. PICK ids : row' = Deleted(ids)
    BY <1>7 DEF Swap, DeleteRow
  <2>2. row'[c] = row[c]
    BY <2>1, DeletedRows
  <2> QED BY <1>1, <2>2
<1>8. CASE row' = row
  BY <1>2, <1>8
<1>9. CASE \E t \in Tasks : ClaimPath(t) \/ Write(t) \/ WriteFallback(t) \/ WriteFails(t) \/ RemoveRaw(t)
  BY <1>8, <1>9 DEF ClaimPath, Write, WriteFallback, WriteFails, RemoveRaw, work
<1>10. CASE \/ \E d \in Chunks : Upload(d)
            \/ GiveEpisode \/ Join \/ RemoveSources \/ Move \/ SwapRefused \/ SelectExpired
            \/ Unlink \/ SweepRaw \/ SweepWork \/ Crash \/ UNCHANGED vars
  BY <1>8, <1>10 DEF Upload, GiveEpisode, Join, RemoveSources, Move, SwapRefused, SelectExpired,
                     Unlink, SweepRaw, SweepWork, Crash, vars, work
<1> QED BY <1>3, <1>4, <1>5, <1>6, <1>7, <1>9, <1>10 DEF Next

LEMMA TaskNames ==
  ASSUME RInv, [Next]_vars, NEW t \in Tasks, task'[t].path # NoPath
  PROVE  task'[t].path[1] = Sec[task'[t].chunk]
<1> USE DEF RInv, FInv, IInv, TypeOK
<1>1. CASE task'[t].path = task[t].path /\ task'[t].chunk = task[t].chunk
  BY <1>1 DEF NamesInv
<1>2. CASE \E c \in Chunks, u \in Tasks : Report(c, u)
  BY <1>1, <1>2 DEF Report
<1>3. CASE \E u \in Tasks : Done(u)
  BY <1>1, <1>3 DEF Done, Idle
<1>4. CASE \E u \in Tasks, pc \in {"located", "read", "written", "filed"} : Goto(u, pc)
  <2>1. PICK u \in Tasks, pc \in {"located", "read", "written", "filed"} :
          task' = [task EXCEPT ![u].pc = pc]
    BY <1>4 DEF Goto
  <2>2. task'[t].path = task[t].path /\ task'[t].chunk = task[t].chunk
    BY <2>1 DEF Task
  <2> QED BY <1>1, <2>2
<1>5. CASE \E u \in Tasks : ClaimPath(u)
  <2>1. PICK u \in Tasks, n \in Numbers :
          task' = [task EXCEPT ![u].pc = "claimed", ![u].path = <<Sec[task[u].chunk], n, "mp4">>]
    BY <1>5 DEF ClaimPath
  <2>2. CASE u = t
    <3>1. task'[t].path = <<Sec[task[t].chunk], n, "mp4">> /\ task'[t].chunk = task[t].chunk
      BY <2>1, <2>2 DEF Task
    <3> QED BY <3>1
  <2>3. CASE u # t
    BY <1>1, <2>1, <2>3
  <2> QED BY <2>2, <2>3
<1>6. CASE \E u \in Tasks : WriteFallback(u)
  <2>1. PICK u \in Tasks :
          /\ task[u].pc = "claimed"
          /\ task' = [task EXCEPT ![u].pc = "written", ![u].path = Fallback(task[u].path)]
    BY <1>6 DEF WriteFallback, At
  <2>2. CASE u = t
    <3>1. task'[t].path = Fallback(task[t].path) /\ task'[t].chunk = task[t].chunk
      BY <2>1, <2>2 DEF Task
    <3>2. task[t].path[1] = Sec[task[t].chunk]
      BY <2>1, <2>2, PathsAreNames DEF TaskInv, NamesInv
    <3> QED BY <3>1, <3>2 DEF Fallback
  <2>3. CASE u # t
    BY <1>1, <2>1, <2>3
  <2> QED BY <2>2, <2>3
<1>7. CASE Crash
  BY <1>7 DEF Crash, Idle
<1>8. CASE task' = task
  BY <1>1, <1>8
<1>9. CASE \E u \in Tasks : \/ Skip(u) \/ Locate(u) \/ Read(u) \/ Write(u) \/ WriteFails(u)
                            \/ MarkReady(u) \/ RemoveRaw(u)
  BY <1>3, <1>4, <1>9 DEF Skip, Locate, Read, Write, WriteFails, MarkReady, RemoveRaw
<1>10. CASE \/ \E d \in Chunks : Upload(d)
            \/ GiveEpisode \/ Join \/ TooFew \/ JoinFails \/ RemoveSources \/ Move \/ MoveFails
            \/ Swap \/ SwapRefused \/ MarkExcluded \/ SelectExpired \/ Unlink \/ DeleteRow
            \/ SweepRaw \/ SweepWork \/ UNCHANGED vars
  BY <1>8, <1>10 DEF Upload, GiveEpisode, Join, TooFew, JoinFails, RemoveSources, Move, MoveFails,
                     Swap, SwapRefused, MarkExcluded, SelectExpired, Unlink, DeleteRow, SweepRaw,
                     SweepWork, vars
<1> QED BY <1>2, <1>5, <1>6, <1>7, <1>9, <1>10 DEF Next

LEMMA NamesKeep == ASSUME RInv, [Next]_vars PROVE NamesInv'
<1> USE DEF RInv, FInv, IInv
<1>1. loose \subseteq loose'
  BY TracesStay
<1>2. ASSUME NEW e \in batch' PROVE e.path[1] = Sec[e.chunk]
  <2>1. CASE batch' \subseteq batch
    BY <1>2, <2>1 DEF NamesInv
  <2>2. CASE GiveEpisode
    <3>1. PICK c \in Ready : e.chunk = c /\ e.path = row[c].path
      BY <1>2, <2>2 DEF GiveEpisode, Candidates, Ready
    <3> QED BY <3>1, Placed
  <2>3. CASE TooFew \/ JoinFails \/ MoveFails \/ SwapRefused \/ MarkExcluded \/ Crash
    BY <2>1, <2>3 DEF TooFew, JoinFails, MoveFails, SwapRefused, MarkExcluded, Crash, Forget
  <2>4. CASE \/ \E c \in Chunks : Upload(c) \/ \E t \in Tasks : Report(c, t)
             \/ \E t \in Tasks : \/ Skip(t) \/ Locate(t) \/ Read(t) \/ ClaimPath(t) \/ Write(t)
                                \/ WriteFallback(t) \/ WriteFails(t) \/ MarkReady(t)
                                \/ RemoveRaw(t)
    BY <2>1, <2>4 DEF Upload, Report, Skip, Locate, Read, ClaimPath, Write, WriteFallback,
                      WriteFails, MarkReady, RemoveRaw, stitcher
  <2>5. CASE \/ Join \/ RemoveSources \/ Move \/ Swap \/ SelectExpired \/ Unlink \/ DeleteRow
             \/ SweepRaw \/ SweepWork \/ UNCHANGED vars
    BY <2>1, <2>5 DEF Join, RemoveSources, Move, Swap, SelectExpired, Unlink, DeleteRow, SweepRaw,
                      SweepWork, vars, stitcher
  <2> QED BY <2>2, <2>3, <2>4, <2>5 DEF Next
<1>3. ASSUME NEW e \in expiring'
      PROVE  /\ e.path # NoPath => e.path[1] \in loose'
             /\ e.chunk # 0 => Sec[e.chunk] \in loose'
  <2>1. CASE expiring' \subseteq expiring
    BY <1>1, <1>3, <2>1 DEF NamesInv
  <2>2. CASE SelectExpired
    <3>1. e.path # NoPath => e.path[1] \in loose'
      BY <1>3, <2>2 DEF SelectExpired
    <3>2. e \in Visible
      BY <1>3, <2>2 DEF SelectExpired
    <3>3. CASE e.chunk # 0
      <4>1. PICK c \in Ready : e.chunk = c /\ e.path = row[c].path
        BY <3>2, <3>3 DEF Visible, Ready
      <4> QED BY <3>1, <4>1, Placed, PathsAreNames
    <3> QED BY <3>1, <3>3
  <2>3. CASE Unlink \/ DeleteRow \/ Crash
    BY <2>1, <2>3 DEF Unlink, DeleteRow, Crash
  <2>4. CASE \/ \E c \in Chunks : Upload(c) \/ \E t \in Tasks : Report(c, t)
             \/ \E t \in Tasks : \/ Skip(t) \/ Locate(t) \/ Read(t) \/ ClaimPath(t) \/ Write(t)
                                \/ WriteFallback(t) \/ WriteFails(t) \/ MarkReady(t)
                                \/ RemoveRaw(t)
    BY <2>1, <2>4 DEF Upload, Report, Skip, Locate, Read, ClaimPath, Write, WriteFallback,
                      WriteFails, MarkReady, RemoveRaw, sweeper
  <2>5. CASE \/ GiveEpisode \/ Join \/ TooFew \/ JoinFails \/ RemoveSources \/ Move \/ MoveFails
             \/ Swap \/ SwapRefused \/ MarkExcluded \/ SweepRaw \/ SweepWork \/ UNCHANGED vars
    BY <2>1, <2>5 DEF GiveEpisode, Join, TooFew, JoinFails, RemoveSources, Move, MoveFails, Swap,
                      SwapRefused, MarkExcluded, SweepRaw, SweepWork, vars, sweeper
  <2> QED BY <2>2, <2>3, <2>4, <2>5 DEF Next
<1> QED BY <1>2, <1>3, RowNames, TaskNames DEF NamesInv

LEMMA RNext == RInv /\ [Next]_vars => RInv'
<1> SUFFICES ASSUME RInv, [Next]_vars PROVE RInv'
  OBVIOUS
<1>1. FInv' /\ NamesInv'
  BY FNext, NamesKeep DEF RInv
<1>2. TasksInv' /\ RowsInv' /\ EntriesInv'
  <2>1. CASE \E c \in Chunks : Upload(c) \/ \E t \in Tasks : Report(c, t)
    BY <2>1, IngestPlays
  <2>2. CASE \E t \in Tasks : Skip(t) \/ Locate(t) \/ Read(t) \/ WriteFails(t) \/ RemoveRaw(t)
    BY <2>2, IngestPlays
  <2>3. CASE \E t \in Tasks : ClaimPath(t) \/ Write(t) \/ WriteFallback(t) \/ MarkReady(t)
    BY <2>3, ClaimPlays, WritePlays, FallbackPlays, MarkReadyPlays
  <2>4. CASE Join \/ TooFew \/ JoinFails \/ MoveFails \/ Swap \/ SwapRefused \/ MarkExcluded
             \/ Crash
    BY <2>4, StitchPlays
  <2>5. CASE GiveEpisode \/ RemoveSources \/ Move
    BY <2>5, GiveEpisodePlays, RemoveSourcesPlays, MovePlays
  <2>6. CASE SelectExpired \/ Unlink \/ DeleteRow \/ SweepRaw \/ SweepWork \/ UNCHANGED vars
    BY <2>6, IngestPlays, UnlinkPlays, DeleteRowPlays
  <2> QED BY <2>1, <2>2, <2>3, <2>4, <2>5, <2>6 DEF Next
<1> QED BY <1>1, <1>2 DEF RInv

\* What the timeline calls ready plays, for any number of chunks, tasks, seconds
\* and faults: the name a task has claimed is its own until the row is ready,
\* whatever joins, sweeps and kills do meanwhile, but for the seconds of which
\* a name was freed or taken without a claim.
THEOREM ReadyRowsPlay == Spec => []ReadyRowPlays
<1>1. Init => RInv
  <2> SUFFICES ASSUME Init PROVE RInv
    OBVIOUS
  <2>1. NamesInv /\ TasksInv /\ RowsInv /\ EntriesInv
    BY DEF Init, NamesInv, TasksInv, RowsInv, EntriesInv, Working, Ready, NoRow, Idle
  <2> QED BY <2>1, FInit DEF RInv
<1>2. RInv => ReadyRowPlays
  BY Placed, HeldIs DEF RInv, RowsInv, Plays, Ready, ReadyRowPlays
<1> QED BY <1>1, <1>2, RNext, PTL DEF Spec
=============================================================================
