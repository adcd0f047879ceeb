--------------------------- MODULE MediaLifecycle ---------------------------
(***************************************************************************)
(* The footage of one recorded visit, from the device's upload to its      *)
(* deletion: media/pipeline.py turns each uploaded chunk into a file of    *)
(* the friendly tree, media/stitch.py joins the chunks of the visit into   *)
(* one clip and media/retention.py deletes what has expired.  They run as  *)
(* tasks of one event loop and meet in two places, the media tree on disk  *)
(* and the media table (events/store.py), whose every call is a            *)
(* transaction of its own.                                                 *)
(*                                                                         *)
(* The visit is one (device, related_event, category), so a file name      *)
(* comes down to the second the chunk started in, the number that          *)
(* _claim_unique_path() appends, and the extension.  A file holds a set of *)
(* chunks: none while it is a placeholder, several when it is a clip.      *)
(***************************************************************************)
EXTENDS Naturals, FiniteSets

CONSTANTS
  Chunks,      \* the chunks of the visit: numbers, in play order
  Sec,         \* the second each of them starts in
  Numbers,     \* the numbers of a file name: 1..n, 1 for the plain one
  Tasks,       \* how many files are processed at a time: 1..n
  NoFile,
  MaxReports,  \* how often the device reports a chunk
  MaxUpsets    \* how often the device uploads a chunk again, a system call
               \* fails, the container is killed or retention selects something

ASSUME MediaAssumption ==
  /\ Chunks \subseteq Nat \ {0}
  /\ Numbers \subseteq Nat /\ 1 \in Numbers
  /\ Tasks \subseteq Nat
  /\ Sec \in [Chunks -> Nat]
  /\ {MaxReports, MaxUpsets} \subseteq Nat
  /\ \A content \in SUBSET Chunks : content # NoFile

VARIABLES
  raw,        \* the chunks in .raw
  file,       \* the friendly tree: path |-> the chunks in the file, or NoFile
  row,        \* the media table: chunk |-> its row
  clipRow,    \* and the row of the joined clip
  task,       \* the running process_file_info() calls
  stitch,     \* EpisodeStitcher: where stitch_episode() is
  batch,      \* the candidates it was given
  joined,     \* those it joins
  clip,       \* the chunks in the clip of the work directory
  sweep,      \* RetentionSweeper: where sweep_category() is
  expiring,   \* the rows it selected
  reports, upsets,
  shown,      \* history: chunks whose row was ready once
  expired,    \* history: chunks whose deletion was due
  trampled,   \* history: chunks lost from a file, and what took them
  stranded,   \* history: chunks whose files went for a clip whose row never came
  loose       \* history: the seconds of which a name was freed or taken without a claim

work == <<raw, file, row, clipRow>>
stitcher == <<stitch, batch, joined, clip>>
sweeper == <<sweep, expiring>>
counters == <<reports, upsets>>
history == <<shown, expired, trampled, stranded, loose>>
vars == <<work, task, stitcher, sweeper, counters, history>>

-----------------------------------------------------------------------------
Seconds == {Sec[c] : c \in Chunks}
Paths == Seconds \X Numbers \X {"mp4", "ts"}
NoPath == <<>>
Contents == {NoFile} \cup SUBSET Chunks
Row == [id : Nat, status : {"none", "pending", "ready", "missing", "error", "skipped"},
        path : Paths \cup {NoPath}, mark : BOOLEAN]
NoRow == [id |-> 0, status |-> "none", path |-> NoPath, mark |-> FALSE]
ClipRow == [id : Nat, status : {"none", "ready"}, path : Paths \cup {NoPath},
            has : SUBSET Chunks]
Entry == [chunk : Chunks, id : Nat, path : Paths]
Expired == [chunk : Chunks \cup {0}, id : Nat, path : Paths \cup {NoPath},
            has : SUBSET Chunks]
Task == [pc : {"idle", "begun", "located", "read", "claimed", "written", "filed"},
         chunk : Chunks \cup {0}, path : Paths \cup {NoPath}]
Tramplers == {"write", "fallback", "move", "remove", "rejoin", "sweep"}
Idle == [pc |-> "idle", chunk |-> 0, path |-> NoPath]

Exists(p) == file[p] # NoFile
Held(p) == IF Exists(p) THEN file[p] ELSE {}
OnDisk == UNION {Held(p) : p \in Paths}

TypeOK ==
  /\ raw \subseteq Chunks
  /\ file \in [Paths -> Contents]
  /\ row \in [Chunks -> Row]
  /\ clipRow \in ClipRow
  /\ task \in [Tasks -> Task]
  /\ stitch \in {"idle", "given", "verified", "removed", "moved", "swapped"}
  /\ batch \subseteq Entry /\ joined \subseteq batch /\ clip \subseteq Chunks
  /\ sweep \in {"idle", "selected", "unlinked"}
  /\ expiring \subseteq Expired
  /\ {reports, upsets} \subseteq Nat
  /\ shown \cup expired \cup stranded \subseteq Chunks
  /\ trampled \subseteq Chunks \X Tramplers /\ loose \subseteq Seconds

\* The device has put the chunks in the bucket.  A clip may have been made of
\* chunks that came before them; its file is none of theirs.
Init ==
  /\ raw = Chunks
  /\ file = [p \in Paths |-> NoFile]
  /\ row = [c \in Chunks |-> NoRow]
  /\ clipRow \in {[id |-> 0, status |-> "none", path |-> NoPath, has |-> {}],
                 [id |-> 1, status |-> "ready", path |-> NoPath, has |-> {}]}
  /\ task = [t \in Tasks |-> Idle]
  /\ stitch = "idle" /\ batch = {} /\ joined = {} /\ clip = {}
  /\ sweep = "idle" /\ expiring = {}
  /\ reports = 0 /\ upsets = 0
  /\ shown = {} /\ expired = {} /\ trampled = {} /\ stranded = {} /\ loose = {}

-----------------------------------------------------------------------------
(* Files and rows                                                          *)

\* The chunks D are lost from a file to an operation meant for another file.
Trample(D, by) == trampled' = trampled \cup {<<c, by>> : c \in D}

\* os.replace, or a writer that truncates: path p now holds the set C.
Put(p, C, by) ==
  /\ file' = [file EXCEPT ![p] = C]
  /\ Trample(Held(p) \ C, by)

\* upsert_media() with what a file_info carries: a new row, or an old one set
\* back to pending.
UpsertInfo(c) ==
  row' = [row EXCEPT ![c] =
            IF @.status = "none"
            THEN [id |-> @.id + 1, status |-> "pending", path |-> NoPath, mark |-> FALSE]
            ELSE [@ EXCEPT !.status = "pending"]]

\* upsert_media() with an outcome.  A row deleted meanwhile cannot be inserted
\* from an outcome alone, for want of a device: the call raises.
Known(c) == row[c].status # "none"
UpsertOutcome(c, status) ==
  row' = [row EXCEPT ![c].status = IF Known(c) THEN status ELSE @]

Marked(ids) ==
  [c \in Chunks |-> IF \E e \in ids : e.chunk = c /\ e.id = row[c].id
                    THEN [row[c] EXCEPT !.mark = Known(c)] ELSE row[c]]

Deleted(ids) ==
  [c \in Chunks |-> IF \E e \in ids : e.chunk = c /\ e.id = row[c].id
                    THEN [NoRow EXCEPT !.id = row[c].id] ELSE row[c]]

Upset == upsets < MaxUpsets /\ upsets' = upsets + 1

-----------------------------------------------------------------------------
(* The device and the pipeline                                             *)

\* A PUT to the bucket.  The device may send a chunk again.
Upload(c) ==
  /\ Upset
  /\ raw' = raw \cup {c}
  /\ UNCHANGED <<file, row, clipRow, task, stitcher, sweeper, reports, history>>

\* handle_upload_file_info() writes the row and leaves the work to a task,
\* which begins by writing the same row again.  The device may report a chunk
\* it reported before.
Report(c, t) ==
  /\ reports < MaxReports
  /\ reports' = reports + 1
  /\ task[t] = Idle /\ \A u \in Tasks : u < t => task[u] # Idle
  /\ UpsertInfo(c)
  /\ task' = [task EXCEPT ![t] = [pc |-> "begun", chunk |-> c, path |-> NoPath]]
  /\ UNCHANGED <<raw, file, clipRow, stitcher, sweeper, upsets, history>>

Goto(t, pc) == task' = [task EXCEPT ![t].pc = pc]
Done(t) == task' = [task EXCEPT ![t] = Idle]
At(t, pc) == task[t].pc = pc

\* The panel may have switched the category off.
Skip(t) ==
  /\ At(t, "begun")
  /\ UpsertOutcome(task[t].chunk, "skipped")
  /\ Done(t)
  /\ UNCHANGED <<raw, file, clipRow, stitcher, sweeper, counters, history>>

\* _locate_raw_file().
Locate(t) ==
  /\ At(t, "begun")
  /\ IF task[t].chunk \in raw
     THEN Goto(t, "located") /\ UNCHANGED row
     ELSE Done(t) /\ UpsertOutcome(task[t].chunk, "missing")
  /\ UNCHANGED <<raw, file, clipRow, stitcher, sweeper, counters, history>>

\* The raw file may be gone by the time it is read.
Read(t) ==
  /\ At(t, "located")
  /\ IF task[t].chunk \in raw
     THEN Goto(t, "read") /\ UNCHANGED row
     ELSE Done(t) /\ UpsertOutcome(task[t].chunk, "error")
  /\ UNCHANGED <<raw, file, clipRow, stitcher, sweeper, counters, history>>

\* Mutant of Free: the name is taken without a look.
FreeUnseen(c, n) == n \in Numbers

\* _claim_unique_path(): an empty file under the first free number.
Free(c, n) == n \in Numbers /\ ~Exists(<<Sec[c], n, "mp4">>)
ClaimPath(t) ==
  LET c == task[t].chunk IN
  /\ At(t, "read")
  /\ \E n \in Numbers :
       /\ Free(c, n) /\ \A k \in Numbers : k < n => ~Free(c, k)
       /\ file' = [file EXCEPT ![<<Sec[c], n, "mp4">>] = {}]
       /\ task' = [task EXCEPT ![t].pc = "claimed", ![t].path = <<Sec[c], n, "mp4">>]
  /\ UNCHANGED <<raw, row, clipRow, stitcher, sweeper, counters, history>>

\* The remux replaces the placeholder.
Write(t) ==
  /\ At(t, "claimed")
  /\ Put(task[t].path, {task[t].chunk}, "write")
  /\ Goto(t, "written")
  /\ UNCHANGED <<raw, row, clipRow, stitcher, sweeper, counters, shown,
                 expired, stranded, loose>>

\* The remux fails: the .ts is moved beside the placeholder, whatever is
\* there, and the placeholder is removed, whatever it holds by now.
Fallback(p) == <<p[1], p[2], "ts">>
WriteFallback(t) ==
  LET p == task[t].path
      c == task[t].chunk
  IN /\ At(t, "claimed")
     /\ Upset
     /\ file' = [file EXCEPT ![Fallback(p)] = {c}, ![p] = NoFile]
     /\ Trample((Held(p) \cup Held(Fallback(p))) \ {c}, "fallback")
     /\ task' = [task EXCEPT ![t].pc = "written", ![t].path = Fallback(p)]
     /\ loose' = IF Exists(Fallback(p)) THEN loose \cup {p[1]} ELSE loose
     /\ UNCHANGED <<raw, row, clipRow, stitcher, sweeper, reports, shown, expired,
                    stranded>>

\* Mutant: a failed write tidies up, and the raw file with it.
WriteFailsTidies(t) ==
  /\ At(t, "claimed")
  /\ Upset
  /\ Done(t)
  /\ raw' = raw \ {task[t].chunk}
  /\ UNCHANGED <<file, row, clipRow, stitcher, sweeper, reports, history>>

\* The disk is full: the task ends with an exception.
WriteFails(t) ==
  /\ At(t, "claimed")
  /\ Upset
  /\ Done(t)
  /\ UNCHANGED <<work, stitcher, sweeper, reports, history>>

\* getsize() and the upsert that makes the chunk visible.  The file may be
\* gone, and so may the row.
MarkReady(t) ==
  LET c == task[t].chunk IN
  /\ At(t, "written")
  /\ IF Exists(task[t].path) /\ Known(c)
     THEN /\ row' = [row EXCEPT ![c].status = "ready", ![c].path = task[t].path]
          /\ shown' = shown \cup {c}
          /\ Goto(t, "filed")
     ELSE Done(t) /\ UNCHANGED <<row, shown>>
  /\ UNCHANGED <<raw, file, clipRow, stitcher, sweeper, counters, expired,
                 trampled, stranded, loose>>

\* A raw file that cannot be removed is left where it is.
RemoveRaw(t) ==
  /\ At(t, "filed")
  /\ Done(t)
  /\ \/ raw' = raw \ {task[t].chunk} /\ UNCHANGED upsets
     \/ Upset /\ UNCHANGED raw
  /\ UNCHANGED <<file, row, clipRow, stitcher, sweeper, reports, history>>

-----------------------------------------------------------------------------
(* The stitcher                                                            *)

Candidates == {c \in Chunks : row[c].status = "ready" /\ ~row[c].mark}

\* stitch_candidates(): the visit's ready, unmarked chunks, two at least.
GiveEpisode ==
  /\ stitch = "idle"
  /\ Cardinality(Candidates) >= 2
  /\ stitch' = "given"
  /\ batch' = {[chunk |-> c, id |-> row[c].id, path |-> row[c].path] : c \in Candidates}
  /\ UNCHANGED <<work, task, joined, clip, sweeper, counters, history>>

\* What a join may be made of: two chunks at least, of files ffmpeg can read.
\* The code picks files, and with a file every row that names it.
Choices ==
  LET readable == {e \in batch : Held(e.path) # {}}
      rowsOf(P) == {e \in readable : e.path \in P}
  IN {J \in {rowsOf(P) : P \in SUBSET {e.path : e \in readable}} : Cardinality(J) >= 2}

\* Joined and verified: the chunks with a stream of another shape and the
\* undecodable ones are left out.  The work file has one name, and what an
\* earlier run left in it is gone.
Join ==
  /\ stitch = "given"
  /\ \E J \in Choices :
       /\ joined' = J
       /\ clip' = UNION {file[e.path] : e \in J}
       /\ Trample(clip \ clip', "rejoin")
  /\ stitch' = "verified"
  /\ UNCHANGED <<work, task, batch, sweeper, counters, shown, expired,
                 stranded, loose>>

\* Mutant: the chunks of the last join are not forgotten.
ForgetBatch == stitch' = "idle" /\ batch' = {} /\ joined' = joined

Forget == stitch' = "idle" /\ batch' = {} /\ joined' = {}

\* Mutant: an episode that cannot be joined is left unmarked.
TooFewUnmarked ==
  /\ stitch = "given"
  /\ Forget
  /\ UNCHANGED <<work, task, clip, sweeper, counters, history>>

\* Fewer than two chunks are on disk, or of one shape: all are marked.
TooFew ==
  /\ stitch = "given"
  /\ row' = Marked(batch)
  /\ Forget
  /\ UNCHANGED <<raw, file, clipRow, task, clip, sweeper, counters, history>>

\* No join of the chunks comes out right: those that were tried are marked.
JoinFails ==
  /\ stitch = "given"
  /\ \E J \in Choices : row' = Marked(J)
  /\ clip' = {}
  /\ Trample(clip, "rejoin")
  /\ Forget
  /\ UNCHANGED <<raw, file, clipRow, task, sweeper, counters, shown, expired,
                 stranded, loose>>

\* _merged_path(): the clip takes the plain name of the episode's first chunk.
First == CHOOSE e \in batch : \A d \in batch : e.chunk <= d.chunk
FinalPath == <<Sec[First.chunk], 1, "mp4">>

Sources == {e.chunk : e \in joined}

\* Mutant: every chunk of the episode goes, the excluded ones too.
RemoveSourcesAll ==
  /\ stitch = "verified"
  /\ stitch' = "removed"
  /\ LET gone == {e.path : e \in batch} \ {FinalPath} IN
       file' = [p \in Paths |-> IF p \in gone THEN NoFile ELSE file[p]]
  /\ UNCHANGED <<raw, row, clipRow, task, batch, joined, clip, sweeper, counters,
                 history>>

\* _remove_files(), by path, of all sources but the one the clip is to replace.
\* Since the join a sweep may have freed the name and a late chunk taken it.
RemoveSources ==
  /\ stitch = "verified"
  /\ stitch' = "removed"
  /\ LET gone == {e.path : e \in joined} \ {FinalPath} IN
       /\ file' = [p \in Paths |-> IF p \in gone THEN NoFile ELSE file[p]]
       /\ Trample((UNION {Held(p) : p \in gone}) \ clip, "remove")
  /\ UNCHANGED <<raw, row, clipRow, task, batch, joined, clip, sweeper, counters,
                 shown, expired, stranded, loose>>

\* _move_into_place().
Move ==
  /\ stitch = "removed"
  /\ stitch' = "moved"
  /\ Put(FinalPath, clip, "move")
  /\ clip' = {}
  /\ UNCHANGED <<raw, row, clipRow, task, batch, joined, sweeper, counters,
                 shown, expired, stranded, loose>>

MoveFails ==
  /\ stitch = "removed"
  /\ Upset
  /\ row' = Marked(joined)
  /\ stranded' = stranded \cup Sources
  /\ Forget
  /\ UNCHANGED <<raw, file, clipRow, task, clip, sweeper, reports, shown,
                 expired, trampled, loose>>

\* Mutant: the rows of the whole episode are replaced.
SwapAll ==
  /\ stitch = "moved"
  /\ clipRow.status = "none"
  /\ row' = Deleted(batch)
  /\ clipRow' = [id |-> clipRow.id + 1, status |-> "ready", path |-> FinalPath,
                  has |-> Sources]
  /\ stitch' = "swapped"
  /\ UNCHANGED <<raw, file, task, batch, joined, clip, sweeper, counters, history>>

\* replace_chunks_with_stitched(): one transaction.  The visit's file_id is
\* unique, so a second clip of the visit is refused.
Swap ==
  /\ stitch = "moved"
  /\ clipRow.status = "none"
  /\ row' = Deleted(joined)
  /\ clipRow' = [id |-> clipRow.id + 1, status |-> "ready", path |-> FinalPath,
                  has |-> Sources]
  /\ stitch' = "swapped"
  /\ UNCHANGED <<raw, file, task, batch, joined, clip, sweeper, counters, history>>

SwapRefused ==
  /\ stitch = "moved"
  /\ clipRow.status = "ready"
  /\ stranded' = stranded \cup Sources
  /\ Forget
  /\ UNCHANGED <<work, task, clip, sweeper, counters, shown, expired, trampled,
                 loose>>

\* The chunks that were left out are marked, in a transaction of their own.
MarkExcluded ==
  /\ stitch = "swapped"
  /\ row' = Marked(batch \ joined)
  /\ Forget
  /\ UNCHANGED <<raw, file, clipRow, task, clip, sweeper, counters, history>>

-----------------------------------------------------------------------------
(* Retention                                                               *)

Visible ==
  {[chunk |-> c, id |-> row[c].id, path |-> row[c].path, has |-> {c}] :
     c \in {d \in Chunks : row[d].status = "ready"}}
  \cup (IF clipRow.status = "ready"
        THEN {[chunk |-> 0, id |-> clipRow.id, path |-> clipRow.path, has |-> clipRow.has]}
        ELSE {})

\* media_for_retention() and _select_expired(): over the size cap, or too old.
SelectExpired ==
  /\ sweep = "idle"
  /\ Upset
  /\ expiring' \in (SUBSET Visible) \ {{}}
  /\ sweep' = "selected"
  /\ expired' = expired \cup UNION {e.has : e \in expiring'}
  /\ loose' = loose \cup {e.path[1] : e \in {x \in expiring' : x.path # NoPath}}
  /\ UNCHANGED <<work, task, stitcher, reports, shown, trampled, stranded>>

\* _unlink_all(), by the paths that were selected.
Unlink ==
  /\ sweep = "selected"
  /\ sweep' = "unlinked"
  /\ LET gone == {e.path : e \in expiring} IN
       /\ file' = [p \in Paths |-> IF p \in gone THEN NoFile ELSE file[p]]
       /\ Trample((UNION {Held(p) : p \in gone \cap Paths})
                    \ (UNION {e.has : e \in expiring}), "sweep")
  /\ UNCHANGED <<raw, row, clipRow, task, stitcher, expiring, counters,
                 shown, expired, stranded, loose>>

\* delete_media(), one row after the other.
DeleteRow ==
  /\ sweep = "unlinked"
  /\ \E e \in expiring :
       /\ expiring' = expiring \ {e}
       /\ row' = Deleted({e})
       /\ clipRow' = IF e.chunk = 0 /\ e.id = clipRow.id
                     THEN [clipRow EXCEPT !.status = "none", !.has = {}] ELSE clipRow
  /\ sweep' = IF expiring' = {} THEN "idle" ELSE "unlinked"
  /\ UNCHANGED <<raw, file, task, stitcher, counters, history>>

\* The sweep of the staging directory, which is the stitcher's work directory
\* as well, takes what is an hour old at least: no task works on it any more.
SweepRaw ==
  /\ Upset
  /\ \E c \in raw :
       /\ \A t \in Tasks : task[t].chunk # c
       /\ raw' = raw \ {c}
       /\ expired' = expired \cup {c}
  /\ UNCHANGED <<file, row, clipRow, task, stitcher, sweeper, reports,
                 shown, trampled, stranded, loose>>

SweepWork ==
  /\ stitch = "idle" /\ clip # {}
  /\ clip' = {}
  /\ Trample(clip, "sweep")
  /\ UNCHANGED <<work, task, stitch, batch, joined, sweeper, counters,
                 shown, expired, stranded, loose>>

-----------------------------------------------------------------------------
\* The container is killed.  Files and rows stay.
Crash ==
  /\ Upset
  /\ task' = [t \in Tasks |-> Idle]
  /\ stranded' = stranded \cup (IF stitch \in {"removed", "moved"} THEN Sources ELSE {})
  /\ Forget
  /\ sweep' = "idle" /\ expiring' = {}
  /\ UNCHANGED <<work, clip, reports, shown, expired, trampled, loose>>

Next ==
  \/ \E c \in Chunks : Upload(c) \/ \E t \in Tasks : Report(c, t)
  \/ \E t \in Tasks :
       \/ Skip(t) \/ Locate(t) \/ Read(t) \/ ClaimPath(t)
       \/ Write(t) \/ WriteFallback(t) \/ WriteFails(t)
       \/ MarkReady(t) \/ RemoveRaw(t)
  \/ GiveEpisode \/ Join \/ TooFew \/ JoinFails \/ RemoveSources
  \/ Move \/ MoveFails \/ Swap \/ SwapRefused \/ MarkExcluded
  \/ SelectExpired \/ Unlink \/ DeleteRow \/ SweepRaw \/ SweepWork
  \/ Crash

Spec == Init /\ [][Next]_vars

\* The stitcher's timer keeps firing and its steps end, and so do those of a
\* sweep; nothing has to be selected.
StitcherSteps ==
  GiveEpisode \/ Join \/ TooFew \/ JoinFails \/ RemoveSources \/ Move \/ MoveFails \/ Swap
  \/ SwapRefused \/ MarkExcluded
SweeperSteps == Unlink \/ DeleteRow
FairSpec == Spec /\ WF_vars(StitcherSteps) /\ WF_vars(SweeperSteps)

-----------------------------------------------------------------------------
(* Properties                                                              *)

Trampled == {x[1] : x \in trampled}

\* Tasks that process chunks of one second side by side never take each
\* other's file: the reservation of a name holds until the file is written
\* (pipeline.py 94-106).  It may not hold against what takes a name without
\* reserving it: a clip, and after a failure the .ts fallback.
TasksKeepApart ==
  upsets = 0 /\ clipRow.status = "none" /\ stitch # "moved" => trampled = {}

\* A chunk the device uploaded is in the staging directory, in the friendly
\* tree or in the work directory until its deletion is due, whatever tasks,
\* stitcher, sweeper, failed calls and kills do to each other.  Only a file
\* taken by an operation on another file is lost: "trampled" names the six.
FootageKept == Chunks \ (expired \cup Trampled) \subseteq raw \cup OnDisk \cup clip

\* What the timeline calls ready plays: the file of the row is there and has the
\* chunk in it, but for the moments in which a clip is about to replace it.  A
\* chunk that lost its file, or whose file went for a clip without a row, leaves a
\* name behind that a later chunk of its second may take, and so do retention and
\* a .ts fallback that lands on a file: of such a second nothing is promised.
Spoilt == loose \cup {Sec[d] : d \in stranded \cup Trampled}
InJoin == IF stitch \in {"removed", "moved"} THEN Sources ELSE {}
ReadyRowPlays ==
  \A c \in Chunks :
    row[c].status = "ready" /\ Sec[c] \notin Spoilt => c \in Held(row[c].path) \cup InJoin

\* A chunk that was ready once is accounted for, in a row of its own or in the
\* clip's, until it expires: no crash shows neither.
TimelineKeeps ==
  \A c \in shown \ expired : Known(c) \/ c \in clipRow.has

\* An episode is not tried for ever: whatever the join meets, its chunks end
\* up in a clip or marked.  Two rows may come to name one file, when a clip was
\* refused after its sources were removed and a late chunk took one's name: if
\* that is the name of the clip too, every join is refused and tried again.
NamedTwice ==
  \E c, d \in Candidates : c # d /\ row[c].path = row[d].path
EpisodeSettles ==
  (Cardinality(Candidates) >= 2) ~> (Cardinality(Candidates) < 2 \/ NamedTwice)

\* "Only the chunks actually going into the join may be replaced/removed;
\* excluded ones keep their row and file" (stitch.py:368).  The clip takes the
\* name of the episode's first chunk, be it excluded or not.
ExcludedKeepFile ==
  [][Move => \A e \in batch \ joined : file'[e.path] = file[e.path]]_vars

\* "the caller must not delete the chunk FILES if their rows survived"
\* (store.py:631).  They are deleted before the rows are swapped, and the swap
\* of a visit's second clip is refused.
SurvivingRowsKeepFiles ==
  [][SwapRefused => \A e \in joined : e.chunk \in Held(e.path)]_vars
=============================================================================
