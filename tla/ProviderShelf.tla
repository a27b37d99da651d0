--------------------------- MODULE ProviderShelf ---------------------------
(* The shelf of a provider's native app: the rows of its books and the      *)
(* metadata that tells which schema they have, two files that the discovery *)
(* worker replaces as a pair and the app's page recovers, reads and indexes. *)
EXTENDS Fate

CONSTANTS MaxJobs,   \* bound on the discoveries of this app
          Absent, Torn

ASSUME ShelfAssumption == MaxJobs \in Nat \ {0} /\ Absent \notin Nat /\ Torn \notin Nat

(* The rows are those of a discovery, by its number; 0 are rows from before *)
(* there was metadata.  The metadata is its schema version.                 *)
Pair == {"rows", "meta"}
New == [rows |-> "rowsNew", meta |-> "metaNew"]   \* part, mpt
Old == [rows |-> "rowsOld", meta |-> "metaOld"]   \* rkb, mkb
Files == {"rows", "meta", "rowsNew", "metaNew", "rowsOld", "metaOld"}
CurrentSchema == 2

VARIABLES card,        \* per file, what is in it
          gBusy,
          gSnapshot,   \* its phase, whether it is of this app, and the time of its Ready
          job,         \* the worker: its step, the file it is at, its number, commit's locals
          page,        \* the controller: its step, recover's locals, its members, whether
                       \* a child is open; behind is history
          jobs,
          offered      \* history: the shelves a visit may find

shelf == <<card, offered>>
discovery == <<gBusy, gSnapshot, job, jobs>>
vars == <<shelf, discovery, page, fate>>

Silent == [phase |-> "none", mine |-> FALSE, stamp |-> 0]
NoJob == [step |-> "none", file |-> "rows", number |-> 0, renewed |-> FALSE,
          had |-> {}, backed |-> {}, put |-> {}]
Away == [step |-> "away", file |-> "rows", backed |-> {}, present |-> {}, needs |-> FALSE,
         reading |-> Absent, index |-> Absent, applied |-> 0, attempted |-> FALSE,
         child |-> FALSE, behind |-> FALSE]

Init == /\ card \in [Files -> {Absent, 0}]
        /\ \A f \in Files \ {"rows"} : card[f] = Absent
        /\ gBusy = FALSE /\ gSnapshot = Silent /\ job = NoJob /\ page = Away
        /\ jobs = 0 /\ offered = {Absent} /\ FateInit
-----------------------------------------------------------------------------
(* The card: one call a step.                                               *)

Present == {f \in Pair : card[f] # Absent}

Remove(f) == card' \in {[card EXCEPT ![f] = Absent]} \cup {c \in {card} : MayFail("remove")}

CanRename(src, dst) == card[src] # Absent /\ card[dst] = Absent

(* What a rename may return, and what it then has done.                     *)
RenameResults(src, dst) == {ok \in BOOLEAN : IF ok THEN CanRename(src, dst)
                                             ELSE MayFail("rename") \/ ~CanRename(src, dst)}
Renamed(src, dst, ok) ==
  card' = IF ok THEN [card EXCEPT ![src] = Absent, ![dst] = card[src]] ELSE card

(* Mutant: a recovery that takes new rows alone for a whole pair. *)
WholeByRows(present) == "rows" \in present

Whole(present) == present = Pair

(* The pair as recoverTempFilesPair leaves it where its calls succeed, and  *)
(* the rows a visit then shows.                                             *)
Recovered == LET backed == {f \in Pair : card[Old[f]] # Absent}
             IN [f \in Pair |-> IF f \in backed /\ Present # Pair THEN card[Old[f]] ELSE card[f]]

Shelf == IF Recovered.meta = CurrentSchema THEN Recovered.rows ELSE Absent
-----------------------------------------------------------------------------
(* The discovery worker.                                                    *)

In(s) == job.step = s
To(s) == [job EXCEPT !.step = s, !.file = "rows"]

(* The rows' turn, then the metadata's, then the next step.                 *)
Onward(s) == IF job.file = "rows" THEN [job EXCEPT !.file = "meta"] ELSE To(s)

WorkerKeeps == UNCHANGED <<jobs, page, fate>>
CardOnly == UNCHANGED <<gBusy, gSnapshot, offered>> /\ WorkerKeeps

(* makeSpec, which may refuse, then requestToSink and ensureFile.           *)
Fetch == /\ In("fetch")
         /\ \/ job' \in {To("abort"), To("failed")} /\ UNCHANGED card
            \/ job' = To("receive") /\ card' = [card EXCEPT !.rowsNew = Torn]
         /\ CardOnly

(* An expired login is renewed, once: before the request, or after one that *)
(* is then made again.                                                      *)
Renew == /\ (In("fetch") \/ In("receive")) /\ ~job.renewed
         /\ job' = [To("fetch") EXCEPT !.renewed = TRUE]
         /\ Remove("rowsNew") \/ (In("fetch") /\ UNCHANGED card)
         /\ CardOnly

Receive == /\ In("receive")
           /\ \/ job' = To("abort") /\ UNCHANGED card
              \/ job' = To("describe") /\ card' = [card EXCEPT !.rowsNew = job.number]
           /\ CardOnly

(* writeTextFile of the metadata: open over what is there, then write.      *)
Describe == /\ \/ /\ In("describe")
                  /\ \/ MayFail("open") /\ job' = To("abort") /\ Remove("metaNew")
                     \/ job' = To("described") /\ card' = [card EXCEPT !.metaNew = Torn]
               \/ /\ In("described")
                  /\ \/ MayFail("write") /\ job' = To("abort") /\ Remove("metaNew")
                     \/ job' = To("clear") /\ card' = [card EXCEPT !.metaNew = CurrentSchema]
            /\ CardOnly

Abort == In("abort") /\ Remove("rowsNew") /\ job' = To("failed") /\ CardOnly

(* commitTempFilesPair: the temporary files are measured, and debris of     *)
(* earlier commits goes.                                                    *)
Clear == /\ In("clear")
         /\ \/ Remove(Old[job.file]) /\ job' = [Onward("back") EXCEPT !.had = Present]
            \/ MayFail("read") /\ job.file = "rows" /\ job' = To("discard") /\ UNCHANGED card
         /\ CardOnly

Back == /\ In("back")
        /\ \/ job.file \notin job.had /\ job' = Onward("put") /\ UNCHANGED card
           \/ /\ job.file \in job.had
              /\ \E ok \in RenameResults(job.file, Old[job.file]) :
                   /\ Renamed(job.file, Old[job.file], ok)
                   /\ job' = IF ok THEN [Onward("put") EXCEPT !.backed = @ \cup {job.file}]
                             ELSE To(IF job.file = "rows" THEN "discard" ELSE "undo")
        /\ CardOnly

(* A file moved in is measured too: one that cannot be read counts as wrong. *)
Put == /\ In("put")
       /\ \E ok \in RenameResults(New[job.file], job.file), measured \in BOOLEAN :
            /\ measured \/ MayFail("read")
            /\ Renamed(New[job.file], job.file, ok)
            /\ job' = [(IF ok /\ measured THEN Onward("clean") ELSE To("undo"))
                         EXCEPT !.put = @ \cup {f \in {job.file} : ok}]
       /\ CardOnly

Clean == /\ In("clean") /\ job' = Onward("ready")
         /\ IF job.file \in job.backed THEN Remove(Old[job.file]) ELSE UNCHANGED card
         /\ CardOnly

(* restore: the new files go, the old ones come back.                       *)
Undo == /\ In("undo") /\ job' = Onward("bring")
        /\ IF job.file \in job.put THEN Remove(job.file) ELSE UNCHANGED card
        /\ CardOnly

Bring == /\ In("bring") /\ job' = Onward("discard")
         /\ \/ job.file \notin job.backed /\ UNCHANGED card
            \/ /\ job.file \in job.backed
               /\ \E ok \in RenameResults(Old[job.file], job.file) :
                    Renamed(Old[job.file], job.file, ok)
         /\ CardOnly

Discard == /\ In("discard") /\ Remove(New[job.file]) /\ job' = Onward("failed") /\ CardOnly

(* publish, then the busy flag; AuthRequired is an error here.              *)
Publish == /\ \/ In("ready") /\ gSnapshot' = [gSnapshot EXCEPT !.phase = "Ready", !.stamp = job.number]
              \/ In("failed") /\ gSnapshot' = [gSnapshot EXCEPT !.phase = "Error"]
           /\ job' = To("release") /\ offered' = {Shelf}
           /\ UNCHANGED <<gBusy, card>> /\ WorkerKeeps

Release == /\ In("release") /\ gBusy' = FALSE /\ job' = NoJob
           /\ UNCHANGED <<shelf, gSnapshot>> /\ WorkerKeeps

Worker == Fetch \/ Renew \/ Receive \/ Describe \/ Abort \/ Clear \/ Back \/ Put \/ Clean \/ Undo \/ Bring
          \/ Discard \/ Publish \/ Release
-----------------------------------------------------------------------------
(* The page, on the UI task.  beginShelfIndex and what it calls run to the  *)
(* end before the user is heard again.                                      *)

At(s) == page.step = s
PageTo(s) == [page EXCEPT !.step = s, !.file = "rows"]
PageOnward(s) == IF page.file = "rows" THEN [page EXCEPT !.file = "meta"] ELSE PageTo(s)
Begun == [PageTo("look") EXCEPT !.index = Absent, !.behind = FALSE]
NotReady == [PageTo("shown") EXCEPT !.needs = TRUE]

Mine == gBusy /\ gSnapshot.mine
Unread == gSnapshot.mine /\ gSnapshot.phase = "Ready" /\ gSnapshot.stamp # page.applied
Open == At("shown") \/ At("indexing")
Seen == Open /\ ~page.child

(* The answer the page has not applied is of other rows than it reads.      *)
Missing == Unread /\ page.reading # gSnapshot.stamp
PageOnly == UNCHANGED <<shelf, discovery, fate>>
Recovers == UNCHANGED <<offered, discovery, fate>>

(* The constructor: not while the page's own discovery runs, unless this is *)
(* a user who comes back to it.                                             *)
Enter == /\ At("away") /\ (~Mine \/ "reenter" \in faults)
         /\ page' = [Away EXCEPT !.step = "look", !.behind = Mine] /\ PageOnly

(* recoverTempFilesPair.                                                    *)
Look == /\ At("look")
        /\ LET backed == {f \in Pair : card[Old[f]] # Absent}
           IN page' = [PageTo(IF backed = {} THEN "probe" ELSE "look2") EXCEPT !.backed = backed]
        /\ PageOnly

LookFinals == /\ At("look2")
              /\ page' = [PageTo(IF Whole(Present) THEN "tidy" ELSE "drop")
                            EXCEPT !.present = Present]
              /\ PageOnly

Tidy == /\ At("tidy") /\ page' = PageOnward("probe")
        /\ IF page.file \in page.backed THEN Remove(Old[page.file]) ELSE UNCHANGED card
        /\ Recovers

(* "Never delete an untouched sibling that has no corresponding backup."    *)
Drop == /\ At("drop") /\ page' = [page EXCEPT !.step = "restore"]
        /\ IF page.file \in page.backed \cap page.present THEN Remove(page.file) ELSE UNCHANGED card
        /\ Recovers

Restore == /\ At("restore")
           /\ page' = IF page.file = "rows" THEN [page EXCEPT !.step = "drop", !.file = "meta"]
                      ELSE PageTo("probe")
           /\ \/ page.file \notin page.backed /\ UNCHANGED card
              \/ /\ page.file \in page.backed
                 /\ \E ok \in RenameResults(Old[page.file], page.file) :
                      Renamed(Old[page.file], page.file, ok)
           /\ Recovers

(* The rest of beginShelfIndex: rows, their metadata, the index's file.     *)
Probe == /\ At("probe")
         /\ page' = IF card.rows = Absent THEN NotReady ELSE PageTo("check")
         /\ offered' = {Shelf} /\ UNCHANGED <<card, discovery, fate>>

Check == /\ At("check")
         /\ \/ card.meta = CurrentSchema /\ page' = PageTo("open")
            \/ (card.meta # CurrentSchema \/ MayFail("read")) /\ page' = NotReady
         /\ PageOnly

(* A file may be empty: there is nothing to index then.                     *)
OpenRows == /\ At("open")
            /\ \/ card.rows # Absent
                  /\ page' = [PageTo("indexing") EXCEPT !.needs = FALSE, !.reading = card.rows]
               \/ card.rows # Absent /\ page' = [PageTo("shown") EXCEPT !.needs = FALSE]
               \/ (card.rows = Absent \/ MayFail("open")) /\ page' = NotReady
            /\ PageOnly

(* pumpShelfIndex, over any number of frames; a read that fails ends it.    *)
Index == /\ At("indexing") /\ Seen
         /\ \/ page' = [PageTo("shown") EXCEPT !.index = page.reading]
            \/ MayFail("read") /\ page' = NotReady
         /\ PageOnly

(* Mutant: an answer is noted, but the rows on the page stay. *)
SyncNotes == Seen /\ Unread /\ page' = [page EXCEPT !.applied = gSnapshot.stamp] /\ PageOnly

(* syncDiscovery; beginShelfIndex returns at once while it is indexing.     *)
Sync == /\ Seen /\ Unread
        /\ page' = [(IF At("indexing") THEN [page EXCEPT !.behind = @ \/ Missing] ELSE Begun)
                      EXCEPT !.applied = gSnapshot.stamp]
        /\ PageOnly

(* startCategory, for this app: the task may not be created.                *)
Start == /\ ~gBusy /\ jobs < MaxJobs /\ jobs' = jobs + 1
         /\ \/ /\ gBusy' = TRUE /\ job' = [NoJob EXCEPT !.step = "fetch", !.number = jobs + 1]
               /\ gSnapshot' = [phase |-> "Connecting", mine |-> TRUE, stamp |-> 0]
               /\ offered' = offered \cup {jobs + 1}
            \/ /\ gSnapshot' = [phase |-> "Error", mine |-> TRUE, stamp |-> 0]
               /\ UNCHANGED <<gBusy, job, offered>>
         /\ UNCHANGED <<card, fate>>

(* A start clears the snapshot, and an answer that is in it.                *)
Attempt == page' = [page EXCEPT !.attempted = TRUE]
Asked(attempted) == [page EXCEPT !.attempted = attempted, !.behind = @ \/ Missing]

(* Mutant: a page that finds the worker busy has had its attempt. *)
AutoDiscoverOnce == /\ At("shown") /\ Seen /\ page.needs /\ ~page.attempted /\ Attempt
                    /\ (Start \/ (gBusy /\ UNCHANGED <<shelf, discovery, fate>>))

(* pollAsync: once per page, and not while any discovery runs; an answer    *)
(* may have come since the snapshot that its syncDiscovery looked at.       *)
AutoDiscover == /\ At("shown") /\ Seen /\ page.needs /\ ~page.attempted
                /\ page' = Asked(TRUE) /\ Start

(* provider.refresh and provider.selectCategory.                            *)
Refresh == /\ Seen
           /\ \/ Mine /\ Attempt /\ UNCHANGED <<shelf, discovery, fate>>
              \/ Start /\ page' = Asked(page.attempted \/ gBusy')

(* WeRead's page has one run when it is entered and after a login.          *)
StartDefault == Open /\ Start /\ page' = Asked(page.attempted)

(* A book, a login, the settings of a provider: the page's loop then only   *)
(* pumps the child.                                                         *)
Child == Open /\ page' = [page EXCEPT !.child = ~@] /\ PageOnly

Leave == Open /\ page' = Away /\ PageOnly

(* The page of another provider's app has its discovery run.                *)
OtherApp == /\ At("away") /\ ~gBusy /\ gBusy' = TRUE
            /\ gSnapshot' = [phase |-> "Connecting", mine |-> FALSE, stamp |-> 0]
            /\ job' = [NoJob EXCEPT !.step = "release"]
            /\ UNCHANGED <<shelf, jobs, page, fate>>

Page == Look \/ LookFinals \/ Tidy \/ Drop \/ Restore \/ Probe \/ Check \/ OpenRows

Poll == Index \/ Sync \/ AutoDiscover

Crash == /\ PowerCut /\ gBusy' = FALSE /\ gSnapshot' = Silent /\ job' = NoJob /\ page' = Away
         /\ UNCHANGED <<shelf, jobs>>

Next == Worker \/ Page \/ Poll \/ Enter \/ Refresh \/ StartDefault \/ Child \/ Leave
        \/ OtherApp \/ Crash

(* Connections time out, so a job goes on; the UI task's loop goes on, and  *)
(* polls in each pass without a child.                                      *)
Spec == /\ Init /\ [][Next]_vars /\ WF_vars(Worker) /\ WF_vars(Page)
        /\ WF_vars(Index) /\ WF_vars(Sync) /\ WF_vars(AutoDiscover)
-----------------------------------------------------------------------------
(* The offsets are of the rows on the card, although refreshes, logins and  *)
(* other starts come at any time: except while a commit replaces the rows,  *)
(* until its answer is taken up, and on a page that the code leaves behind. *)
(* That is one entered while its discovery ran, one told of new rows while  *)
(* it indexed the old, and one whose unread answer a start cleared.         *)
Replacing == job.step \in {"back", "put", "clean", "undo", "bring", "ready"}
OffsetsMatch ==
  At("shown") /\ page.index # Absent /\ ~page.behind /\ ~Replacing /\ ~Missing
    => card.rows \in {page.index, Absent}

(* Moreover rows of an older schema are not shown as fresh, unless a page   *)
(* is entered beside its own discovery.                                     *)
ShownIsCurrent == /\ OffsetsMatch
                  /\ "reenter" \notin faults => page.index # 0 /\ page.reading # 0

(* "Replace two closed generations as one recoverable transaction": where   *)
(* renames, removals and reads work, the pair as the next visit will        *)
(* recover it is one durable cell, at every cut of a commit or a recovery.  *)
CardMoves == faults \subseteq {"open", "write"}
CellHeld == IF CardMoves THEN Shelf ELSE Absent
CellOffered == IF CardMoves THEN offered ELSE {Absent}
Cell == INSTANCE DurableCell WITH Docs <- 1..MaxJobs, Blank <- Absent,
                                  held <- CellHeld, offered <- CellOffered
ImplementsCell == Cell!Spec

(* A page that has no fresh shelf and has not tried yet starts a discovery, *)
(* although another app's may still run, unless it is left, a child hides   *)
(* it, or a second look finds the shelf fresh.                              *)
StaleIsRefreshed ==
  \A n \in 0..(MaxJobs - 1) :
    (At("shown") /\ Seen /\ page.needs /\ ~page.attempted /\ ~Mine /\ jobs = n)
      ~> (jobs > n \/ At("away") \/ page.child \/ (At("shown") /\ ~page.needs))
=============================================================================
