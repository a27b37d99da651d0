--------------------------- MODULE NativeProvider --------------------------
(* Chapters of an online book: the UI task asks for one and shows a loading *)
(* page until the session reports it Ready or Error; one worker task,       *)
(* started on demand and gone when idle, takes the requests off a queue and *)
(* commits each chapter to the card in a body file and an ".ok" marker.     *)
(* Every access to the session is atomic (its mutex); everything between    *)
(* two accesses interleaves with the other task.                            *)
EXTENDS Fate, Sequences

CONSTANTS Last,     \* index of the book's last chapter
          MaxAsks   \* bound on what the reader of the book asks for

ASSUME BookAssumption == Last \in Nat /\ MaxAsks \in Nat

Chapters == 0..Last

VARIABLES status,   \* ChapterStatus::state of every chapter
          queue,    \* workQ()
          gWorker,  \* whether there is a worker task's handle
          gCancel,
          worker,   \* the worker task: its step, chapter, and attempt
          card,     \* per chapter its ".part", its body and its ".ok"
          ui,       \* the activity's State
          page,     \* its chapter, and whether the 45 s clock runs
          call,     \* the provider call the UI task is in: step, goal, status read
          asks

session == <<status, queue>>
tasks == <<gWorker, worker>>
screen == <<ui, page, call, asks>>
vars == <<fate, session, tasks, gCancel, card, screen>>

Rest == [step |-> "none", goal |-> "load", chapter |-> 0, was |-> "Missing"]
Off == [step |-> "off", chapter |-> 0, attempt |-> 1]
NoFiles == [part |-> "none", body |-> "none", ok |-> FALSE]

RamInit == /\ status = [c \in Chapters |-> "Missing"] /\ queue = <<>>
           /\ gWorker = FALSE /\ gCancel = FALSE /\ worker = Off
           /\ ui = "Detail" /\ page = [chapter |-> 0, timed |-> FALSE] /\ call = Rest

Init == FateInit /\ RamInit /\ card = [c \in Chapters |-> NoFiles] /\ asks = 0

Queued == {queue[i] : i \in DOMAIN queue}

(* Mutant: any body is taken for a complete one. *)
cacheNonEmpty(c) == card[c].body # "none"

cacheComplete(c) == card[c].ok /\ card[c].body # "none"

(* The queue q with every request for chapter c erased.                     *)
Without(q, c) ==
  LET kept[i \in 0..Len(q)] == IF i = 0 THEN <<>>
                               ELSE IF q[i] = c THEN kept[i - 1] ELSE Append(kept[i - 1], q[i])
  IN  kept[Len(q)]

(* Ready takes the chapter's requests off the queue.                        *)
setChapterStatus(c, s) ==
  /\ status' = [status EXCEPT ![c] = s]
  /\ queue' = IF s = "Ready" THEN Without(queue, c) ELSE queue

(* What is left of chapter c's file part after SdMan.remove.                *)
Removed(f, part, gone) == {[f EXCEPT ![part] = gone]} \cup {x \in {f} : MayFail("remove")}

SetCard(c, files) == \E f \in files : card' = [card EXCEPT ![c] = f]

(* clearCacheArtifacts, one file a step.                                    *)
ClearBody(c) == SetCard(c, Removed(card[c], "body", "none"))
ClearPart(c) == SetCard(c, Removed(card[c], "part", "none"))
ClearMarker(c) == SetCard(c, Removed(card[c], "ok", FALSE))
-----------------------------------------------------------------------------
(* The worker task.                                                         *)

At(s) == worker.step = s
wc == worker.chapter
Step(s) == worker' = [worker EXCEPT !.step = s]
NextWork == worker' = [Off EXCEPT !.step = "poll"]

Poll == /\ At("poll")
        /\ IF queue = <<>> THEN Step("idle") /\ UNCHANGED session
           ELSE /\ worker' = [step |-> "check", chapter |-> Head(queue), attempt |-> 1]
                /\ queue' = Tail(queue) /\ UNCHANGED status
        /\ UNCHANGED <<fate, gWorker, gCancel, card, screen>>

(* Mutant: the queue is not looked at again under the lock. *)
IdleLeaves == /\ At("idle")
              /\ \/ worker' = Off /\ gWorker' = FALSE
                 \/ Step("poll") /\ UNCHANGED gWorker
              /\ UNCHANGED <<fate, session, gCancel, card, screen>>

(* After 1200 ms without work, under gMu: leave, if there still is none.    *)
Idle == /\ At("idle")
        /\ \/ queue = <<>> /\ worker' = Off /\ gWorker' = FALSE
           \/ Step("poll") /\ UNCHANGED gWorker
        /\ UNCHANGED <<fate, session, gCancel, card, screen>>

(* processWork up to the status: the catalog may not resolve the chapter.   *)
Check == /\ At("check")
         /\ \/ Step("error")
            \/ cacheComplete(wc) /\ Step("ready")
            \/ ~cacheComplete(wc) /\ Step("start")
         /\ UNCHANGED <<fate, session, gWorker, gCancel, card, screen>>

Start == /\ At("start") /\ setChapterStatus(wc, "Fetching") /\ Step("uncancel")
         /\ UNCHANGED <<fate, gWorker, gCancel, card, screen>>

Uncancel == /\ At("uncancel") /\ gCancel' = FALSE /\ Step("fetch")
            /\ UNCHANGED <<fate, session, gWorker, card, screen>>

(* fetchChapter connects and fills the ".part".  (That it would serve a     *)
(* complete chapter again is dead here: nothing else completes one.)        *)
Fetch == /\ At("fetch") /\ setChapterStatus(wc, "Fetching") /\ Step("body")
         /\ card' = [card EXCEPT ![wc].part = "partial"]
         /\ UNCHANGED <<fate, gWorker, gCancel, screen>>

(* The response ends whole and is flushed; a ".part" removed meanwhile      *)
(* cannot be.                                                               *)
BodyWhole == /\ At("body") /\ card[wc].part # "none"
             /\ card' = [card EXCEPT ![wc].part = "whole"]
             /\ setChapterStatus(wc, "Fetching") /\ Step("unmark")
             /\ UNCHANGED <<fate, gWorker, gCancel, screen>>

(* The connection, the parser, the card or a cancel ends it early.          *)
BodyBroken == /\ At("body") /\ ClearPart(wc) /\ Step("error")
              /\ UNCHANGED <<fate, session, gWorker, gCancel, screen>>

(* Mutant: the marker of an earlier body is left to the final write. *)
UnmarkNothing == /\ At("unmark") /\ Step("drop")
                 /\ UNCHANGED <<fate, session, gWorker, gCancel, card, screen>>

(* commitPart: no marker while the body changes.                            *)
Unmark == /\ At("unmark")
          /\ IF card[wc].part = "whole" THEN ClearMarker(wc) /\ Step("drop")
             ELSE UNCHANGED card /\ Step("failed")
          /\ UNCHANGED <<fate, session, gWorker, gCancel, screen>>

(* commitTempFile: an old body of the very same size is taken for the new   *)
(* one; any other is removed.                                               *)
DropOld == /\ At("drop")
           /\ \/ card[wc].body = "whole" /\ Step("mark") /\ UNCHANGED card
              \/ card[wc].part # "whole" /\ Step("failed") /\ UNCHANGED card
              \/ /\ card[wc].part = "whole" /\ ClearBody(wc)
                 /\ Step(IF card'[wc].body = "none" THEN "rename" ELSE "failed")
           /\ UNCHANGED <<fate, session, gWorker, gCancel, screen>>

Rename == /\ At("rename")
          /\ \/ /\ card[wc].part = "whole" /\ Step("mark")
                /\ card' = [card EXCEPT ![wc].part = "none", ![wc].body = "whole"]
             \/ /\ card[wc].part # "whole" \/ MayFail("rename")
                /\ Step("copy") /\ UNCHANGED card
          /\ UNCHANGED <<fate, session, gWorker, gCancel, screen>>

(* copyFileExact, after a rename that failed.                               *)
Copy == /\ At("copy")
        /\ IF card[wc].part = "whole"
           THEN Step("copied") /\ card' = [card EXCEPT ![wc].body = "partial"]
           ELSE Step("failed") /\ UNCHANGED card
        /\ UNCHANGED <<fate, session, gWorker, gCancel, screen>>

(* The copy is verified by its size; one that is not whole is removed.      *)
Copied == /\ At("copied")
          /\ \/ /\ card[wc].part = "whole" /\ card[wc].body = "partial"
                /\ SetCard(wc, Removed([card[wc] EXCEPT !.body = "whole"], "part", "none"))
                /\ Step("mark")
             \/ /\ MayFail("write") \/ card[wc].part # "whole" \/ card[wc].body = "none"
                /\ ClearBody(wc) /\ Step("failed")
          /\ UNCHANGED <<fate, session, gWorker, gCancel, screen>>

(* The marker, then the progress of a chapter that is complete.             *)
Mark == /\ At("mark") /\ card' = [card EXCEPT ![wc].ok = TRUE]
        /\ Step("ready") /\ setChapterStatus(wc, "Fetching")
        /\ UNCHANGED <<fate, gWorker, gCancel, screen>>

MarkFails == /\ At("mark") /\ MayFail("write") /\ Step("failed")
             /\ \E m \in BOOLEAN : card' = [card EXCEPT ![wc].ok = m]
             /\ UNCHANGED <<fate, session, gWorker, gCancel, screen>>

(* cache_commit_failed: once, and unless cancelled, every file is cleared   *)
(* and the chapter fetched again.                                           *)
Failed == /\ At("failed")
          /\ Step(IF worker.attempt = 1 /\ ~gCancel THEN "clearBody" ELSE "error")
          /\ UNCHANGED <<fate, session, gWorker, gCancel, card, screen>>

Again == /\ \/ At("clearBody") /\ ClearBody(wc) /\ Step("clearPart")
            \/ At("clearPart") /\ ClearPart(wc) /\ Step("clearMarker")
            \/ /\ At("clearMarker") /\ ClearMarker(wc)
               /\ worker' = [worker EXCEPT !.step = "fetch", !.attempt = 2]
         /\ UNCHANGED <<fate, session, gWorker, gCancel, screen>>

(* Mutant: a chapter that failed is only reported if nobody cancelled. *)
EndQuietly == /\ \/ At("ready") /\ setChapterStatus(wc, "Ready")
                 \/ At("error") /\ ~gCancel /\ setChapterStatus(wc, "Error")
                 \/ At("error") /\ gCancel /\ UNCHANGED session
              /\ NextWork
              /\ UNCHANGED <<fate, gWorker, gCancel, card, screen>>

End == /\ \/ At("ready") /\ setChapterStatus(wc, "Ready")
          \/ At("error") /\ setChapterStatus(wc, "Error")
       /\ NextWork
       /\ UNCHANGED <<fate, gWorker, gCancel, card, screen>>

Worker == \/ Poll \/ Idle \/ Check \/ Start \/ Uncancel \/ Fetch \/ BodyWhole \/ BodyBroken
          \/ Unmark \/ DropOld \/ Rename \/ Copy \/ Copied \/ Mark \/ MarkFails \/ Failed
          \/ Again \/ End
-----------------------------------------------------------------------------
(* The UI task: NativeProviderBookActivity and the reader under it.         *)

Calling(s) == call.step = s
Free == Calling("none")
Next1 == page.chapter + 1

Go(s, c) == ui' = s /\ page' = [chapter |-> IF s = "Detail" THEN 0 ELSE c, timed |-> FALSE]

(* requestChapter of the activity: open a chapter that is Ready, or show    *)
(* the loading page, which asks for it 600 ms later.                        *)
Choose(c) == /\ \/ /\ status[c] = "Ready" /\ card[c].body # "none"
                   /\ Go("Reader", c) /\ call' = Rest
                \/ /\ status[c] # "Ready" \/ card[c].body = "none"
                   /\ Go("Loading", c) /\ call' = [Rest EXCEPT !.step = "settle", !.chapter = c]
             /\ UNCHANGED <<fate, session, tasks, gCancel, card>>

Another == asks < MaxAsks /\ asks' = asks + 1

Tap(c) == ui = "Detail" /\ Choose(c) /\ Another

(* Back, on the detail, error or reader page or while the panel settles.    *)
Leave == /\ \/ ui \in {"Error", "Reader"} /\ Free
            \/ ui = "Loading" /\ Calling("settle")
         /\ Go("Detail", page.chapter) /\ call' = Rest
         /\ UNCHANGED <<fate, asks, session, tasks, gCancel, card>>

Ask(goal, c) == call' = [step |-> "read", goal |-> goal, chapter |-> c, was |-> status[c]]

Settled == /\ ui = "Loading" /\ Calling("settle") /\ Ask("load", page.chapter)
           /\ UNCHANGED <<fate, asks, session, tasks, gCancel, card, ui, page>>

(* providerIdlePrefetchNext.                                                *)
Prefetch == /\ ui = "Reader" /\ Free /\ Next1 \in Chapters /\ status[Next1] = "Missing"
            /\ Ask("prefetch", Next1) /\ Another
            /\ UNCHANGED <<fate, session, tasks, gCancel, card, ui, page>>

(* tryProviderNextChapterAdvance of a next chapter not being fetched.       *)
Advance == /\ ui = "Reader" /\ Free /\ Next1 \in Chapters
           /\ status[Next1] \in {"Missing", "Error"}
           /\ Ask("advance", Next1) /\ Another
           /\ UNCHANGED <<fate, session, tasks, gCancel, card, ui, page>>

(* switchToProviderChapter: by the next page or the table of contents.      *)
Switch(c) == /\ ui = "Reader" /\ Free /\ status[c] = "Ready" /\ card[c].body # "none"
             /\ Go("Reader", c) /\ setChapterStatus(c, "Ready")
             /\ UNCHANGED <<fate, asks, tasks, gCancel, card, call>>

(* A chapter that cannot be switched to: back to the loading page.          *)
Pick(c) == /\ ui = "Reader" /\ Free /\ (status[c] = "Ready" => card[c].body = "none")
           /\ Choose(c) /\ Another

(* requestChapter of the manager.                                           *)
Foreground == call.goal # "prefetch"
Then(s) == call' = [call EXCEPT !.step = s, !.was = "Missing"]   \* what was read is used once

(* The call is over; to advance, the reader closes and the activity         *)
(* chooses the chapter.                                                     *)
Done(queued) ==
  /\ call' = IF call.goal = "advance" THEN [Rest EXCEPT !.step = "choose", !.chapter = call.chapter]
             ELSE Rest
  /\ CASE call.goal = "load" /\ queued -> page' = [page EXCEPT !.timed = TRUE] /\ UNCHANGED ui
       [] call.goal = "load" /\ ~queued /\ status[call.chapter] # "Ready" -> Go("Error", call.chapter)
       [] OTHER -> UNCHANGED <<ui, page>>

Read == /\ Calling("read")
        /\ CASE call.was = "Ready" /\ cacheComplete(call.chapter) -> Done(TRUE)
             [] call.was = "Ready" /\ ~cacheComplete(call.chapter) -> Then("reset") /\ UNCHANGED <<ui, page>>
             [] call.was = "Error" /\ ~Foreground -> Done(FALSE)
             [] call.was = "Error" /\ Foreground -> Then("reset") /\ UNCHANGED <<ui, page>>
             [] OTHER -> Then("uncancel") /\ UNCHANGED <<ui, page>>
        /\ UNCHANGED <<fate, asks, session, tasks, gCancel, card>>

Reset == /\ Calling("reset") /\ setChapterStatus(call.chapter, "Missing") /\ Then("uncancel")
         /\ UNCHANGED <<fate, asks, tasks, gCancel, card, ui, page>>

AskUncancel == /\ Calling("uncancel") /\ Then("push")
               /\ gCancel' = IF Foreground THEN FALSE ELSE gCancel
               /\ UNCHANGED <<fate, asks, session, tasks, card, ui, page>>

(* The session's requestPrefetch refuses a chapter that is Ready.  The next *)
(* step remembers its answer: "kick" for no, "kicked" for yes.              *)
requestPrefetch ==
  LET c == call.chapter IN
  /\ Calling("push")
  /\ IF status[c] = "Ready" THEN Then("kick") /\ UNCHANGED session
     ELSE /\ Then("kicked")
          /\ status' = [status EXCEPT ![c] = "Fetching"]
          /\ queue' = IF c \in Queued THEN queue ELSE Append(queue, c)
  /\ UNCHANGED <<fate, asks, tasks, gCancel, card, ui, page>>

(* kickWorker: the task may not be created.                                 *)
Kick == /\ \/ Calling("kick") /\ Done(FALSE)
           \/ Calling("kicked") /\ Done(TRUE)
        /\ \/ gWorker /\ UNCHANGED tasks
           \/ ~gWorker /\ gWorker' = TRUE /\ worker' = [Off EXCEPT !.step = "poll"]
           \/ ~gWorker /\ UNCHANGED tasks
        /\ UNCHANGED <<fate, asks, session, gCancel, card>>

Waiting == ui = "Loading" /\ Free
Loaded == status[page.chapter] = "Ready"

(* Mutant: only what the worker reported since the request is opened. *)
OpenFetched == Waiting /\ Loaded /\ page.timed /\ card[page.chapter].body # "none"
               /\ Go("Reader", page.chapter)
               /\ UNCHANGED <<fate, asks, session, tasks, gCancel, card, call>>

(* The loading page sees the chapter Ready.                                 *)
OpenReady == /\ Waiting /\ Loaded
             /\ Go(IF card[page.chapter].body = "none" THEN "Error" ELSE "Reader", page.chapter)
             /\ UNCHANGED <<fate, asks, session, tasks, gCancel, card, call>>

(* 45 seconds after the request.                                            *)
TimedOut == /\ Waiting /\ page.timed /\ status[page.chapter] \notin {"Ready", "Error"}
            /\ gCancel' = TRUE /\ Go("Error", page.chapter)
            /\ UNCHANGED <<fate, asks, session, tasks, card, call>>

CancelLoading == /\ Waiting /\ ~Loaded /\ gCancel' = TRUE /\ Go("Detail", page.chapter)
                 /\ UNCHANGED <<fate, asks, session, tasks, card, call>>

(* Retry: invalidateChapterCache, then the request from the start.          *)
Retry == /\ Free /\ Another
         /\ ui = "Error" \/ (Waiting /\ status[page.chapter] = "Error")
         /\ call' = [Rest EXCEPT !.step = "clearBody", !.chapter = page.chapter]
         /\ UNCHANGED <<fate, session, tasks, gCancel, card, ui, page>>

(* A chapter whose file the session does not know keeps what it has.        *)
Invalidate == /\ \/ Calling("clearBody") /\ ClearBody(call.chapter) /\ Then("clearPart")
                 \/ Calling("clearBody") /\ status[call.chapter] # "Ready" /\ Then("missing") /\ UNCHANGED card
                 \/ Calling("clearPart") /\ ClearPart(call.chapter) /\ Then("clearMarker")
                 \/ Calling("clearMarker") /\ ClearMarker(call.chapter) /\ Then("missing")
              /\ UNCHANGED <<fate, asks, session, tasks, gCancel, ui, page>>

Invalidated == /\ Calling("missing") /\ setChapterStatus(call.chapter, "Missing") /\ Then("choose")
               /\ UNCHANGED <<fate, asks, tasks, gCancel, card, ui, page>>

ChooseAgain == Calling("choose") /\ Choose(call.chapter) /\ UNCHANGED asks

(* The power is cut: only the card remains.                                 *)
Cut == PowerCut /\ UNCHANGED <<card, asks>>
       /\ status' = [c \in Chapters |-> "Missing"] /\ queue' = <<>>
       /\ gWorker' = FALSE /\ gCancel' = FALSE /\ worker' = Off
       /\ ui' = "Detail" /\ page' = [chapter |-> 0, timed |-> FALSE] /\ call' = Rest

Call == Read \/ Reset \/ AskUncancel \/ requestPrefetch \/ Kick \/ Invalidate \/ Invalidated \/ ChooseAgain

Ui == \/ \E c \in Chapters : Tap(c) \/ Switch(c) \/ Pick(c)
      \/ Leave \/ Settled \/ Prefetch \/ Advance \/ Call
      \/ OpenReady \/ TimedOut \/ CancelLoading \/ Retry

Next == Worker \/ Ui \/ Cut

(* The worker task runs, its connections end, and the UI task's loop and    *)
(* clocks go on; nobody has to press a button.                              *)
Spec == /\ Init /\ [][Next]_vars
        /\ WF_vars(Worker)
        /\ WF_vars(Call) /\ WF_vars(Settled) /\ WF_vars(OpenReady) /\ WF_vars(TimedOut)
-----------------------------------------------------------------------------
Bodies == {"none", "partial", "whole"}

Busy(c) == worker.step \notin {"off", "poll", "idle"} /\ wc = c

(* No chapter is left Fetching with nobody to fetch it: it is queued, or    *)
(* the worker has it in hand, through cancels, retries, invalidations and   *)
(* requests that cross the worker's reports.  None is queued twice.         *)
FetchingIsWorked ==
  /\ \A c \in Chapters : status[c] = "Fetching" => c \in Queued \/ Busy(c)
  /\ \A i, j \in DOMAIN queue : i # j => queue[i] # queue[j]

(* A body with its marker is whole: the one file the next start trusts,     *)
(* through failed removals, renames and writes, a commit that falls back to *)
(* copying, a retry that clears the files under the worker, and power cuts. *)
CachedIsWhole == \A c \in Chapters : card[c].ok /\ card[c].body # "none" => card[c].body = "whole"

(* The body the reader has open is whole as long as it reads it, whatever   *)
(* the worker prefetches, retries or clears meanwhile.                      *)
ReaderWhole == ui = "Reader" => card[page.chapter].body = "whole"

(* A request that a worker is there to see is taken up: the worker does not *)
(* leave on an idle queue while one arrives.                                *)
QueueServed == \A c \in Chapters : (c \in Queued /\ gWorker) ~> c \notin Queued

(* The loading page ends, or says that the chapter failed, even if no       *)
(* worker task could be created or the answer crosses the request.          *)
LoadingEnds == (ui = "Loading") ~> (ui # "Loading" \/ status[page.chapter] = "Error")
=============================================================================
