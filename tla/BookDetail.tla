----------------------------- MODULE BookDetail ----------------------------
(* The worker that fetches an online book's detail and cover for the book   *)
(* page.  The page enters and leaves at any time; start() of another book   *)
(* meets the job of the one before, cancelled but still running.            *)
EXTENDS Naturals

CONSTANTS Books, MaxVisits,   \* bound on the visits to a book page
          None

Requests == [book : Books, visit : 1..MaxVisits]

ASSUME DetailAssumption == MaxVisits \in Nat \ {0} /\ None \notin Books \cup Requests

VARIABLES gBusy, gDetailCancel,   \* gCancel of M4NativeProviderBookDetailAsync.cpp
          gRequest,
          gSnapshot,   \* its phase, request (the ids), result and cover
          job,         \* the worker: its step, its request, its result and cover
          bookPage,        \* the book page: the step it is in, its request, detailLoading_, detail_
          recent,      \* per book, the book of the cover path kept for the home screen
          visits

handed == <<gBusy, gRequest, gSnapshot, job>>
detailVars == <<handed, gDetailCancel, bookPage, recent, visits>>

Empty == [phase |-> "Idle", of |-> None, result |-> None, cover |-> None]
NoJob == [step |-> "none", of |-> None, result |-> None, cover |-> None]
Away == [step |-> "none", of |-> None, loading |-> FALSE, detail |-> None]

DetailInit == /\ gBusy = FALSE /\ gDetailCancel = FALSE /\ gRequest = None /\ gSnapshot = Empty
              /\ job = NoJob /\ bookPage = Away /\ recent = [b \in Books |-> None] /\ visits = 0

PageAt(s) == bookPage.step = s
PageStep(s) == bookPage' = [bookPage EXCEPT !.step = s]

(* publish(): the ids of the snapshot stay.                                 *)
publish(result, cover) ==
  gSnapshot' = [gSnapshot EXCEPT !.phase = IF result = None THEN "Error" ELSE "Ready",
                                 !.result = result, !.cover = cover]
-----------------------------------------------------------------------------
(* The UI task.                                                             *)

(* loadBookDetail shows the seed; start() follows.                          *)
Enter(b) == /\ PageAt("none") /\ visits < MaxVisits /\ visits' = visits + 1
            /\ bookPage' = [step |-> "start", of |-> [book |-> b, visit |-> visits + 1],
                            loading |-> TRUE, detail |-> None]
            /\ UNCHANGED <<handed, gDetailCancel, recent>>

(* Mutant: a start that is refused leaves the page waiting. *)
RefusedWaits == bookPage' = [bookPage EXCEPT !.step = "shown"]

Refused == bookPage' = [bookPage EXCEPT !.step = "shown", !.loading = FALSE]

(* The exchange of gBusy: "detail_busy" while another job runs.             *)
Claim == /\ PageAt("start")
         /\ \/ gBusy /\ Refused /\ UNCHANGED gBusy
            \/ ~gBusy /\ PageStep("claimed") /\ gBusy' = TRUE
         /\ UNCHANGED <<gDetailCancel, gRequest, gSnapshot, job, recent, visits>>

UncancelJob == /\ PageAt("claimed") /\ gDetailCancel' = FALSE /\ PageStep("clear")
               /\ UNCHANGED <<handed, recent, visits>>

Prepare == /\ PageAt("clear") /\ gRequest' = bookPage.of /\ PageStep("prepared")
           /\ gSnapshot' = [Empty EXCEPT !.phase = "Loading", !.of = bookPage.of]
           /\ UNCHANGED <<gBusy, gDetailCancel, job, recent, visits>>

CreateTask == /\ PageAt("prepared")
              /\ \/ job' = [NoJob EXCEPT !.step = "take"] /\ PageStep("shown") /\ UNCHANGED gBusy
                 \/ gBusy' = FALSE /\ PageStep("failed") /\ UNCHANGED job
              /\ UNCHANGED <<gDetailCancel, gRequest, gSnapshot, recent, visits>>

CreateFailed == /\ PageAt("failed") /\ publish(None, None) /\ Refused
                /\ UNCHANGED <<gBusy, gDetailCancel, gRequest, job, recent, visits>>

(* pollDetailLoading matches the ids: provider, app and book.               *)
pollDetailLoading == /\ PageAt("shown") /\ bookPage.loading /\ gSnapshot.phase \in {"Ready", "Error"}
                     /\ gSnapshot.of.book = bookPage.of.book
                     /\ bookPage' = [bookPage EXCEPT !.loading = FALSE, !.detail = gSnapshot.result]
                     /\ recent' = [recent EXCEPT ![bookPage.of.book] =
                                     IF gSnapshot.cover = None THEN @ ELSE gSnapshot.cover]
                     /\ UNCHANGED <<handed, gDetailCancel, visits>>

(* openToc: cancelDetailLoading, and the page stays.                        *)
OpenToc == /\ PageAt("shown") /\ bookPage.loading /\ gDetailCancel' = TRUE
           /\ bookPage' = [bookPage EXCEPT !.loading = FALSE]
           /\ UNCHANGED <<handed, recent, visits>>

(* onExit: cancelDetailLoading.                                             *)
LeavePage == /\ PageAt("shown") /\ bookPage' = Away
             /\ gDetailCancel' = (gDetailCancel \/ bookPage.loading)
             /\ UNCHANGED <<handed, recent, visits>>
-----------------------------------------------------------------------------
(* The worker task.                                                         *)

In(s) == job.step = s
JobStep(s) == job' = [job EXCEPT !.step = s]
JobKeeps == UNCHANGED <<gDetailCancel, gRequest, bookPage, recent, visits>>

Take == /\ In("take") /\ job' = [job EXCEPT !.step = "fetch", !.of = gRequest]
        /\ UNCHANGED <<gBusy, gSnapshot>> /\ JobKeeps

FetchDetail == /\ In("fetch")
               /\ \E r \in {job.of, None} : job' = [job EXCEPT !.step = "settle", !.result = r]
               /\ UNCHANGED <<gBusy, gSnapshot>> /\ JobKeeps

(* waitForCoverSettle.                                                      *)
Settle == /\ In("settle") /\ JobStep(IF gDetailCancel THEN "publish" ELSE "cover")
          /\ UNCHANGED <<gBusy, gSnapshot>> /\ JobKeeps

Cover == /\ In("cover")
         /\ \E c \in {None} \cup {job.of.book : g \in {x \in {gDetailCancel} : ~x}} :
              job' = [job EXCEPT !.step = "publish", !.cover = c]
         /\ UNCHANGED <<gBusy, gSnapshot>> /\ JobKeeps

(* Mutant: the worker is free before its result is out. *)
ReleaseFirst == /\ \/ In("publish") /\ gBusy' = FALSE /\ JobStep("release") /\ UNCHANGED gSnapshot
                   \/ In("release") /\ publish(job.result, job.cover) /\ job' = NoJob /\ UNCHANGED gBusy
                /\ JobKeeps

Publish == /\ \/ In("publish") /\ publish(job.result, job.cover) /\ JobStep("release") /\ UNCHANGED gBusy
              \/ In("release") /\ gBusy' = FALSE /\ job' = NoJob /\ UNCHANGED gSnapshot
           /\ JobKeeps

Job == Take \/ FetchDetail \/ Settle \/ Cover \/ Publish

StartDetail == Claim \/ UncancelJob \/ Prepare \/ CreateTask \/ CreateFailed

DetailNext == Job \/ StartDetail \/ pollDetailLoading \/ OpenToc \/ LeavePage \/ \E b \in Books : Enter(b)

(* Connections time out, and the UI task's loop goes on.                    *)
DetailSpec == /\ DetailInit /\ [][DetailNext]_detailVars
              /\ WF_detailVars(Job) /\ WF_detailVars(StartDetail) /\ WF_detailVars(pollDetailLoading)
-----------------------------------------------------------------------------
Held == Requests \cup {None}

SnapshotOK == gSnapshot \in [phase : {"Idle", "Loading", "Ready", "Error"}, of : Held,
                             result : Held, cover : Books \cup {None}]

JobOK == job \in [step : {"none", "take", "fetch", "settle", "cover", "publish", "release"},
                  of : Held, result : Held, cover : Books \cup {None}]

PageOK == bookPage \in [step : {"none", "start", "claimed", "clear", "prepared", "failed", "shown"},
                        of : Held, loading : BOOLEAN, detail : Held]

TypeOK == /\ gBusy \in BOOLEAN /\ gDetailCancel \in BOOLEAN /\ gRequest \in Held
          /\ SnapshotOK /\ JobOK /\ PageOK
          /\ recent \in [Books -> Books \cup {None}] /\ visits \in 0..MaxVisits
          /\ job.step # "none" => gBusy

(* The snapshot's result is that of the request its ids name, although the  *)
(* job that answers may have been cancelled and its page left, and another  *)
(* page may start the next one at any moment.                               *)
SnapshotIsOwn == gSnapshot.result # None => gSnapshot.result = gSnapshot.of

(* A page shows only what its own visit asked for, and a book keeps only    *)
(* its own cover: ids that match are enough, also when the same book is     *)
(* entered again before its earlier job is over.                            *)
PageIsOwn == /\ bookPage.detail # None => bookPage.detail = bookPage.of
             /\ \A b \in Books : recent[b] \in {b, None}

(* The page stops waiting: for an answer, for a task that was not created,  *)
(* or at once when another book's job is still there.                       *)
DetailEnds == bookPage.loading ~> ~bookPage.loading
=============================================================================
