------------------------- MODULE ProviderProofs -------------------------
(* What is proved of the provider.  Of NativeProvider: the cache keeps a    *)
(* body with its marker whole, on any card but one that fails to rename and *)
(* to remove in the same run (there a copy that was cut short stays beside  *)
(* the marker of the body it replaced); every chapter that is Fetching has  *)
(* somebody to fetch it; and the body under the reader is whole.  Of        *)
(* BookDetail: whose result the snapshot holds and the page shows.          *)
EXTENDS NativeProvider, BookDetail, WellFoundedInduction, SequenceTheorems, TLAPS

-----------------------------------------------------------------------------
(* The cache.  Neither the queue nor the statuses are needed for it: the    *)
(* marker goes before the body changes, and comes back only after it is     *)
(* whole.                                                                   *)
Files == [part : Bodies, body : Bodies, ok : BOOLEAN]
WorkerIsRecord == worker = [step |-> worker.step, chapter |-> worker.chapter, attempt |-> worker.attempt]
NeverBoth == ~({"remove", "rename"} \subseteq faults)

(* Steps of a commit between the marker's removal and the body being whole. *)
Changing == {"drop", "rename", "copy", "copied"}

(* The files of a chapter the worker is at step s with: where removal works *)
(* the marker is off while the body changes; where it may fail, renames do  *)
(* not, and no body is ever copied in place.                                *)
Sound(f, s) ==
  /\ f.ok \/ s = "mark" => f.body # "partial"
  /\ "remove" \notin faults /\ s \in Changing => ~f.ok
  /\ "remove" \in faults => /\ f.body # "partial" /\ s # "copied"
                            /\ s = "copy" => f.part # "whole"

Kept(c) == Sound(card[c], "poll") /\ (wc = c => Sound(card[c], worker.step))

CacheInv == /\ card \in [Chapters -> Files] /\ WorkerIsRecord /\ NeverBoth
            /\ \A c \in Chapters : Kept(c)

-----------------------------------------------------------------------------
LEMMA RemovedBody ==
  ASSUME NEW f \in Files, NEW x \in Removed(f, "body", "none")
  PROVE  /\ x \in Files /\ x.part = f.part /\ x.ok = f.ok
         /\ x.body = "none" \/ ("remove" \in faults /\ x = f)
BY DEF Removed, Files, Bodies, MayFail

LEMMA RemovedPart ==
  ASSUME NEW f \in Files, NEW x \in Removed(f, "part", "none")
  PROVE  /\ x \in Files /\ x.body = f.body /\ x.ok = f.ok
         /\ x.part = "none" \/ x = f
BY DEF Removed, Files, Bodies, MayFail

LEMMA RemovedMarker ==
  ASSUME NEW f \in Files, NEW x \in Removed(f, "ok", FALSE)
  PROVE  /\ x \in Files /\ x.part = f.part /\ x.body = f.body
         /\ x.ok = FALSE \/ ("remove" \in faults /\ x = f)
BY DEF Removed, Files, MayFail

LEMMA StepTo ==
  ASSUME WorkerIsRecord, NEW s, Step(s)
  PROVE  /\ worker'.step = s /\ worker'.chapter = worker.chapter /\ WorkerIsRecord'
BY DEF WorkerIsRecord, Step

(* A file group is replaced at one chapter only. *)
LEMMA SetAt ==
  ASSUME card \in [Chapters -> Files], NEW k, NEW f, k \in Chapters => f \in Files,
         card' = [card EXCEPT ![k] = f]
  PROVE  /\ card' \in [Chapters -> Files]
         /\ \A c \in Chapters : card'[c] = IF c = k THEN f ELSE card[c]
OBVIOUS

(* Files of chapter c may go, never come.                                   *)
Shrinks(c) == /\ card'[c].body \in {card[c].body, "none"}
              /\ card'[c].part \in {card[c].part, "none"}
              /\ card'[c].ok => card[c].ok

LEMMA BodyCleared ==
  ASSUME card \in [Chapters -> Files], NEW k, ClearBody(k)
  PROVE  /\ card' \in [Chapters -> Files]
         /\ \A c \in Chapters : Shrinks(c)
         /\ k \in Chapters => card'[k].body = "none" \/ "remove" \in faults
<1>1. PICK f \in Removed(card[k], "body", "none") : card' = [card EXCEPT ![k] = f]
  BY DEF ClearBody, SetCard
<1>2. k \in Chapters => /\ f \in Files /\ f.part = card[k].part /\ f.ok = card[k].ok
                        /\ f.body = "none" \/ ("remove" \in faults /\ f = card[k])
  BY RemovedBody
<1>3. card' \in [Chapters -> Files] /\ \A c \in Chapters : card'[c] = IF c = k THEN f ELSE card[c]
  BY <1>1, <1>2, SetAt
<1> QED
  BY <1>2, <1>3 DEF Shrinks

LEMMA PartCleared ==
  ASSUME card \in [Chapters -> Files], NEW k, ClearPart(k)
  PROVE  card' \in [Chapters -> Files] /\ \A c \in Chapters : Shrinks(c)
<1>1. PICK f \in Removed(card[k], "part", "none") : card' = [card EXCEPT ![k] = f]
  BY DEF ClearPart, SetCard
<1>2. k \in Chapters => /\ f \in Files /\ f.body = card[k].body /\ f.ok = card[k].ok
                        /\ f.part = "none" \/ f = card[k]
  BY RemovedPart
<1>3. card' \in [Chapters -> Files] /\ \A c \in Chapters : card'[c] = IF c = k THEN f ELSE card[c]
  BY <1>1, <1>2, SetAt
<1> QED
  BY <1>2, <1>3 DEF Shrinks

LEMMA MarkerCleared ==
  ASSUME card \in [Chapters -> Files], NEW k, ClearMarker(k)
  PROVE  /\ card' \in [Chapters -> Files]
         /\ \A c \in Chapters : Shrinks(c)
         /\ k \in Chapters => card'[k].ok = FALSE \/ "remove" \in faults
<1>1. PICK f \in Removed(card[k], "ok", FALSE) : card' = [card EXCEPT ![k] = f]
  BY DEF ClearMarker, SetCard
<1>2. k \in Chapters => /\ f \in Files /\ f.part = card[k].part /\ f.body = card[k].body
                        /\ f.ok = FALSE \/ ("remove" \in faults /\ f = card[k])
  BY RemovedMarker
<1>3. card' \in [Chapters -> Files] /\ \A c \in Chapters : card'[c] = IF c = k THEN f ELSE card[c]
  BY <1>1, <1>2, SetAt
<1> QED
  BY <1>2, <1>3 DEF Shrinks

(* A removal by either task disturbs nothing: the worker is where it was in *)
(* a commit, of that chapter or another, or in none.                        *)
Committing == Changing \cup {"mark"}

LEMMA ShrinkKeeps ==
  ASSUME CacheInv, card' \in [Chapters -> Files], WorkerIsRecord', UNCHANGED faults,
         \A c \in Chapters : Shrinks(c),
         worker' = worker \/ worker'.step \notin Committing
  PROVE  CacheInv'
<1> SUFFICES ASSUME NEW c \in Chapters
             PROVE  Kept(c)'
  BY DEF CacheInv, NeverBoth
<1>1. Kept(c) /\ Shrinks(c)
  BY DEF CacheInv
<1>2. CASE worker' = worker
  BY <1>1, <1>2 DEF Kept, Sound, Shrinks, wc
<1>3. CASE worker'.step \notin Committing
  BY <1>1, <1>3 DEF Kept, Sound, Shrinks, wc, Committing, Changing
<1> QED
  BY <1>2, <1>3

LEMMA SameCard ==
  ASSUME UNCHANGED card, NEW c
  PROVE  Shrinks(c)
BY DEF Shrinks

-----------------------------------------------------------------------------
(* The worker's commit: the files of its chapter become f, and its step the *)
(* one those files are sound at.                                            *)
LEMMA CommitKeeps ==
  ASSUME CacheInv, NEW f, NEW s, Step(s), UNCHANGED faults, card' = [card EXCEPT ![wc] = f],
         wc \in Chapters => f \in Files /\ Sound(f, s)
  PROVE  CacheInv'
<1>1. card \in [Chapters -> Files] /\ WorkerIsRecord
  BY DEF CacheInv
<1>2. card' \in [Chapters -> Files] /\ \A c \in Chapters : card'[c] = IF c = wc THEN f ELSE card[c]
  BY <1>1, SetAt
<1>3. worker'.step = s /\ wc' = wc /\ WorkerIsRecord'
  BY <1>1, StepTo DEF wc
<1>4. ASSUME NEW c \in Chapters
      PROVE  Kept(c)'
  BY <1>2, <1>3, <1>4 DEF CacheInv, Kept, Sound, Changing
<1> QED
  BY <1>2, <1>3, <1>4 DEF CacheInv, NeverBoth

(* The same where the files stay. *)
LEMMA StayKeeps ==
  ASSUME CacheInv, NEW s, Step(s), UNCHANGED <<faults, card>>,
         wc \in Chapters => Sound(card[wc], s)
  PROVE  CacheInv'
<1>1. card' = [card EXCEPT ![wc] = card[wc]] /\ (wc \in Chapters => card[wc] \in Files)
  BY DEF CacheInv
<1> QED
  BY <1>1, CommitKeeps

LEMMA SoundNow ==
  ASSUME CacheInv, wc \in Chapters
  PROVE  card[wc] \in Files /\ Sound(card[wc], "poll") /\ Sound(card[wc], worker.step)
BY DEF CacheInv, Kept

LEMMA FetchKeeps == ASSUME CacheInv, Fetch PROVE CacheInv'
<1>1. card' = [card EXCEPT ![wc] = [card[wc] EXCEPT !.part = "partial"]] /\ Step("body") /\ UNCHANGED faults
  BY DEF Fetch, fate
<1>2. wc \in Chapters => /\ [card[wc] EXCEPT !.part = "partial"] \in Files
                         /\ Sound([card[wc] EXCEPT !.part = "partial"], "body")
  BY SoundNow DEF Files, Bodies, Sound, Changing
<1> QED
  BY <1>1, <1>2, CommitKeeps

LEMMA BodyKeeps == ASSUME CacheInv, BodyWhole PROVE CacheInv'
<1>1. card' = [card EXCEPT ![wc] = [card[wc] EXCEPT !.part = "whole"]] /\ Step("unmark") /\ UNCHANGED faults
  BY DEF BodyWhole, fate
<1>2. wc \in Chapters => /\ [card[wc] EXCEPT !.part = "whole"] \in Files
                         /\ Sound([card[wc] EXCEPT !.part = "whole"], "unmark")
  BY SoundNow DEF Files, Bodies, Sound, Changing
<1> QED
  BY <1>1, <1>2, CommitKeeps

LEMMA BrokenKeeps == ASSUME CacheInv, BodyBroken PROVE CacheInv'
<1>1. PICK f \in Removed(card[wc], "part", "none") : card' = [card EXCEPT ![wc] = f]
  BY DEF BodyBroken, ClearPart, SetCard
<1>2. Step("error") /\ UNCHANGED faults
  BY DEF BodyBroken, fate
<1>3. wc \in Chapters => f \in Files /\ Sound(f, "error")
  BY <1>1, SoundNow, RemovedPart DEF Sound, Changing
<1> QED
  BY <1>1, <1>2, <1>3, CommitKeeps

LEMMA UnmarkKeeps == ASSUME CacheInv, Unmark PROVE CacheInv'
<1>0. UNCHANGED faults
  BY DEF Unmark, fate
<1>1. CASE ClearMarker(wc) /\ Step("drop")
  <2>1. PICK f \in Removed(card[wc], "ok", FALSE) : card' = [card EXCEPT ![wc] = f]
    BY <1>1 DEF ClearMarker, SetCard
  <2>2. wc \in Chapters => f \in Files /\ Sound(f, "drop")
    BY <2>1, SoundNow, RemovedMarker DEF Sound, Changing
  <2> QED
    BY <1>0, <1>1, <2>1, <2>2, CommitKeeps
<1>2. CASE UNCHANGED card /\ Step("failed")
  BY <1>0, <1>2, SoundNow, StayKeeps DEF Sound, Changing
<1> QED
  BY <1>1, <1>2 DEF Unmark

LEMMA DropKeeps == ASSUME CacheInv, DropOld PROVE CacheInv'
<1>0. UNCHANGED faults /\ At("drop")
  BY DEF DropOld, fate
<1>1. CASE card[wc].body = "whole" /\ Step("mark") /\ UNCHANGED card
  BY <1>0, <1>1, SoundNow, StayKeeps DEF Sound, Changing
<1>2. CASE Step("failed") /\ UNCHANGED card
  BY <1>0, <1>2, SoundNow, StayKeeps DEF Sound, Changing
<1>3. CASE ClearBody(wc) /\ Step(IF card'[wc].body = "none" THEN "rename" ELSE "failed")
  <2>1. PICK f \in Removed(card[wc], "body", "none") : card' = [card EXCEPT ![wc] = f]
    BY <1>3 DEF ClearBody, SetCard
  <2>2. PICK s \in {"rename", "failed"} : Step(s)
    BY <1>3
  <2>3. wc \in Chapters => f \in Files /\ Sound(f, s)
    <3>1. wc \in Chapters => /\ card[wc] \in Files /\ Sound(card[wc], "poll") /\ Sound(card[wc], "drop")
      BY <1>0, SoundNow DEF At
    <3> QED
      BY <2>1, <2>2, <3>1, RemovedBody DEF Sound, Changing
  <2> QED
    BY <1>0, <2>1, <2>2, <2>3, CommitKeeps
<1> QED
  BY <1>1, <1>2, <1>3 DEF DropOld

LEMMA RenameKeeps == ASSUME CacheInv, Rename PROVE CacheInv'
<1>0. UNCHANGED faults /\ At("rename") /\ (wc \in Chapters => Sound(card[wc], "rename"))
  BY SoundNow DEF Rename, fate, At
<1>1. CASE Step("mark") /\ card' = [card EXCEPT ![wc].part = "none", ![wc].body = "whole"]
  <2> DEFINE f == [card[wc] EXCEPT !.part = "none", !.body = "whole"]
  <2>1. card' = [card EXCEPT ![wc] = f]
    BY <1>1 DEF CacheInv
  <2>2. wc \in Chapters => f \in Files /\ Sound(f, "mark")
    BY SoundNow DEF Files, Bodies, Sound, Changing
  <2> QED
    BY <1>0, <1>1, <2>1, <2>2, CommitKeeps
<1>2. CASE (card[wc].part # "whole" \/ MayFail("rename")) /\ Step("copy") /\ UNCHANGED card
  <2>1. wc \in Chapters => Sound(card[wc], "copy")
    BY <1>0, <1>2 DEF Sound, Changing, MayFail, CacheInv, NeverBoth
  <2> QED
    BY <1>0, <1>2, <2>1, StayKeeps
<1> QED
  BY <1>1, <1>2 DEF Rename

LEMMA CopyKeeps == ASSUME CacheInv, Copy PROVE CacheInv'
<1>0. UNCHANGED faults /\ (wc \in Chapters => Sound(card[wc], "copy"))
  BY SoundNow DEF Copy, fate, At
<1>1. CASE /\ card[wc].part = "whole" /\ Step("copied")
           /\ card' = [card EXCEPT ![wc].body = "partial"]
  <2> DEFINE f == [card[wc] EXCEPT !.body = "partial"]
  <2>1. card' = [card EXCEPT ![wc] = f]
    BY <1>1
  <2>2. wc \in Chapters => f \in Files /\ Sound(f, "copied")
    BY <1>0, <1>1, SoundNow DEF Files, Bodies, Sound, Changing
  <2> QED
    BY <1>0, <1>1, <2>1, <2>2, CommitKeeps
<1>2. CASE Step("failed") /\ UNCHANGED card
  BY <1>0, <1>2, SoundNow, StayKeeps DEF Sound, Changing
<1> QED
  BY <1>1, <1>2 DEF Copy

LEMMA CopiedKeeps == ASSUME CacheInv, Copied PROVE CacheInv'
<1>0. UNCHANGED faults /\ (wc \in Chapters => card[wc] \in Files /\ Sound(card[wc], "copied"))
  BY SoundNow DEF Copied, fate, At
<1>1. CASE SetCard(wc, Removed([card[wc] EXCEPT !.body = "whole"], "part", "none")) /\ Step("mark")
  <2> DEFINE w == [card[wc] EXCEPT !.body = "whole"]
  <2>1. PICK f \in Removed(w, "part", "none") : card' = [card EXCEPT ![wc] = f]
    BY <1>1 DEF SetCard
  <2>2. wc \in Chapters => w \in Files /\ w.body = "whole"
    BY <1>0 DEF Files, Bodies
  <2>3. wc \in Chapters => f \in Files /\ f.body = "whole"
    BY <2>1, <2>2, RemovedPart
  <2>4. wc \in Chapters => Sound(f, "mark")
    BY <1>0, <2>3 DEF Sound, Changing
  <2> QED
    BY <1>0, <1>1, <2>1, <2>3, <2>4, CommitKeeps
<1>2. CASE ClearBody(wc) /\ Step("failed")
  <2>1. PICK f \in Removed(card[wc], "body", "none") : card' = [card EXCEPT ![wc] = f]
    BY <1>2 DEF ClearBody, SetCard
  <2>2. wc \in Chapters => f \in Files /\ Sound(f, "failed")
    BY <1>0, <2>1, RemovedBody DEF Sound, Changing
  <2> QED
    BY <1>0, <1>2, <2>1, <2>2, CommitKeeps
<1> QED
  BY <1>1, <1>2 DEF Copied

LEMMA MarkKeeps == ASSUME CacheInv, Mark \/ MarkFails PROVE CacheInv'
<1>0. UNCHANGED faults /\ (wc \in Chapters => card[wc] \in Files /\ Sound(card[wc], "mark"))
  BY SoundNow DEF Mark, MarkFails, fate, At
<1>1. PICK s \in {"ready", "failed"}, m \in BOOLEAN : Step(s) /\ card' = [card EXCEPT ![wc].ok = m]
  BY DEF Mark, MarkFails
<1> DEFINE f == [card[wc] EXCEPT !.ok = m]
<1>2. card' = [card EXCEPT ![wc] = f]
  BY <1>1
<1>3. wc \in Chapters => f \in Files /\ Sound(f, s)
  BY <1>0, <1>1 DEF Files, Sound, Changing
<1> QED
  BY <1>0, <1>1, <1>2, <1>3, CommitKeeps

-----------------------------------------------------------------------------
(* The rest of the worker, and the UI task. *)

LEMMA RestKeeps ==
  ASSUME CacheInv, Poll \/ Idle \/ Check \/ Start \/ Uncancel \/ Failed \/ End
  PROVE  CacheInv'
<1>1. UNCHANGED <<faults, card>> /\ worker'.step \notin Committing /\ WorkerIsRecord'
  BY DEF CacheInv, WorkerIsRecord, Poll, Idle, Check, Start, Uncancel, Failed, End, Step,
         NextWork, Off,
     Committing, Changing, fate
<1> QED
  BY <1>1, SameCard, ShrinkKeeps DEF CacheInv

LEMMA AgainKeeps == ASSUME CacheInv, Again PROVE CacheInv'
<1>0. card \in [Chapters -> Files] /\ WorkerIsRecord
  BY DEF CacheInv
<1>1. card' \in [Chapters -> Files] /\ \A c \in Chapters : Shrinks(c)
  BY <1>0, BodyCleared, PartCleared, MarkerCleared DEF Again
<1>2. UNCHANGED faults /\ worker'.step \notin Committing /\ WorkerIsRecord'
  BY <1>0 DEF WorkerIsRecord, Again, Step, Committing, Changing, fate
<1> QED
  BY <1>1, <1>2, ShrinkKeeps

LEMMA WorkerKeeps == ASSUME CacheInv, Worker PROVE CacheInv'
BY FetchKeeps, BodyKeeps, BrokenKeeps, UnmarkKeeps, DropKeeps, RenameKeeps, CopyKeeps, CopiedKeeps,
   MarkKeeps, RestKeeps, AgainKeeps DEF Worker

(* Only the retry touches the card, and it removes.  Starting the worker    *)
(* puts it at its first step.                                               *)
LEMMA UiSteps ==
  ASSUME Ui, CacheInv
  PROVE  /\ UNCHANGED faults
         /\ card' \in [Chapters -> Files] /\ \A c \in Chapters : Shrinks(c)
         /\ worker' = worker \/ worker' = [Off EXCEPT !.step = "poll"]
<1>0. card \in [Chapters -> Files]
  BY DEF CacheInv
<1>1. CASE Invalidate
  BY <1>0, <1>1, BodyCleared, PartCleared, MarkerCleared, SameCard DEF Invalidate, fate, tasks
<1>2. CASE Kick
  BY <1>0, <1>2, SameCard DEF Kick, fate, tasks
<1>3. CASE UNCHANGED <<fate, tasks, card>>
  BY <1>0, <1>3, SameCard DEF fate, tasks
<1>4. ASSUME NEW c \in Chapters, Tap(c) \/ Switch(c) \/ Pick(c)
      PROVE  UNCHANGED <<fate, tasks, card>>
  BY <1>4 DEF Tap, Switch, Pick, Choose, tasks
<1>5. CASE Leave \/ Settled \/ Prefetch \/ Advance \/ OpenReady \/ TimedOut \/ CancelLoading \/ Retry
  BY <1>3, <1>5 DEF Leave, Settled, Prefetch, Advance, OpenReady, TimedOut, CancelLoading, Retry
<1>6. CASE Read \/ Reset \/ AskUncancel \/ requestPrefetch \/ Invalidated \/ ChooseAgain
  BY <1>3, <1>6 DEF Read, Reset, AskUncancel, requestPrefetch, Invalidated, ChooseAgain, Choose
<1> QED
  BY <1>1, <1>2, <1>3, <1>4, <1>5, <1>6 DEF Ui, Call

LEMMA UiKeeps == ASSUME CacheInv, Ui PROVE CacheInv'
<1>1. worker' = worker \/ worker'.step \notin Committing
  BY UiSteps DEF Off, Committing, Changing
<1>2. WorkerIsRecord'
  BY UiSteps DEF CacheInv, WorkerIsRecord, Off
<1> QED
  BY <1>1, <1>2, UiSteps, ShrinkKeeps

LEMMA CutKeeps == ASSUME CacheInv, Cut PROVE CacheInv'
<1>1. UNCHANGED <<faults, card>> /\ worker' = Off
  BY DEF Cut, PowerCut
<1>2. WorkerIsRecord' /\ worker'.step \notin Committing
  BY <1>1 DEF WorkerIsRecord, Off, Committing, Changing
<1> QED
  BY <1>1, <1>2, SameCard, ShrinkKeeps DEF CacheInv

LEMMA StutterKeeps == ASSUME CacheInv, UNCHANGED vars PROVE CacheInv'
BY DEF vars, fate, tasks, CacheInv, WorkerIsRecord, NeverBoth, Kept, Sound, wc

LEMMA CacheInit ==
  ASSUME \A f \in Fates : ~({"remove", "rename"} \subseteq f.faults), Init
  PROVE  CacheInv
<1>1. card = [c \in Chapters |-> NoFiles] /\ NoFiles \in Files /\ worker = Off
  BY DEF Init, RamInit, NoFiles, Files, Bodies
<1>2. NeverBoth
  BY DEF Init, FateInit, NeverBoth
<1> QED
  BY <1>1, <1>2 DEF CacheInv, WorkerIsRecord, Off, Kept, Sound, Changing, NoFiles

(* Whatever fails on the card, but for removal and rename both, however     *)
(* often power is cut, and however requests, retries and the worker's       *)
(* commits interleave: a chapter's body beside its marker, which the next   *)
(* start trusts, is whole.                                                  *)
THEOREM CacheSafe ==
  ASSUME \A f \in Fates : ~({"remove", "rename"} \subseteq f.faults)
  PROVE  Spec => []CachedIsWhole
<1>1. Init => CacheInv
  BY CacheInit
<1>2. CacheInv /\ [Next]_vars => CacheInv'
  BY WorkerKeeps, UiKeeps, CutKeeps, StutterKeeps DEF Next
<1>3. CacheInv => CachedIsWhole
  <2> SUFFICES ASSUME CacheInv, NEW c \in Chapters, card[c].ok, card[c].body # "none"
               PROVE  card[c].body = "whole"
    BY DEF CachedIsWhole
  <2>1. card[c].body \in Bodies /\ card[c].body # "partial"
    BY DEF CacheInv, Kept, Sound, Files
  <2> QED
    BY <2>1 DEF Bodies
<1> QED
  BY <1>1, <1>2, <1>3, PTL DEF Spec

-----------------------------------------------------------------------------
(* The queue.  What is left of induction without schemas: a set of naturals *)
(* with a member has a least one.                                           *)
LEMMA LeastOf ==
  ASSUME NEW T, T \subseteq Nat, T # {}
  PROVE  \E x \in T : \A y \in T : x <= y
<1>1. \E x \in T : \A y \in T : <<y, x>> \notin OpToRel(<, Nat)
  BY NatLessThanWellFounded, WFMin
<1>2. PICK x \in T : \A y \in T : <<y, x>> \notin OpToRel(<, Nat)
  BY <1>1
<1>3. ASSUME NEW y \in T PROVE x <= y
  <2>1. <<y, x>> \in OpToRel(<, Nat) <=> (<<y, x>> \in Nat \X Nat /\ <<y, x>>[1] < <<y, x>>[2])
    BY Zenon DEF OpToRel
  <2>2. ~(y < x)
    <3> DEFINE R == OpToRel(<, Nat)
    <3>1. <<y, x>> \in R <=> (<<y, x>> \in Nat \X Nat /\ <<y, x>>[1] < <<y, x>>[2])
      BY <2>1, Zenon
    <3>2. <<y, x>> \notin R
      BY <1>2
    <3> HIDE DEF R
    <3> QED
      BY <3>1, <3>2
  <2> QED
    BY <2>2
<1> QED
  BY <1>3

(* f keeps the first n of q's requests but those for c. *)
KeepsTo(f, q, c, n) ==
  f = [i \in 0..n |-> IF i = 0 THEN <<>>
                      ELSE IF q[i] = c THEN f[i - 1] ELSE Append(f[i - 1], q[i])]

LEMMA KeptExists ==
  ASSUME NEW q, NEW c, NEW n \in Nat
  PROVE  \E f : KeepsTo(f, q, c, n)
<1> DEFINE T == {m \in Nat : ~\E f : KeepsTo(f, q, c, m)}
<1> SUFFICES ASSUME T # {} PROVE FALSE
  OBVIOUS
<1>1. PICK m \in T : \A y \in T : m <= y
  BY LeastOf
<1>2. m # 0
  <2>1. KeepsTo([i \in 0..0 |-> <<>>], q, c, 0)
    BY DEF KeepsTo
  <2> QED
    BY <2>1, <1>1
<1>3. PICK f : KeepsTo(f, q, c, m - 1)
  BY <1>1, <1>2
<1> DEFINE g == [i \in 0..m |-> IF i < m THEN f[i] ELSE IF q[m] = c THEN f[m - 1] ELSE Append(f[m - 1], q[m])]
<1>4. KeepsTo(g, q, c, m)
  <2>1. \A i \in 0..(m-1) : f[i] = IF i = 0 THEN <<>> ELSE IF q[i] = c THEN f[i - 1] ELSE Append(f[i - 1], q[i])
    BY <1>3 DEF KeepsTo
  <2>2. ASSUME NEW i \in 0..m
        PROVE  g[i] = IF i = 0 THEN <<>> ELSE IF q[i] = c THEN g[i - 1] ELSE Append(g[i - 1], q[i])
    <3>1. CASE i < m
      BY <2>1, <3>1, <1>2
    <3>2. CASE i = m
      BY <3>2, <1>2
    <3> QED
      BY <3>1, <3>2
  <2> HIDE DEF g
  <2>3. g = [i \in 0..m |-> g[i]]
    BY DEF g
  <2> QED
    BY <2>2, <2>3 DEF KeepsTo
<1> QED
  BY <1>1, <1>4

LEMMA WithoutIs ==
  ASSUME NEW q, NEW c, Len(q) \in Nat
  PROVE  \E f : KeepsTo(f, q, c, Len(q)) /\ Without(q, c) = f[Len(q)]
<1>1. \E f : KeepsTo(f, q, c, Len(q))
  BY KeptExists
<1> QED
  BY <1>1 DEF KeepsTo, Without

(* Erasing c leaves every other entry of a sequence without duplicates, in  *)
(* a sequence without duplicates.                                           *)
NoTwice(q) == \A i, j \in DOMAIN q : i # j => q[i] # q[j]
InQ(q, x) == \E i \in DOMAIN q : q[i] = x

LEMMA WithoutProperties ==
  ASSUME NEW S, NEW q \in Seq(S), NoTwice(q), NEW c
  PROVE  /\ Without(q, c) \in Seq(S) /\ NoTwice(Without(q, c))
         /\ \A x : InQ(Without(q, c), x) <=> InQ(q, x) /\ x # c
<1>0. Len(q) \in Nat /\ DOMAIN q = 1..Len(q) /\ \A i \in 1..Len(q) : q[i] \in S
  BY LenProperties, ElementOfSeq
<1>1. PICK f : KeepsTo(f, q, c, Len(q)) /\ Without(q, c) = f[Len(q)]
  BY <1>0, WithoutIs
<1> DEFINE Good(n) == /\ f[n] \in Seq(S) /\ NoTwice(f[n])
                      /\ \A x : InQ(f[n], x) <=> x # c /\ \E i \in 1..n : q[i] = x
<1>2. f[0] = <<>> /\ \A i \in 1..Len(q) : f[i] = IF q[i] = c THEN f[i - 1] ELSE Append(f[i - 1], q[i])
  <2>1. \A i \in 0..Len(q) : f[i] = IF i = 0 THEN <<>>
                                    ELSE IF q[i] = c THEN f[i - 1] ELSE Append(f[i - 1], q[i])
    BY <1>1 DEF KeepsTo
  <2> QED
    BY <1>0, <2>1
<1>3. Good(0)
  BY <1>2 DEF NoTwice, InQ
<1>4. ASSUME NEW n \in 1..Len(q), Good(n - 1)
      PROVE  Good(n)
  <2> DEFINE p == f[n - 1]
  <2>0. p \in Seq(S) /\ NoTwice(p) /\ \A x : InQ(p, x) <=> x # c /\ \E i \in 1..(n - 1) : q[i] = x
    BY <1>4
  <2>1. CASE q[n] = c
    <3>1. f[n] = p
      BY <1>2, <2>1
    <3> QED
      BY <3>1, <2>0, <2>1, <1>0
  <2>2. CASE q[n] # c
    <3>1. f[n] = Append(p, q[n])
      BY <1>2, <2>2
    <3> HIDE DEF p
    <3>2. q[n] \in S /\ ~InQ(p, q[n])
      BY <1>0, <2>0 DEF NoTwice
    <3>3. Append(p, q[n]) \in Seq(S) /\ Len(Append(p, q[n])) = Len(p) + 1
      BY <2>0, <3>2, AppendProperties
    <3>4. /\ DOMAIN p = 1..Len(p) /\ DOMAIN Append(p, q[n]) = 1..(Len(p) + 1) /\ Len(p) \in Nat
          /\ \A i \in 1..Len(p) : Append(p, q[n])[i] = p[i]
          /\ Append(p, q[n])[Len(p) + 1] = q[n]
      BY <2>0, <3>2, <3>3, AppendProperties, LenProperties
    <3>5. NoTwice(Append(p, q[n]))
      BY <2>0, <3>2, <3>4 DEF NoTwice, InQ
    <3>6. \A x : InQ(Append(p, q[n]), x) <=> InQ(p, x) \/ x = q[n]
      BY <3>4 DEF InQ
    <3>7. \A x : (\E i \in 1..n : q[i] = x) <=> (\E i \in 1..(n - 1) : q[i] = x) \/ x = q[n]
      BY <1>0
    <3> QED
      BY <3>1, <3>3, <3>5, <3>6, <3>7, <2>0, <2>2
  <2> QED
    BY <2>1, <2>2
<1> HIDE DEF Good
<1> DEFINE T == {n \in 0..Len(q) : ~Good(n)}
<1>5. T = {}
  <2> SUFFICES ASSUME T # {} PROVE FALSE
    OBVIOUS
  <2>0. T \subseteq Nat
    BY <1>0
  <2>1. PICK n \in T : \A y \in T : n <= y
    <3> HIDE DEF T
    <3> QED
      BY <2>0, LeastOf
  <2>2. n \in 1..Len(q) /\ n - 1 \in 0..Len(q) /\ n - 1 \notin T
    BY <1>0, <1>3, <2>1
  <2> QED
    BY <1>4, <2>1, <2>2
<1>6. Good(Len(q))
  BY <1>0, <1>5
<1> QED
  BY <1>0, <1>1, <1>6 DEF Good, InQ

-----------------------------------------------------------------------------
(* The session: who answers for a chapter that is being fetched, and that a *)
(* chapter which is Ready is nobody's work.                                 *)
Statuses == {"Missing", "Fetching", "Ready", "Error"}

Typed == /\ status \in [Chapters -> Statuses] /\ queue \in Seq(Chapters)
         /\ WorkerIsRecord /\ wc \in Chapters
         /\ page \in [chapter : Chapters, timed : BOOLEAN]
         /\ call = [step |-> call.step, goal |-> call.goal, chapter |-> call.chapter, was |-> call.was]
         /\ call.chapter \in Chapters

Apart == \A c \in Chapters : status[c] = "Ready" => c \notin Queued /\ ~Busy(c)

SessionInv == Typed /\ FetchingIsWorked /\ Apart /\ (worker.step # "off" => gWorker)

LEMMA QueuedIs == \A c : (c \in Queued <=> InQ(queue, c)) /\ (c \in Queued' <=> InQ(queue', c))
BY DEF Queued, InQ

LEMMA ZeroIsChapter == 0 \in Chapters
BY BookAssumption DEF Chapters

Unworked == {"off", "poll", "idle"}

(* The worker goes on with the chapter it has, which may become Fetching.   *)
LEMMA WorkGoesOn ==
  ASSUME SessionInv, worker.step \notin Unworked, NEW s, s \notin Unworked, NEW a,
         worker' = [worker EXCEPT !.step = s, !.attempt = a],
         status' = status \/ status' = [status EXCEPT ![wc] = "Fetching"],
         UNCHANGED <<queue, gWorker>>
  PROVE  /\ status' \in [Chapters -> Statuses] /\ queue' \in Seq(Chapters)
         /\ WorkerIsRecord' /\ wc' \in Chapters
         /\ FetchingIsWorked' /\ Apart' /\ (worker'.step # "off" => gWorker')
<1>1. status' \in [Chapters -> Statuses] /\ queue' \in Seq(Chapters)
      /\ WorkerIsRecord' /\ wc' \in Chapters
  BY DEF SessionInv, Typed, Statuses, WorkerIsRecord, wc
<1>2. wc' = wc /\ worker'.step = s /\ gWorker'
  BY DEF SessionInv, Typed, WorkerIsRecord, wc, Unworked
<1>3. \A c \in Chapters : Busy(c)' <=> Busy(c)
  BY <1>2 DEF Busy, Unworked
<1>4. \A c \in Chapters : status'[c] = status[c] \/ (status'[c] = "Fetching" /\ Busy(c))
  BY DEF SessionInv, Typed, Busy, Unworked
<1>5. FetchingIsWorked'
  BY <1>3, <1>4 DEF SessionInv, FetchingIsWorked, Queued
<1>6. Apart'
  BY <1>3, <1>4 DEF SessionInv, Apart, Queued
<1> QED
  BY <1>1, <1>2, <1>5, <1>6

LEMMA SetIs ==
  ASSUME NEW c, NEW s, setChapterStatus(c, s)
  PROVE  status' = [status EXCEPT ![c] = s] /\ queue' = IF s = "Ready" THEN Without(queue, c) ELSE queue
BY DEF setChapterStatus

LEMMA FetchSession ==
  ASSUME SessionInv,
         Uncancel \/ Fetch \/ BodyWhole \/ BodyBroken \/ Unmark \/ DropOld \/ Rename \/ Copy \/ Copied
         \/ Mark \/ MarkFails \/ Failed \/ Again \/ Start \/ Check
  PROVE  SessionInv'
<1>1. worker.step \notin Unworked /\ UNCHANGED <<gWorker, page, call>>
  BY DEF Unworked, At, screen, Uncancel, Fetch, BodyWhole, BodyBroken, Unmark, DropOld, Rename,
         Copy, Copied,
         Mark, MarkFails, Failed, Again, Start, Check
<1>2. UNCHANGED session \/ setChapterStatus(wc, "Fetching")
  BY DEF Uncancel, Fetch, BodyWhole, BodyBroken, Unmark, DropOld, Rename, Copy, Copied,
         Mark, MarkFails, Failed, Again, Start, Check
<1>3. UNCHANGED queue /\ (status' = status \/ status' = [status EXCEPT ![wc] = "Fetching"])
  BY <1>2, SetIs DEF session
<1> DEFINE Goes(s, a) == s \notin Unworked /\ worker' = [worker EXCEPT !.step = s, !.attempt = a]
<1>4. \E s, a : Goes(s, a)
  <2>1. \A s : [worker EXCEPT !.step = s] = [worker EXCEPT !.step = s, !.attempt = worker.attempt]
    BY DEF SessionInv, Typed, WorkerIsRecord
  <2>2. (\E s : s \notin Unworked /\ Step(s)) => \E s, a : Goes(s, a)
    BY <2>1 DEF Step
  <2>3. CASE Again
    <3>1. CASE At("clearMarker") /\ worker' = [worker EXCEPT !.step = "fetch", !.attempt = 2]
      BY <3>1 DEF Unworked
    <3>2. CASE Step("clearPart") \/ Step("clearMarker")
      BY <2>2, <3>2 DEF Unworked
    <3> QED
      BY <2>3, <3>1, <3>2 DEF Again
  <2>4. CASE Uncancel \/ Fetch \/ BodyWhole \/ BodyBroken \/ Unmark \/ DropOld \/ Rename \/ Copy \/ Copied
    BY <2>2, <2>4 DEF Unworked, Uncancel, Fetch, BodyWhole, BodyBroken, Unmark, DropOld, Rename,
                      Copy, Copied
  <2>5. CASE Mark \/ MarkFails \/ Failed \/ Start \/ Check
    BY <2>2, <2>5 DEF Unworked, Mark, MarkFails, Failed, Start, Check
  <2> QED
    BY <2>3, <2>4, <2>5
<1>5. PICK s, a : Goes(s, a)
  BY <1>4
<1> QED
  BY <1>1, <1>3, <1>5, WorkGoesOn DEF SessionInv, Typed

(* Taking a request off the queue, or finding none. *)
LEMMA PollSession == ASSUME SessionInv, Poll PROVE SessionInv'
<1>1. At("poll") /\ UNCHANGED <<gWorker, page, call, status>> /\ status' \in [Chapters -> Statuses]
  BY DEF SessionInv, Typed, Poll, screen, session
<1>2. CASE queue = <<>> /\ Step("idle") /\ UNCHANGED queue
  <2>1. WorkerIsRecord' /\ wc' \in Chapters /\ worker'.step = "idle"
    BY <1>2 DEF SessionInv, Typed, Step, WorkerIsRecord, wc
  <2>2. \A c \in Chapters : ~Busy(c)' /\ ~Busy(c)
    BY <2>1, <1>1 DEF Busy, At
  <2> QED
    BY <1>1, <1>2, <2>1, <2>2 DEF SessionInv, Typed, FetchingIsWorked, Apart, Queued, At
<1>3. CASE /\ queue # <<>> /\ queue' = Tail(queue)
           /\ worker' = [step |-> "check", chapter |-> Head(queue), attempt |-> 1]
  <2>1. /\ Head(queue) \in Chapters /\ Tail(queue) \in Seq(Chapters) /\ Head(queue) = queue[1]
        /\ DOMAIN queue = 1..Len(queue) /\ DOMAIN Tail(queue) = 1..(Len(queue) - 1) /\ Len(queue) \in Nat \ {0}
        /\ \A i \in 1..(Len(queue) - 1) : Tail(queue)[i] = queue[i + 1]
    BY <1>3, HeadTailProperties, LenProperties, EmptySeq DEF SessionInv, Typed
  <2>2. WorkerIsRecord' /\ wc' \in Chapters /\ worker'.step = "check" /\ wc' = Head(queue)
    BY <1>3, <2>1 DEF wc, WorkerIsRecord
  <2>3. \A c : c \in Queued' => c \in Queued
    BY <2>1, <1>3, QueuedIs DEF InQ
  <2>4. \A c : c \in Queued => c \in Queued' \/ c = Head(queue)
    <3> SUFFICES ASSUME NEW i \in 1..Len(queue), i # 1 PROVE queue[i] \in Queued'
      BY <2>1, QueuedIs DEF InQ
    <3>1. i - 1 \in DOMAIN queue' /\ queue'[i - 1] = queue[i]
      BY <1>3, <2>1
    <3> QED
      BY <3>1 DEF Queued
  <2>5. Head(queue) \in Queued /\ Head(queue) \notin Queued'
    <3>1. \A i \in 1..(Len(queue) - 1) : queue[i + 1] # queue[1]
      BY <2>1 DEF SessionInv, FetchingIsWorked
    <3> QED
      BY <1>3, <2>1, <3>1, QueuedIs DEF InQ
  <2>6. \A c \in Chapters : ~Busy(c) /\ (Busy(c)' <=> c = Head(queue))
    BY <1>1, <2>2 DEF Busy, At
  <2>7. FetchingIsWorked'
    <3>1. \A i, j \in DOMAIN queue' : i # j => queue'[i] # queue'[j]
      BY <1>3, <2>1 DEF SessionInv, FetchingIsWorked
    <3> QED
      BY <1>1, <2>4, <2>6, <3>1 DEF SessionInv, FetchingIsWorked
  <2>8. Apart'
    BY <1>1, <2>3, <2>5, <2>6 DEF SessionInv, Apart
  <2> QED
    BY <1>1, <1>3, <2>1, <2>2, <2>7, <2>8 DEF SessionInv, Typed, At
<1> QED
  BY <1>2, <1>3 DEF Poll, session

LEMMA IdleSession == ASSUME SessionInv, Idle PROVE SessionInv'
<1>1. At("idle") /\ UNCHANGED <<page, call, status, queue>>
  BY DEF Idle, screen, session
<1>2. /\ WorkerIsRecord' /\ wc' \in Chapters /\ worker'.step \in {"poll", "off"}
      /\ worker'.step # "off" => gWorker'
  <2>1. CASE worker' = Off /\ gWorker' = FALSE
    BY <2>1, ZeroIsChapter DEF Off, WorkerIsRecord, wc
  <2>2. CASE Step("poll") /\ UNCHANGED gWorker
    BY <1>1, <2>2 DEF SessionInv, Typed, WorkerIsRecord, wc, Step, At
  <2> QED
    BY <2>1, <2>2 DEF Idle
<1>3. \A c \in Chapters : ~Busy(c) /\ ~Busy(c)'
  BY <1>1, <1>2 DEF Busy, At
<1> QED
  BY <1>1, <1>2, <1>3 DEF SessionInv, Typed, FetchingIsWorked, Apart, Queued

(* A chapter's status is set and, for Ready, its requests erased. *)
LEMMA Erased ==
  ASSUME SessionInv, NEW c
  PROVE  /\ Without(queue, c) \in Seq(Chapters)
         /\ \A i, j \in DOMAIN Without(queue, c) : i # j => Without(queue, c)[i] # Without(queue, c)[j]
         /\ \A x : InQ(Without(queue, c), x) <=> x \in Queued /\ x # c
<1>1. NoTwice(queue) /\ queue \in Seq(Chapters)
  BY DEF SessionInv, Typed, FetchingIsWorked, NoTwice
<1> QED
  BY <1>1, WithoutProperties, QueuedIs DEF NoTwice

LEMMA EndSession == ASSUME SessionInv, End PROVE SessionInv'
<1>1. UNCHANGED <<gWorker, page, call>> /\ NextWork /\ worker.step \notin Unworked /\ gWorker
  BY DEF End, screen, SessionInv, At, Unworked
<1>2. WorkerIsRecord' /\ wc' \in Chapters /\ worker'.step = "poll"
  BY <1>1, ZeroIsChapter DEF NextWork, Off, WorkerIsRecord, wc
<1>3. PICK s \in {"Ready", "Error"} : setChapterStatus(wc, s)
  BY DEF End
<1>4. wc \in Chapters /\ \A c \in Chapters : (Busy(c) => c = wc) /\ ~Busy(c)'
  BY <1>2 DEF SessionInv, Typed, Busy, wc
<1>5. status' \in [Chapters -> Statuses] /\ \A c \in Chapters : status'[c] = IF c = wc THEN s ELSE status[c]
  BY <1>3, <1>4, SetIs DEF SessionInv, Typed, Statuses
<1>6. /\ queue' \in Seq(Chapters) /\ \A i, j \in DOMAIN queue' : i # j => queue'[i] # queue'[j]
      /\ \A x : x \in Queued' <=> x \in Queued /\ (s = "Ready" => x # wc)
  <2>1. CASE s = "Ready"
    BY <1>3, <2>1, SetIs, Erased, QueuedIs
  <2>2. CASE s = "Error"
    BY <1>3, <2>2, SetIs DEF SessionInv, Typed, FetchingIsWorked, Queued
  <2> QED
    BY <2>1, <2>2
<1>7. FetchingIsWorked' /\ Apart'
  BY <1>4, <1>5, <1>6 DEF SessionInv, FetchingIsWorked, Apart
<1> QED
  BY <1>1, <1>2, <1>5, <1>6, <1>7 DEF SessionInv, Typed

LEMMA WorkerSession == ASSUME SessionInv, Worker PROVE SessionInv'
BY FetchSession, PollSession, IdleSession, EndSession DEF Worker

-----------------------------------------------------------------------------
(* The UI task's part in it. *)
ScreenTyped == /\ page \in [chapter : Chapters, timed : BOOLEAN]
               /\ call = [step |-> call.step, goal |-> call.goal, chapter |-> call.chapter, was |-> call.was]
               /\ call.chapter \in Chapters

LEMMA RestTyped ==
  /\ Rest = [step |-> Rest.step, goal |-> Rest.goal, chapter |-> Rest.chapter, was |-> Rest.was]
  /\ Rest.chapter \in Chapters /\ Rest.step = "none" /\ Rest.goal = "load"
BY ZeroIsChapter DEF Rest

LEMMA GoTyped ==
  ASSUME NEW s, NEW c \in Chapters, Go(s, c)
  PROVE  page' \in [chapter : Chapters, timed : BOOLEAN]
BY ZeroIsChapter DEF Go

LEMMA RestAt ==
  ASSUME NEW s, NEW c \in Chapters, NEW r, r = [Rest EXCEPT !.step = s, !.chapter = c]
  PROVE  /\ r = [step |-> r.step, goal |-> r.goal, chapter |-> r.chapter, was |-> r.was]
         /\ r.chapter = c /\ r.step = s
BY DEF Rest

(* A page and a call as Choose leaves them. *)
LEMMA ChooseTyped ==
  ASSUME NEW c \in Chapters, Choose(c)
  PROVE  ScreenTyped' /\ UNCHANGED <<session, tasks>>
<1>1. page' \in [chapter : Chapters, timed : BOOLEAN]
  BY GoTyped DEF Choose
<1>2. call' = Rest \/ call' = [Rest EXCEPT !.step = "settle", !.chapter = c]
  BY DEF Choose
<1>3. /\ call' = [step |-> call'.step, goal |-> call'.goal, chapter |-> call'.chapter, was |-> call'.was]
      /\ call'.chapter \in Chapters
  BY <1>2, RestAt, RestTyped
<1> QED
  BY <1>1, <1>3 DEF ScreenTyped, Choose

LEMMA ThenTyped ==
  ASSUME ScreenTyped, NEW s, Then(s)
  PROVE  /\ call' = [step |-> call'.step, goal |-> call'.goal, chapter |-> call'.chapter, was |-> call'.was]
         /\ call'.chapter = call.chapter /\ call'.step = s /\ call'.goal = call.goal
BY DEF ScreenTyped, Then

LEMMA DoneTyped ==
  ASSUME ScreenTyped, NEW queued, Done(queued)
  PROVE  ScreenTyped'
<1>1. /\ call' = [step |-> call'.step, goal |-> call'.goal, chapter |-> call'.chapter, was |-> call'.was]
      /\ call'.chapter \in Chapters
  <2>1. call' = Rest \/ call' = [Rest EXCEPT !.step = "choose", !.chapter = call.chapter]
    BY DEF Done
  <2> QED
    BY <2>1, RestAt, RestTyped DEF ScreenTyped
<1>2. page' \in [chapter : Chapters, timed : BOOLEAN]
  <2>1. \/ page' = [page EXCEPT !.timed = TRUE] \/ Go("Error", call.chapter) \/ UNCHANGED page
    BY DEF Done
  <2> QED
    BY <2>1, GoTyped DEF ScreenTyped
<1> QED
  BY <1>1, <1>2 DEF ScreenTyped

LEMMA UiTyped == ASSUME ScreenTyped, Ui PROVE ScreenTyped'
<1>1. ASSUME NEW c \in Chapters, Tap(c) \/ Switch(c) \/ Pick(c) PROVE ScreenTyped'
  BY <1>1, ChooseTyped, GoTyped DEF Tap, Switch, Pick, ScreenTyped
<1>2. CASE Leave
  BY <1>2, GoTyped, RestTyped DEF Leave, ScreenTyped
<1>3. CASE Settled \/ Prefetch \/ Advance
  BY <1>3 DEF Settled, Prefetch, Advance, Ask, ScreenTyped
<1>4. CASE OpenReady \/ TimedOut \/ CancelLoading
  BY <1>4, GoTyped DEF OpenReady, TimedOut, CancelLoading, ScreenTyped
<1>5. CASE Retry
  BY <1>5 DEF Retry, ScreenTyped, Rest
<1>6. CASE Read
  BY <1>6, ThenTyped, DoneTyped DEF Read, ScreenTyped
<1>7. CASE Reset \/ AskUncancel \/ requestPrefetch \/ Invalidate \/ Invalidated
  BY <1>7, ThenTyped DEF Reset, AskUncancel, requestPrefetch, Invalidate, Invalidated, ScreenTyped
<1>8. CASE Kick
  BY <1>8, DoneTyped DEF Kick
<1>9. CASE ChooseAgain
  BY <1>9, ChooseTyped DEF ChooseAgain, ScreenTyped
<1> QED
  BY <1>1, <1>2, <1>3, <1>4, <1>5, <1>6, <1>7, <1>8, <1>9 DEF Ui, Call

(* What the UI task does to the session: nothing, a chapter Missing, one    *)
(* that is Ready said to be so again, a request, or a worker.               *)
LEMMA UiSessionSteps ==
  ASSUME Ui
  PROVE  \/ UNCHANGED <<session, tasks>>
         \/ UNCHANGED tasks /\ setChapterStatus(call.chapter, "Missing")
         \/ UNCHANGED tasks /\ \E c \in Chapters : status[c] = "Ready" /\ setChapterStatus(c, "Ready")
         \/ UNCHANGED tasks /\ requestPrefetch
         \/ /\ UNCHANGED session
            /\ UNCHANGED tasks \/ (~gWorker /\ gWorker' = TRUE /\ worker' = [Off EXCEPT !.step = "poll"])
<1>1. ASSUME NEW c \in Chapters, Tap(c) \/ Pick(c) PROVE UNCHANGED <<session, tasks>>
  BY <1>1 DEF Tap, Pick, Choose
<1>2. ASSUME NEW c \in Chapters, Switch(c)
      PROVE  UNCHANGED tasks /\ status[c] = "Ready" /\ setChapterStatus(c, "Ready")
  BY <1>2 DEF Switch
<1>3. CASE Leave \/ Settled \/ Prefetch \/ Advance \/ OpenReady \/ TimedOut \/ CancelLoading \/ Retry
           \/ Read \/ AskUncancel \/ Invalidate \/ ChooseAgain
  BY <1>3 DEF Leave, Settled, Prefetch, Advance, OpenReady, TimedOut, CancelLoading, Retry,
              Read, AskUncancel, Invalidate, ChooseAgain, Choose
<1>4. CASE Reset \/ Invalidated
  BY <1>4 DEF Reset, Invalidated
<1>5. CASE requestPrefetch
  BY <1>5 DEF requestPrefetch
<1>6. CASE Kick
  BY <1>6 DEF Kick
<1> QED
  BY <1>1, <1>2, <1>3, <1>4, <1>5, <1>6 DEF Ui, Call

LEMMA MissingSession ==
  ASSUME SessionInv, NEW c, setChapterStatus(c, "Missing"), UNCHANGED tasks, ScreenTyped'
  PROVE  SessionInv'
<1>1. status' \in [Chapters -> Statuses] /\ UNCHANGED queue
      /\ \A k \in Chapters : status'[k] = IF k = c THEN "Missing" ELSE status[k]
  BY SetIs DEF SessionInv, Typed, Statuses
<1>2. FetchingIsWorked' /\ Apart'
  BY <1>1 DEF SessionInv, FetchingIsWorked, Apart, Queued, tasks, Busy, wc
<1> QED
  BY <1>1, <1>2 DEF SessionInv, Typed, ScreenTyped, tasks, WorkerIsRecord, wc

LEMMA ReadySession ==
  ASSUME SessionInv, NEW c \in Chapters, status[c] = "Ready", setChapterStatus(c, "Ready"),
         UNCHANGED tasks, ScreenTyped'
  PROVE  SessionInv' /\ UNCHANGED status
<1>1. status' \in [Chapters -> Statuses] /\ UNCHANGED status /\ queue' = Without(queue, c)
  BY SetIs DEF SessionInv, Typed
<1>2. /\ queue' \in Seq(Chapters) /\ \A i, j \in DOMAIN queue' : i # j => queue'[i] # queue'[j]
      /\ \A x : x \in Queued' <=> x \in Queued /\ x # c
  BY <1>1, Erased, QueuedIs
<1>3. FetchingIsWorked' /\ Apart'
  BY <1>1, <1>2 DEF SessionInv, FetchingIsWorked, Apart, tasks, Busy, wc
<1> QED
  BY <1>1, <1>2, <1>3 DEF SessionInv, Typed, ScreenTyped, tasks, WorkerIsRecord, wc

LEMMA RequestSession ==
  ASSUME SessionInv, requestPrefetch, UNCHANGED tasks, ScreenTyped'
  PROVE  SessionInv'
<1> DEFINE c == call.chapter
<1>0. c \in Chapters
  BY DEF SessionInv, Typed
<1>1. CASE UNCHANGED session
  BY <1>1 DEF session, SessionInv, Typed, ScreenTyped, tasks, WorkerIsRecord, wc,
              FetchingIsWorked, Apart, Queued, Busy
<1>2. CASE /\ status[c] # "Ready" /\ status' = [status EXCEPT ![c] = "Fetching"]
           /\ queue' = IF c \in Queued THEN queue ELSE Append(queue, c)
  <2>1. status' \in [Chapters -> Statuses] /\ \A k \in Chapters : status'[k] = IF k = c THEN "Fetching" ELSE status[k]
    BY <1>2 DEF SessionInv, Typed, Statuses
  <2>2. /\ queue' \in Seq(Chapters) /\ \A i, j \in DOMAIN queue' : i # j => queue'[i] # queue'[j]
        /\ \A x : x \in Queued' <=> x \in Queued \/ x = c
    <3>1. CASE c \in Queued
      BY <1>2, <3>1 DEF SessionInv, Typed, FetchingIsWorked, Queued
    <3>2. CASE c \notin Queued
      <4>1. queue \in Seq(Chapters) /\ queue' = Append(queue, c)
        BY <1>2, <3>2 DEF SessionInv, Typed
      <4> HIDE DEF c
      <4>2. /\ queue' \in Seq(Chapters) /\ Len(queue) \in Nat
            /\ DOMAIN queue = 1..Len(queue) /\ DOMAIN queue' = 1..(Len(queue) + 1)
            /\ \A i \in 1..Len(queue) : queue'[i] = queue[i]
            /\ queue'[Len(queue) + 1] = c
        BY <1>0, <4>1, AppendProperties, LenProperties
      <4>3. \A i \in DOMAIN queue : queue[i] # c
        BY <3>2 DEF Queued
      <4>4. \A i, j \in DOMAIN queue' : i # j => queue'[i] # queue'[j]
        BY <4>2, <4>3 DEF SessionInv, FetchingIsWorked
      <4>5. \A x : InQ(queue', x) <=> InQ(queue, x) \/ x = c
        BY <4>2 DEF InQ
      <4> QED
        BY <4>2, <4>4, <4>5, QueuedIs
    <3> QED
      BY <3>1, <3>2
  <2>3. FetchingIsWorked' /\ Apart'
    <3> HIDE DEF c
    <3> QED
      BY <1>2, <2>1, <2>2 DEF SessionInv, FetchingIsWorked, Apart, tasks, Busy, wc
  <2> QED
    BY <2>1, <2>2, <2>3 DEF SessionInv, Typed, ScreenTyped, tasks, WorkerIsRecord, wc
<1> QED
  BY <1>1, <1>2 DEF requestPrefetch

LEMMA UiSession == ASSUME SessionInv, Ui PROVE SessionInv'
<1>1. ScreenTyped'
  BY UiTyped DEF SessionInv, Typed, ScreenTyped
<1>2. CASE UNCHANGED <<session, tasks>>
  BY <1>1, <1>2 DEF session, SessionInv, Typed, ScreenTyped, tasks, WorkerIsRecord, wc,
                    FetchingIsWorked, Apart, Queued, Busy
<1>3. CASE UNCHANGED session /\ ~gWorker /\ gWorker' = TRUE /\ worker' = [Off EXCEPT !.step = "poll"]
  <2>1. worker.step = "off" /\ worker'.step = "poll" /\ wc' \in Chapters /\ WorkerIsRecord'
    BY <1>3, ZeroIsChapter DEF SessionInv, Off, WorkerIsRecord, wc
  <2>2. \A c \in Chapters : ~Busy(c) /\ ~Busy(c)'
    BY <2>1 DEF Busy
  <2> QED
    BY <1>1, <1>3, <2>1, <2>2 DEF session, SessionInv, Typed, ScreenTyped, FetchingIsWorked,
         Apart, Queued
<1> QED
  BY <1>1, <1>2, <1>3, UiSessionSteps, MissingSession, ReadySession,
       RequestSession DEF SessionInv, Typed

LEMMA CutSession == ASSUME Cut PROVE SessionInv'
<1>1. /\ status' = [c \in Chapters |-> "Missing"] /\ queue' = <<>> /\ gWorker' = FALSE /\ worker' = Off
      /\ page' = [chapter |-> 0, timed |-> FALSE] /\ call' = Rest
  BY DEF Cut
<1>2. FetchingIsWorked' /\ Apart'
  BY <1>1 DEF FetchingIsWorked, Apart
<1> QED
  BY <1>1, <1>2, ZeroIsChapter, RestTyped DEF SessionInv, Typed, Statuses, WorkerIsRecord, Off, wc

LEMMA SessionStep == SessionInv /\ [Next]_vars => SessionInv'
<1>1. SessionInv /\ UNCHANGED vars => SessionInv'
  BY DEF vars, session, screen, tasks, SessionInv, Typed, WorkerIsRecord, wc, FetchingIsWorked,
         Apart, Queued, Busy
<1> QED
  BY <1>1, WorkerSession, UiSession, CutSession DEF Next

LEMMA InitSession == Init => SessionInv
<1> SUFFICES ASSUME Init PROVE SessionInv
  OBVIOUS
<1>1. /\ status = [c \in Chapters |-> "Missing"] /\ queue = <<>> /\ gWorker = FALSE /\ worker = Off
      /\ page = [chapter |-> 0, timed |-> FALSE] /\ call = Rest
  BY DEF Init, RamInit
<1>2. FetchingIsWorked /\ Apart
  BY <1>1 DEF FetchingIsWorked, Apart
<1> QED
  BY <1>1, <1>2, ZeroIsChapter, RestTyped DEF SessionInv, Typed, Statuses, WorkerIsRecord, Off, wc

(* However requests, cancels, retries and the worker's reports cross, and   *)
(* whatever the card does: a chapter that is Fetching is queued or in the   *)
(* worker's hands, and no chapter is queued twice (FetchingIsWorked).       *)
THEOREM FetchingSafe == Spec => []FetchingIsWorked
<1>1. SessionInv => FetchingIsWorked
  BY DEF SessionInv
<1> QED
  BY <1>1, InitSession, SessionStep, PTL DEF Spec

-----------------------------------------------------------------------------
(* The reader.  A chapter that is Ready has no partial body and is nobody's *)
(* work, and what the reader asks for is another chapter than the one open. *)
ReadySound == /\ \A c \in Chapters : status[c] = "Ready" => card[c].body # "partial"
              /\ worker.step = "ready" => card[wc].body # "partial"

Asking == {"read", "reset", "uncancel", "push", "kick", "kicked"}

Reading == ui = "Reader" =>
             /\ status[page.chapter] = "Ready" /\ card[page.chapter].body = "whole"
             /\ call.step \in {"none", "choose"} \cup Asking
             /\ call.step # "none" => call.chapter # page.chapter
             /\ call.step \in Asking => call.goal # "load"

ReaderInv == CacheInv /\ SessionInv /\ ReadySound /\ Reading

LEMMA BodyIsBody == ASSUME CacheInv, NEW c \in Chapters PROVE card[c].body \in Bodies
BY DEF CacheInv, Files

(* What the worker has not in hand stays as it is. *)
LEMMA WorkerElsewhere ==
  ASSUME CacheInv, SessionInv, Worker, NEW c \in Chapters, ~Busy(c)
  PROVE  card'[c] = card[c] /\ status'[c] = status[c]
<1>0. card \in [Chapters -> Files] /\ status \in [Chapters -> Statuses]
  BY DEF CacheInv, SessionInv, Typed
<1>1. CASE Poll \/ Idle
  BY <1>1 DEF Poll, Idle, session
<1>2. CASE worker.step \notin Unworked
  <2>1. c # wc
    BY <1>2 DEF Busy, Unworked
  <2>2. ASSUME NEW s, setChapterStatus(wc, s) PROVE status'[c] = status[c]
    BY <1>0, <2>1, <2>2, SetIs
  <2>3. ASSUME NEW f, card' = [card EXCEPT ![wc] = f] PROVE card'[c] = card[c]
    BY <1>0, <2>1, <2>3
  <2>4. ASSUME ClearBody(wc) \/ ClearPart(wc) \/ ClearMarker(wc) PROVE card'[c] = card[c]
    BY <2>3, <2>4 DEF ClearBody, ClearPart, ClearMarker, SetCard
  <2>5. CASE Check \/ Start \/ Uncancel \/ Failed \/ End
    BY <2>2, <2>5 DEF Check, Start, Uncancel, Failed, End, session
  <2>6. CASE Fetch \/ BodyWhole \/ Mark \/ MarkFails
    BY <1>0, <2>1, <2>2, <2>6 DEF Fetch, BodyWhole, Mark, MarkFails, session
  <2>7. CASE BodyBroken \/ Unmark \/ DropOld \/ Again
    BY <2>4, <2>7 DEF BodyBroken, Unmark, DropOld, Again, session
  <2>8. CASE Rename \/ Copy
    BY <1>0, <2>1, <2>8 DEF Rename, Copy, session
  <2>9. CASE Copied
    BY <2>3, <2>4, <2>9 DEF Copied, SetCard, session
  <2> QED
    BY <1>2, <2>5, <2>6, <2>7, <2>8, <2>9 DEF Worker, Poll, Idle, At, Unworked
<1>3. Poll \/ Idle \/ worker.step \notin Unworked
  BY DEF Worker, Unworked, At, Check, Start, Uncancel, Failed, End, Fetch, BodyWhole, Mark,
         MarkFails,
         BodyBroken, Unmark, DropOld, Again, Rename, Copy, Copied
<1> QED
  BY <1>1, <1>2, <1>3

(* The worker is ready only with a body its marker vouched for, or that it  *)
(* has just committed.                                                      *)
LEMMA WorkerReady ==
  ASSUME CacheInv, SessionInv, Worker, worker'.step = "ready"
  PROVE  card'[wc'].body # "partial"
<1>0. card \in [Chapters -> Files] /\ wc \in Chapters /\ WorkerIsRecord
  BY DEF CacheInv, SessionInv, Typed
<1>1. CASE Check
  <2>1. Step("ready") /\ cacheComplete(wc) /\ UNCHANGED card
    <3>1. ASSUME NEW s, Step(s) PROVE s = "ready"
      BY <1>0, <3>1, StepTo
    <3>2. ~Step("error") /\ ~Step("start")
      BY <3>1
    <3> QED
      BY <1>1, <3>2 DEF Check
  <2> QED
    BY <1>0, <2>1, StepTo, SoundNow DEF cacheComplete, Sound, wc
<1>2. CASE Mark
  <2>1. card[wc].body # "partial" /\ wc' = wc
    BY <1>0, <1>2, SoundNow, StepTo DEF Mark, At, Sound, wc
  <2>2. card'[wc].body = card[wc].body
    BY <1>0, <1>2 DEF Mark, Files
  <2> QED
    BY <2>1, <2>2
<1>3. ASSUME NEW s, Step(s) PROVE s = "ready"
  BY <1>0, <1>3, StepTo
<1>4. ~(Start \/ Uncancel \/ Fetch \/ BodyWhole \/ BodyBroken \/ Unmark \/ DropOld \/ Rename \/ Copy \/ Copied)
  <2>1. \A s : Step(s) => s = "ready"
    BY <1>3
  <2> QED
    BY <2>1 DEF Start, Uncancel, Fetch, BodyWhole, BodyBroken, Unmark, DropOld, Rename, Copy, Copied
<1>5. ~(MarkFails \/ Failed \/ Again)
  <2>1. \A s : Step(s) => s = "ready"
    BY <1>3
  <2> QED
    BY <1>0, <2>1 DEF MarkFails, Failed, Again, WorkerIsRecord
<1>6. ~(Poll \/ Idle \/ End)
  <2>1. \A s : Step(s) => s = "ready"
    BY <1>3
  <2> QED
    BY <2>1 DEF Poll, Idle, End, NextWork, Off
<1> QED
  BY <1>1, <1>2, <1>4, <1>5, <1>6 DEF Worker

LEMMA WorkerReading == ASSUME ReaderInv, Worker PROVE ReadySound' /\ Reading'
<1>0. CacheInv /\ SessionInv /\ ReadySound /\ Reading /\ UNCHANGED <<ui, page, call>>
  BY DEF ReaderInv, Worker, screen, Check, Start, Uncancel, Failed, End, Fetch, BodyWhole, Mark,
         MarkFails,
         BodyBroken, Unmark, DropOld, Again, Rename, Copy, Copied, Poll, Idle
<1>1. \A c \in Chapters : ~Busy(c) => card'[c] = card[c] /\ status'[c] = status[c]
  BY <1>0, WorkerElsewhere
<1>2. ASSUME NEW c \in Chapters, status'[c] = "Ready"
      PROVE  card'[c].body # "partial"
  <2>1. CASE ~Busy(c)
    BY <1>0, <1>1, <1>2, <2>1 DEF ReadySound
  <2>2. CASE Busy(c)
    <3>1. status[c] # "Ready" /\ c = wc /\ status \in [Chapters -> Statuses]
      BY <1>0, <2>2 DEF SessionInv, Apart, Busy, Typed
    <3>2. ASSUME NEW s, setChapterStatus(wc, s) PROVE s = "Ready"
      BY <1>2, <3>1, <3>2, SetIs
    <3>3. ~setChapterStatus(wc, "Fetching") /\ ~setChapterStatus(wc, "Error") /\ ~UNCHANGED session
      BY <1>2, <3>1, <3>2 DEF session
    <3>4. ~UNCHANGED status
      BY <1>2, <3>1
    <3>5. At("ready") /\ UNCHANGED card
      BY <3>3, <3>4 DEF Worker, session, Check, Start, Uncancel, Failed, End, Fetch, BodyWhole,
                        Mark, MarkFails,
             BodyBroken, Unmark, DropOld, Again, Rename, Copy, Copied, Poll, Idle
    <3> QED
      BY <1>0, <3>1, <3>5 DEF ReadySound, At
  <2> QED
    BY <2>1, <2>2
<1>3. ReadySound'
  BY <1>0, <1>2, WorkerReady DEF ReadySound
<1>4. Reading'
  <2> SUFFICES ASSUME ui = "Reader"
               PROVE  status'[page.chapter] = "Ready" /\ card'[page.chapter].body = "whole"
    BY <1>0 DEF Reading
  <2>1. page.chapter \in Chapters /\ status[page.chapter] = "Ready" /\ card[page.chapter].body = "whole"
    BY <1>0 DEF Reading, SessionInv, Typed
  <2> QED
    BY <1>0, <1>1, <2>1 DEF SessionInv, Apart
<1> QED
  BY <1>3, <1>4

(* The UI task. *)
LEMMA ChooseReading ==
  ASSUME ReaderInv, NEW c \in Chapters, Choose(c)
  PROVE  Reading'
<1>1. CASE /\ status[c] = "Ready" /\ card[c].body # "none" /\ Go("Reader", c) /\ call' = Rest
  <2>1. UNCHANGED <<status, card>> /\ page'.chapter = c
    BY <1>1 DEF Choose, session, Go
  <2>2. card[c].body = "whole"
    BY <1>1, BodyIsBody DEF Bodies, ReaderInv, ReadySound
  <2> QED
    BY <1>1, <2>1, <2>2, RestTyped DEF Reading, Asking
<1>2. CASE Go("Loading", c)
  BY <1>2 DEF Go, Reading
<1> QED
  BY <1>1, <1>2 DEF Choose

(* The end of a call: another chapter may have to be chosen. *)
LEMMA DoneReading ==
  ASSUME ReaderInv, UNCHANGED <<status, card>>, call.step \in Asking, NEW q \in BOOLEAN, Done(q)
  PROVE  Reading'
<1>0. Reading /\ call.chapter \in Chapters
  BY DEF ReaderInv, SessionInv, Typed
<1>1. CASE call.goal = "load"
  BY <1>0, <1>1 DEF Reading, Asking, Done, Go
<1>2. CASE call.goal # "load"
  <2>1. UNCHANGED <<ui, page>>
    BY <1>2 DEF Done
  <2>2. call' = Rest \/ call' = [Rest EXCEPT !.step = "choose", !.chapter = call.chapter]
    BY DEF Done
  <2>3. call'.step = "none" \/ (call'.step = "choose" /\ call'.chapter = call.chapter)
    BY <1>0, <2>2, RestAt, RestTyped
  <2> QED
    BY <1>0, <2>1, <2>3 DEF Reading, Asking
<1> QED
  BY <1>1, <1>2

LEMMA UiReading == ASSUME ReaderInv, Ui PROVE Reading'
<1>0. CacheInv /\ SessionInv /\ ReadySound /\ Reading /\ page.chapter \in Chapters
  BY DEF ReaderInv, SessionInv, Typed
<1>1. ASSUME NEW c \in Chapters, Tap(c) \/ Pick(c) PROVE Reading'
  BY <1>1, ChooseReading DEF Tap, Pick
<1>2. ASSUME NEW c \in Chapters, Switch(c) PROVE Reading'
  <2>1. UNCHANGED <<status, card, call>> /\ page'.chapter = c /\ Free /\ card[c].body # "none" /\ status[c] = "Ready"
    BY <1>0, <1>2, SetIs DEF Switch, Go, SessionInv, Typed
  <2>2. card[c].body = "whole"
    BY <1>0, <2>1, BodyIsBody DEF Bodies, ReadySound
  <2> QED
    BY <2>1, <2>2 DEF Reading, Free, Calling, Asking
<1>3. CASE ChooseAgain
  BY <1>0, <1>3, ChooseReading DEF ChooseAgain, SessionInv, Typed
<1>4. CASE OpenReady
  <2>1. UNCHANGED <<status, card, call>> /\ page'.chapter = page.chapter /\ Free /\ status[page.chapter] = "Ready"
        /\ (ui' = "Reader" => card[page.chapter].body # "none")
    BY <1>4 DEF OpenReady, Go, Waiting, Loaded, session
  <2>2. ui' = "Reader" => card[page.chapter].body = "whole"
    BY <1>0, <2>1, BodyIsBody DEF Bodies, ReadySound
  <2> QED
    BY <2>1, <2>2 DEF Reading, Free, Calling, Asking
<1>5. CASE Leave \/ TimedOut \/ CancelLoading
  BY <1>5 DEF Leave, TimedOut, CancelLoading, Go, Reading
<1>6. CASE Settled \/ Retry
  BY <1>6 DEF Settled, Retry, Waiting, Reading
<1>7. CASE Prefetch \/ Advance
  <2>1. Next1 # page.chapter
    BY <1>0, BookAssumption DEF Next1, Chapters
  <2>2. UNCHANGED <<status, card, ui, page>> /\ call'.step = "read" /\ call'.chapter = Next1 /\ call'.goal # "load"
    BY <1>7 DEF Prefetch, Advance, Ask, session
  <2> QED
    BY <1>0, <2>1, <2>2 DEF Reading, Asking
<1>8. CASE Invalidate \/ Invalidated
  <2>1. ui # "Reader" /\ UNCHANGED ui
    BY <1>0, <1>8 DEF Reading, Invalidate, Invalidated, Calling, Asking
  <2> QED
    BY <2>1 DEF Reading
<1>9. CASE Reset \/ AskUncancel \/ requestPrefetch
  <2>1. PICK s \in Asking : Then(s)
    BY <1>9 DEF Reset, AskUncancel, requestPrefetch, Asking
  <2>2. call'.step = s /\ call'.chapter = call.chapter /\ call'.goal = call.goal /\ UNCHANGED <<card, ui, page>>
        /\ call.step \in Asking
    BY <1>0, <1>9, <2>1, ThenTyped DEF SessionInv, Typed, ScreenTyped, Reset, AskUncancel,
         requestPrefetch, Calling, Asking
  <2>3. ASSUME ui = "Reader" PROVE status'[page.chapter] = status[page.chapter]
    <3>1. call.chapter # page.chapter
      BY <1>0, <2>2, <2>3 DEF Reading, Asking
    <3>2. UNCHANGED status \/ \E t : status' = [status EXCEPT ![call.chapter] = t]
      BY <1>9, SetIs DEF Reset, AskUncancel, requestPrefetch, session
    <3> QED
      BY <1>0, <3>1, <3>2 DEF SessionInv, Typed
  <2> QED
    BY <1>0, <2>2, <2>3 DEF Reading, Asking
<1>10. CASE Read
  <2>1. UNCHANGED <<status, card>> /\ call.step = "read"
    BY <1>10 DEF Read, session, Calling
  <2>2. ASSUME NEW s \in {"reset", "uncancel"}, Then(s), UNCHANGED <<ui, page>> PROVE Reading'
    <3>1. call'.step = s /\ call'.chapter = call.chapter /\ call'.goal = call.goal
      BY <1>0, <2>2, ThenTyped DEF SessionInv, Typed, ScreenTyped
    <3> QED
      BY <1>0, <2>1, <2>2, <3>1 DEF Reading, Asking
  <2>3. ASSUME NEW q \in BOOLEAN, Done(q) PROVE Reading'
    BY <2>1, <2>3, DoneReading DEF Asking
  <2> QED
    BY <1>10, <2>2, <2>3 DEF Read
<1>11. CASE Kick
  <2>1. UNCHANGED <<status, card>> /\ call.step \in {"kick", "kicked"}
    BY <1>11 DEF Kick, session, Calling
  <2>2. PICK q \in BOOLEAN : Done(q)
    BY <1>11 DEF Kick
  <2> QED
    BY <2>1, <2>2, DoneReading DEF Asking
<1> QED
  BY <1>1, <1>2, <1>3, <1>4, <1>5, <1>6, <1>7, <1>8, <1>9, <1>10, <1>11 DEF Ui, Call

LEMMA UiReady == ASSUME ReaderInv, Ui PROVE ReadySound'
<1>0. CacheInv /\ SessionInv /\ ReadySound
  BY DEF ReaderInv
<1>1. \A c \in Chapters : card'[c].body \in {card[c].body, "none"}
  BY <1>0, UiSteps DEF Shrinks
<1>2. \A c \in Chapters : status'[c] = "Ready" => status[c] = "Ready"
  <2>1. status \in [Chapters -> Statuses]
    BY <1>0 DEF SessionInv, Typed
  <2>2. ASSUME NEW k, setChapterStatus(k, "Missing") PROVE \A c \in Chapters : status'[c] = "Ready" => status[c] = "Ready"
    BY <2>1, <2>2, SetIs
  <2>3. ASSUME NEW k \in Chapters, status[k] = "Ready", setChapterStatus(k, "Ready") PROVE UNCHANGED status
    BY <2>1, <2>3, SetIs
  <2>4. requestPrefetch => \A c \in Chapters : status'[c] = "Ready" => status[c] = "Ready"
    BY <2>1 DEF requestPrefetch, session
  <2> QED
    BY <2>2, <2>3, <2>4, UiSessionSteps DEF session
<1>3. worker'.step = "ready" => worker' = worker
  BY <1>0, UiSteps DEF Off
<1>4. wc \in Chapters
  BY <1>0 DEF SessionInv, Typed
<1> QED
  BY <1>0, <1>1, <1>2, <1>3, <1>4 DEF ReadySound, wc

LEMMA CutReading == ASSUME Cut PROVE ReadySound' /\ Reading'
BY DEF Cut, ReadySound, Reading, Off

(* The chapter the reader has open stays whole as long as it is open, on    *)
(* any card but one where removal and rename both fail: nobody works on a   *)
(* chapter that is Ready, and no retry clears one that is read              *)
(* (ReaderWhole).                                                           *)
THEOREM ReaderSafe ==
  ASSUME \A f \in Fates : ~({"remove", "rename"} \subseteq f.faults)
  PROVE  Spec => []ReaderWhole
<1>1. Init => ReaderInv
  <2> SUFFICES ASSUME Init PROVE ReadySound /\ Reading
    BY CacheInit, InitSession DEF ReaderInv
  <2> QED
    BY DEF Init, RamInit, ReadySound, Reading, Off
<1>2. ReaderInv /\ [Next]_vars => ReaderInv'
  <2> SUFFICES ASSUME ReaderInv, [Next]_vars PROVE ReaderInv'
    OBVIOUS
  <2>1. CacheInv' /\ SessionInv'
    BY WorkerKeeps, UiKeeps, CutKeeps, StutterKeeps, SessionStep DEF Next, ReaderInv
  <2>2. UNCHANGED vars => ReadySound' /\ Reading'
    BY DEF vars, session, tasks, screen, ReaderInv, ReadySound, Reading, wc
  <2> QED
    BY <2>1, <2>2, WorkerReading, UiReading, UiReady, CutReading DEF Next, ReaderInv
<1>3. ReaderInv => ReaderWhole
  BY DEF ReaderInv, Reading, ReaderWhole
<1> QED
  BY <1>1, <1>2, <1>3, PTL DEF Spec

-----------------------------------------------------------------------------
(* The worker and the page of BookDetail, for any books and any number of   *)
(* visits: one holder of gBusy at a time, hence a snapshot whose result is  *)
(* that of the request it names, and a page that shows its own.             *)

(* gBusy is held from the claim to the task's creation by the page, then by *)
(* the job to its end.                                                      *)
Starting == {"claimed", "clear", "prepared"}
Working == {"fetch", "settle", "cover", "publish", "release"}

OneHolder == /\ gBusy = (bookPage.step \in Starting \/ job.step # "none")
             /\ bookPage.step \in Starting \cup {"failed"} => job.step = "none"

(* Whose request the snapshot, the job and the page carry.                  *)
Named == /\ bookPage.step # "none" => bookPage.of \in Requests
         /\ bookPage.step = "prepared" => gRequest = bookPage.of
         /\ bookPage.step \in {"prepared", "failed"} => gSnapshot.of = bookPage.of
         /\ bookPage.step = "shown" /\ bookPage.loading => gSnapshot.of = bookPage.of
         /\ job.step # "none" => gSnapshot.of \in Requests
         /\ job.step = "take" => gRequest = gSnapshot.of
         /\ job.step \in Working => job.of = gSnapshot.of

Owned == /\ gSnapshot.of = None => gSnapshot.result = None /\ gSnapshot.cover = None
         /\ gSnapshot.result \in {None, gSnapshot.of}
         /\ gSnapshot.cover # None => gSnapshot.cover = gSnapshot.of.book
         /\ job.step = "take" => job.result = None /\ job.cover = None
         /\ job.step \in Working => job.result \in {None, job.of}
         /\ job.step \in Working /\ job.cover # None => job.cover = job.of.book

DetailInv == TypeOK /\ OneHolder /\ Named /\ Owned /\ PageIsOwn

LEMMA NoneIsNothing == None \notin Requests /\ None \notin Books
BY DetailAssumption

LEMMA InitDetailInv == DetailInit => DetailInv
<1> SUFFICES ASSUME DetailInit PROVE DetailInv
  OBVIOUS
<1>1. SnapshotOK /\ JobOK
  BY DEF DetailInit, SnapshotOK, JobOK, Empty, NoJob, Held
<1>2. PageOK
  BY DEF DetailInit, PageOK, Away, Held
<1>3. visits \in 0..MaxVisits /\ recent \in [Books -> Books \cup {None}] /\ job.step = "none"
  BY DetailAssumption DEF DetailInit, NoJob
<1>4. TypeOK
  BY <1>1, <1>2, <1>3 DEF DetailInit, TypeOK, Held
<1>5. OneHolder /\ Named /\ Owned /\ PageIsOwn
  BY DEF DetailInit, OneHolder, Named, Owned, PageIsOwn, Empty, NoJob, Away, Starting, Working
<1> QED
  BY <1>4, <1>5 DEF DetailInv

(* The two steps that end a job.                                            *)
LEMMA PublishFields ==
  ASSUME TypeOK, Publish
  PROVE  /\ \/ /\ job.step = "publish" /\ job'.step = "release" /\ gBusy' = gBusy
               /\ job'.of = job.of /\ job'.result = job.result /\ job'.cover = job.cover
               /\ gSnapshot'.of = gSnapshot.of /\ gSnapshot'.result = job.result
               /\ gSnapshot'.cover = job.cover
            \/ job.step = "release" /\ gBusy' = FALSE /\ job'.step = "none" /\ gSnapshot' = gSnapshot
         /\ UNCHANGED <<gDetailCancel, gRequest, bookPage, recent, visits>>
<1>1. CASE In("publish")
  BY <1>1 DEF Publish, publish, In, JobStep, JobKeeps, TypeOK, JobOK, SnapshotOK
<1>2. CASE In("release")
  BY <1>2 DEF Publish, In, JobKeeps, NoJob
<1> QED
  BY <1>1, <1>2 DEF Publish

LEMMA EnterFields ==
  ASSUME NEW b \in Books, TypeOK, Enter(b)
  PROVE  [book |-> b, visit |-> visits + 1] \in Requests /\ visits' \in 0..MaxVisits
BY DetailAssumption DEF Enter, TypeOK, Requests

(* One holder of gBusy at a time.                                           *)
LEMMA HolderStep ==
  ASSUME DetailInv, [DetailNext]_detailVars
  PROVE  OneHolder'
<1> USE DEF OneHolder, Starting, TypeOK, PageOK, JobOK, DetailInv, PageAt, PageStep, In, JobStep,
            JobKeeps, handed
<1>1. CASE Claim
  BY <1>1 DEF Claim, Refused
<1>2. CASE UncancelJob
  BY <1>2 DEF UncancelJob
<1>3. CASE Prepare
  BY <1>3 DEF Prepare, Empty
<1>4. CASE CreateTask
  BY <1>4 DEF CreateTask, NoJob
<1>5. CASE CreateFailed
  BY <1>5 DEF CreateFailed, publish, Refused
<1>6. CASE pollDetailLoading \/ OpenToc
  BY <1>6 DEF pollDetailLoading, OpenToc
<1>7. CASE LeavePage
  BY <1>7 DEF LeavePage, Away
<1>8. CASE Take
  BY <1>8 DEF Take
<1>9. CASE FetchDetail
  BY <1>9 DEF FetchDetail
<1>10. CASE Settle
  BY <1>10 DEF Settle
<1>11. CASE Cover
  BY <1>11 DEF Cover
<1>12. CASE Publish
  BY <1>12, PublishFields
<1>13. ASSUME NEW b \in Books, Enter(b) PROVE OneHolder'
  BY <1>13 DEF Enter
<1>14. CASE UNCHANGED detailVars
  BY <1>14 DEF detailVars
<1> QED
  BY <1>1, <1>2, <1>3, <1>4, <1>5, <1>6, <1>7, <1>8, <1>9, <1>10, <1>11, <1>12, <1>13,
       <1>14 DEF DetailNext, Job, StartDetail

(* Whose request each part carries.                                         *)
LEMMA NamedStep ==
  ASSUME DetailInv, [DetailNext]_detailVars
  PROVE  Named'
<1> USE NoneIsNothing
    DEF Named, OneHolder, Starting, Working, TypeOK, PageOK, JobOK, SnapshotOK, DetailInv, PageAt,
        PageStep, In, JobStep, JobKeeps, handed
<1>1. CASE Claim
  BY <1>1 DEF Claim, Refused
<1>2. CASE UncancelJob
  BY <1>2 DEF UncancelJob
<1>3. CASE Prepare
  BY <1>3 DEF Prepare, Empty
<1>4. CASE CreateTask
  BY <1>4 DEF CreateTask, NoJob
<1>5. CASE CreateFailed
  BY <1>5 DEF CreateFailed, publish, Refused
<1>6. CASE pollDetailLoading \/ OpenToc
  BY <1>6 DEF pollDetailLoading, OpenToc
<1>7. CASE LeavePage
  BY <1>7 DEF LeavePage, Away
<1>8. CASE Take
  BY <1>8 DEF Take
<1>9. CASE FetchDetail
  BY <1>9 DEF FetchDetail
<1>10. CASE Settle
  BY <1>10 DEF Settle
<1>11. CASE Cover
  BY <1>11 DEF Cover
<1>12. CASE Publish
  BY <1>12, PublishFields
<1>13. ASSUME NEW b \in Books, Enter(b) PROVE Named'
  BY <1>13, EnterFields DEF Enter
<1>14. CASE UNCHANGED detailVars
  BY <1>14 DEF detailVars
<1> QED
  BY <1>1, <1>2, <1>3, <1>4, <1>5, <1>6, <1>7, <1>8, <1>9, <1>10, <1>11, <1>12, <1>13,
       <1>14 DEF DetailNext, Job, StartDetail

(* Results and covers of their own request.                                 *)
LEMMA OwnedStep ==
  ASSUME DetailInv, [DetailNext]_detailVars
  PROVE  Owned'
<1> USE NoneIsNothing
    DEF Owned, Named, OneHolder, Starting, Working, TypeOK, JobOK, SnapshotOK, DetailInv, PageAt,
        PageStep, In, JobStep, JobKeeps, handed
<1>1. CASE Claim
  BY <1>1 DEF Claim, Refused
<1>2. CASE UncancelJob
  BY <1>2 DEF UncancelJob
<1>3. CASE Prepare
  BY <1>3 DEF Prepare, Empty
<1>4. CASE CreateTask
  BY <1>4 DEF CreateTask, NoJob
<1>5. CASE CreateFailed
  BY <1>5 DEF CreateFailed, publish, Refused
<1>6. CASE pollDetailLoading \/ OpenToc
  BY <1>6 DEF pollDetailLoading, OpenToc
<1>7. CASE LeavePage
  BY <1>7 DEF LeavePage, Away
<1>8. CASE Take
  BY <1>8 DEF Take
<1>9. CASE FetchDetail
  BY <1>9 DEF FetchDetail
<1>10. CASE Settle
  BY <1>10 DEF Settle
<1>11. CASE Cover
  BY <1>11 DEF Cover
<1>12. CASE Publish
  BY <1>12, PublishFields
<1>13. ASSUME NEW b \in Books, Enter(b) PROVE Owned'
  BY <1>13 DEF Enter
<1>14. CASE UNCHANGED detailVars
  BY <1>14 DEF detailVars
<1> QED
  BY <1>1, <1>2, <1>3, <1>4, <1>5, <1>6, <1>7, <1>8, <1>9, <1>10, <1>11, <1>12, <1>13,
       <1>14 DEF DetailNext, Job, StartDetail

(* The page and the covers kept.                                            *)
LEMMA PageOwnStep ==
  ASSUME DetailInv, [DetailNext]_detailVars
  PROVE  PageIsOwn'
<1> USE NoneIsNothing
    DEF PageIsOwn, TypeOK, PageOK, DetailInv, PageAt, PageStep, In, JobStep, JobKeeps, handed
<1>1. CASE Claim
  BY <1>1 DEF Claim, Refused
<1>2. CASE UncancelJob
  BY <1>2 DEF UncancelJob
<1>3. CASE Prepare
  BY <1>3 DEF Prepare, Empty
<1>4. CASE CreateTask
  BY <1>4 DEF CreateTask, NoJob
<1>5. CASE CreateFailed
  BY <1>5 DEF CreateFailed, publish, Refused
<1>6. CASE pollDetailLoading
  <2>1. /\ gSnapshot.of = bookPage.of /\ bookPage.of \in Requests /\ bookPage.of.book \in Books
        /\ bookPage' = [bookPage EXCEPT !.loading = FALSE, !.detail = gSnapshot.result]
        /\ gSnapshot.result \in {None, bookPage.of}
        /\ gSnapshot.cover \in {None, bookPage.of.book}
    BY <1>6 DEF pollDetailLoading, Requests, Named, Owned
  <2>2. bookPage'.detail # None => bookPage'.detail = bookPage'.of
    BY <2>1
  <2>3. \A c \in Books : recent'[c] \in {c, None}
    BY <1>6, <2>1 DEF pollDetailLoading
  <2> QED
    BY <2>2, <2>3
<1>7. CASE OpenToc \/ LeavePage
  BY <1>7 DEF OpenToc, LeavePage, Away
<1>8. CASE Take
  BY <1>8 DEF Take
<1>9. CASE FetchDetail
  BY <1>9 DEF FetchDetail
<1>10. CASE Settle
  BY <1>10 DEF Settle
<1>11. CASE Cover
  BY <1>11 DEF Cover
<1>12. CASE Publish
  BY <1>12, PublishFields
<1>13. ASSUME NEW b \in Books, Enter(b) PROVE PageIsOwn'
  BY <1>13 DEF Enter
<1>14. CASE UNCHANGED detailVars
  BY <1>14 DEF detailVars
<1> QED
  BY <1>1, <1>2, <1>3, <1>4, <1>5, <1>6, <1>7, <1>8, <1>9, <1>10, <1>11, <1>12, <1>13,
       <1>14 DEF DetailNext, Job, StartDetail

(* Every part stays of its kind.                                            *)
LEMMA TypesStep ==
  ASSUME DetailInv, [DetailNext]_detailVars, OneHolder'
  PROVE  TypeOK'
<1> USE NoneIsNothing
    DEF DetailInv, TypeOK, Held, PageAt, PageStep, In, JobStep, JobKeeps, handed
<1>1. SnapshotOK'
  <2>1. CASE Prepare
    BY <2>1 DEF Prepare, Empty, Named, SnapshotOK, PageOK
  <2>2. CASE CreateFailed
    BY <2>2 DEF CreateFailed, publish, SnapshotOK
  <2>3. CASE Publish
    BY <2>3 DEF Publish, publish, SnapshotOK, JobOK
  <2>4. CASE UNCHANGED gSnapshot
    BY <2>4 DEF SnapshotOK
  <2> QED
    BY <2>1, <2>2, <2>3, <2>4
       DEF DetailNext, Job, StartDetail, Claim, UncancelJob, CreateTask, Take, FetchDetail,
           Settle, Cover, pollDetailLoading, OpenToc, LeavePage,
           Enter, detailVars
<1>2. JobOK'
  <2>1. CASE CreateTask
    BY <2>1 DEF CreateTask, NoJob, JobOK
  <2>2. CASE Take
    BY <2>2 DEF Take, JobOK
  <2>3. CASE FetchDetail \/ Settle
    BY <2>3 DEF FetchDetail, Settle, JobOK
  <2>4. CASE Cover
    <3>1. job.of \in Requests
      BY <2>4 DEF Cover, Named, Working
    <3> QED
      BY <2>4, <3>1 DEF Cover, JobOK, Requests
  <2>5. CASE Publish
    BY <2>5 DEF Publish, NoJob, JobOK
  <2>6. CASE UNCHANGED job
    BY <2>6 DEF JobOK
  <2> QED
    BY <2>1, <2>2, <2>3, <2>4, <2>5, <2>6
       DEF DetailNext, Job, StartDetail, Claim, UncancelJob, Prepare, CreateFailed,
           pollDetailLoading, OpenToc, LeavePage, Enter, detailVars
<1>3. PageOK'
  <2>1. CASE StartDetail
    BY <2>1 DEF StartDetail, Claim, Refused, UncancelJob, Prepare, CreateTask, CreateFailed, PageOK
  <2>2. CASE pollDetailLoading \/ OpenToc
    BY <2>2 DEF pollDetailLoading, OpenToc, PageOK, SnapshotOK
  <2>3. CASE LeavePage
    BY <2>3 DEF LeavePage, Away, PageOK
  <2>4. ASSUME NEW b \in Books, Enter(b) PROVE PageOK'
    BY <2>4, EnterFields DEF Enter, PageOK
  <2>5. CASE UNCHANGED bookPage
    BY <2>5 DEF PageOK
  <2> QED
    BY <2>1, <2>2, <2>3, <2>4, <2>5 DEF DetailNext, Job, Take, FetchDetail, Settle, Cover,
         Publish, detailVars
<1>4. gBusy' \in BOOLEAN /\ gDetailCancel' \in BOOLEAN
  BY DEF DetailNext, Job, StartDetail, Claim, UncancelJob, Prepare, CreateTask, CreateFailed,
         pollDetailLoading, OpenToc, LeavePage, Enter,
         Take, FetchDetail, Settle, Cover, Publish, detailVars, PageOK
<1>5. gRequest' \in Held /\ visits' \in 0..MaxVisits
  <2>1. ASSUME NEW b \in Books, Enter(b) PROVE gRequest' \in Held /\ visits' \in 0..MaxVisits
    BY <2>1, EnterFields DEF Enter
  <2> QED
    BY <2>1 DEF DetailNext, Job, StartDetail, Claim, UncancelJob, Prepare, CreateTask,
                CreateFailed, pollDetailLoading, OpenToc, LeavePage,
         Take, FetchDetail, Settle, Cover, Publish, detailVars, PageOK
<1>6. recent' \in [Books -> Books \cup {None}]
  <2>1. CASE pollDetailLoading
    BY <2>1 DEF pollDetailLoading, SnapshotOK
  <2> QED
    BY <2>1 DEF DetailNext, Job, StartDetail, Claim, UncancelJob, Prepare, CreateTask,
                CreateFailed, Enter, OpenToc, LeavePage,
         Take, FetchDetail, Settle, Cover, Publish, detailVars
<1>7. job'.step # "none" => gBusy'
  BY DEF OneHolder
<1> QED
  BY <1>1, <1>2, <1>3, <1>4, <1>5, <1>6, <1>7

LEMMA DetailStep == DetailInv /\ [DetailNext]_detailVars => DetailInv'
BY HolderStep, NamedStep, OwnedStep, PageOwnStep, TypesStep DEF DetailInv

(* The busy flag is set while a job runs, and every id, result and cover is *)
(* of its kind (BookDetail!TypeOK).                                         *)
THEOREM DetailTyping == DetailSpec => []TypeOK
BY InitDetailInv, DetailStep, PTL DEF DetailSpec, DetailInv

(* Whatever visits cancel, are refused or outlive a job, the snapshot holds *)
(* the result of the request it names (BookDetail!SnapshotIsOwn).           *)
THEOREM SnapshotSafe == DetailSpec => []SnapshotIsOwn
<1>1. DetailInv => SnapshotIsOwn
  BY DEF DetailInv, Owned, SnapshotIsOwn
<1> QED
  BY <1>1, InitDetailInv, DetailStep, PTL DEF DetailSpec

(* A page shows the answer to its own visit, and a book keeps its own       *)
(* cover, although the page matches ids and not visits                      *)
(* (BookDetail!PageIsOwn).                                                  *)
THEOREM PageSafe == DetailSpec => []PageIsOwn
BY InitDetailInv, DetailStep, PTL DEF DetailSpec, DetailInv
=============================================================================
