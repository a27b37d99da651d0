------------------------- MODULE ProgressiveLoader -------------------------
(* The progressive loader: one session, kept across apps, that streams a    *)
(* chapter or a table of contents from the network to a file, has the UI    *)
(* task open it early, and marks a whole file with ".ok" so that the next   *)
(* request is served from the card.  The owner task runs it; the UI task    *)
(* takes what it queues.  A body is Total units; a read of the network is   *)
(* one unit.                                                                *)
EXTENDS Fate, Sequences

CONSTANTS Files,      \* [app, kind] records, kind "chapter" or "toc"
          Total,      \* units of a body
          BufLen,     \* units FileSink buffers
          MaxBegins,  \* bound on the requests
          None, Absent

Apps == {f.app : f \in Files}

Requests == {r \in [file : Files, early : {0, 2}, max : {Total - 1, Total}, raw : BOOLEAN] :
               r.raw => r.file.kind = "chapter"}

ASSUME LoaderAssumption ==
         /\ \A f \in Files : f.kind \in {"chapter", "toc"}
         /\ Total \in Nat \ {0} /\ BufLen \in Nat \ {0} /\ MaxBegins \in Nat
         /\ None \notin Requests /\ Absent \notin Seq(1..Total)

VARIABLES bound,      \* boundAppId()
          phase,      \* phase_; "Closing" is the middle of finishOk
          req,        \* chapter_ or toc_
          early, complete,  \* early_, streamComplete_
          untilClose, \* bodyMode_ is UntilClose
          got,        \* units read
          published,  \* lastPublishedRows_
          buf,        \* FileSink::buffer_
          card,       \* per path its body file and whether its ".ok" exists
          open,       \* pendingOpen / pendingToc
          shown,      \* what the UI task opened last
          cutoff,     \* bodies whose connection closed early, unnoticed
          begins

session == <<phase, req, early, complete, untilClose, got, published, buf>>
vars == <<fate, bound, session, card, open, shown, cutoff, begins>>

Phases == {"Idle", "Connecting", "Streaming", "EarlyOpened", "Closing", "Done", "Failed"}
Whole == [i \in 1..Total |-> i]
Opened == [file : Files, pending : BOOLEAN] \cup {None}
Flowing == phase \in {"Streaming", "EarlyOpened"}
File == req.file
IsToc == File.kind = "toc"
Accepted == File.app = bound   \* queueOpen and queueToc refuse other apps

(* The session with no request in hand, or at the start of one.             *)
Fresh(ph, r) == /\ phase' = ph /\ req' = r /\ early' = FALSE /\ complete' = FALSE
                /\ untilClose' = FALSE /\ got' = 0 /\ published' = 0 /\ buf' = <<>>

Init == /\ FateInit
        /\ bound \in Apps
        /\ phase = "Idle" /\ req = None /\ early = FALSE /\ complete = FALSE
        /\ untilClose = FALSE /\ got = 0 /\ published = 0 /\ buf = <<>>
        /\ card = [f \in Files |-> [body |-> Absent, ok |-> FALSE]]
        /\ open = None /\ shown = None /\ cutoff = {} /\ begins = 0

HasCompleteCache(d) == d.body \notin {Absent, <<>>} /\ d.ok

RemoveOutputs(d) == {[body |-> Absent, ok |-> FALSE]} \cup
                    {x \in [body : {Absent, d.body}, ok : {FALSE, d.ok}] : MayFail("remove")}

(* Mutant: a whole file is dropped as a partial one is. *)
DropWhole(d) == IF early THEN {[d EXCEPT !.ok = FALSE]} \cup {x \in {d} : MayFail("remove")}
                ELSE RemoveOutputs(d)

(* What cancel and fail leave of the download's files.                      *)
DropPartial(d) == IF complete THEN {d}
                  ELSE IF early THEN {[d EXCEPT !.ok = FALSE]} \cup {x \in {d} : MayFail("remove")}
                  ELSE RemoveOutputs(d)

(* FileSink::flushBuffer: a failed write may leave part of the buffer in    *)
(* the file, and keeps all of it in the buffer.                             *)
Flush(c, b) ==
  {[body |-> c \o b, left |-> <<>>]} \cup
  {[body |-> c \o SubSeq(b, 1, n), left |-> b] : n \in {m \in 0..Len(b) - 1 : MayFail("write")}}

(* FileSink::write writes only when its buffer is full.                     *)
SinkWrite(c, u) == LET b == Append(buf, u) IN
                   IF Len(b) < BufLen THEN {[body |-> c, left |-> b]} ELSE Flush(c, b)

(* Mutant: another app's request is queued. *)
QueueForAnyone(pending) == open' = [file |-> File, pending |-> pending]

Queue(pending) == open' = IF Accepted THEN [file |-> File, pending |-> pending] ELSE open

(* fail(), with the body file as the step before left it.                   *)
Fail(c) == /\ \E x \in DropPartial([card[File] EXCEPT !.body = c]) :
                card' = [card EXCEPT ![File] = x]
           /\ phase' = "Failed" /\ buf' = <<>>
           /\ UNCHANGED <<fate, bound, req, early, complete, untilClose, got, published, open,
                          shown, cutoff, begins>>
-----------------------------------------------------------------------------
(* The script's calls.                                                      *)

(* beginChapter and beginToc after their cancel() left the card as c.       *)
ServeCache(r, c) ==
  /\ HasCompleteCache(c[r.file])
  /\ phase' = "Done" /\ req' = r /\ early' = TRUE /\ complete' = TRUE
  /\ untilClose' = FALSE /\ buf' = <<>>
  /\ got' = Len(c[r.file].body) /\ published' = IF r.file.kind = "toc" THEN got' ELSE 0
  /\ open' = [file |-> r.file, pending |-> FALSE]
  /\ card' = c /\ UNCHANGED cutoff

(* Mutant: only the body of the earlier download is replaced. *)
DownloadOverMarker(r, c) ==
  /\ ~HasCompleteCache(c[r.file]) \/ MayFail("open")
  /\ cutoff' = cutoff \ {r.file}
  /\ UNCHANGED open
  /\ Fresh("Connecting", r) /\ card' = [c EXCEPT ![r.file].body = <<>>]

Download(r, c) ==
  /\ ~HasCompleteCache(c[r.file]) \/ MayFail("open")
  /\ cutoff' = cutoff \ {r.file}
  /\ UNCHANGED open
  /\ \E x \in RemoveOutputs(c[r.file]) :
       \/ Fresh("Connecting", r) /\ card' = [c EXCEPT ![r.file] = [x EXCEPT !.body = <<>>]]
       \/ /\ MayFail("open")
          /\ Fresh("Failed", r)
          /\ \E y \in RemoveOutputs(x) : card' = [c EXCEPT ![r.file] = y]

Cancelled == IF req = None THEN {card}
             ELSE {[card EXCEPT ![File] = x] : x \in DropPartial(card[File])}

Begin(r) == /\ phase # "Closing" /\ r.file.app = bound
            /\ begins < MaxBegins /\ begins' = begins + 1
            /\ \E c \in Cancelled : ServeCache(r, c) \/ Download(r, c)
            /\ UNCHANGED <<fate, bound, shown>>

Cancel == /\ phase \notin {"Idle", "Closing"}
          /\ card' \in Cancelled
          /\ Fresh("Idle", None)
          /\ UNCHANGED <<fate, bound, open, shown, cutoff, begins>>
-----------------------------------------------------------------------------
(* pump(), one step of its loop at a time.                                  *)

Connect == /\ phase = "Connecting"
           /\ phase' = "Streaming" /\ untilClose' \in BOOLEAN
           /\ UNCHANGED <<fate, bound, req, early, complete, got, published, buf, card, open,
                          shown, cutoff, begins>>

ConnectFails == phase = "Connecting" /\ Fail(card[File].body)

(* With n units read: whether the file is flushed for a reader, and whether *)
(* one is asked to open it early (maybeEarlyChapter, maybeEarlyToc).        *)
FlushesAt(n) == IsToc \/ (~early /\ req.early > 0 /\ n >= req.early)
OpensAt(n) == ~early /\ n >= req.early /\ (IsToc \/ req.early > 0)

(* Mutant: the rows are published before they are flushed. *)
PublishFirst(w, n) == {w}

Settle(w, n) == IF FlushesAt(n) THEN Flush(w.body, w.left) ELSE {w}

(* acceptPayload. *)
Receive ==
  /\ Flowing /\ got < Total /\ got < req.max
  /\ got' = got + 1
  /\ \E w \in SinkWrite(card[File].body, got + 1) :
       /\ Len(w.left) < BufLen
       /\ \E x \in Settle(w, got + 1) : buf' = x.left /\ card' = [card EXCEPT ![File].body = x.body]
  /\ published' = IF IsToc THEN got + 1 ELSE 0
  /\ IF OpensAt(got + 1) /\ Accepted
     THEN Queue(~IsToc) /\ early' = TRUE /\ phase' = "EarlyOpened"
     ELSE UNCHANGED <<open, early, phase>>
  /\ UNCHANGED <<fate, bound, req, complete, untilClose, shown, cutoff, begins>>

SinkFails == /\ Flowing /\ got < Total /\ got < req.max
             /\ \E w \in SinkWrite(card[File].body, got + 1) : Len(w.left) = BufLen /\ Fail(w.body)

(* response_too_large, a timeout, a connection closed inside a sized body,  *)
(* a bad chunk, and a document that ends early or has nothing in it.        *)
Breaks == Flowing /\ got < Total /\ Fail(card[File].body)

(* Mutant: the second open is left to the reader that opened early. *)
NoSecondOpen == IF early \/ ~Accepted THEN UNCHANGED open ELSE Queue(FALSE)

FinalOpen == IF IsToc /\ early THEN UNCHANGED open ELSE Queue(FALSE)

(* The end of a body of known length, or any close of one of unknown length *)
(* that is kept as it came; then finishOk until it writes the marker.       *)
Finish == /\ Flowing /\ got > 0 /\ (got = Total \/ (untilClose /\ req.raw))
          /\ \E x \in Flush(card[File].body, buf) : card' = [card EXCEPT ![File].body = x.body]
          /\ FinalOpen
          /\ phase' = "Closing" /\ complete' = TRUE /\ early' = (early \/ Accepted)
          /\ buf' = <<>>
          /\ cutoff' = IF got < Total THEN cutoff \cup {File} ELSE cutoff
          /\ UNCHANGED <<fate, bound, req, untilClose, got, published, shown, begins>>

(* writeOkMarker gives up silently when the marker cannot be created.       *)
WriteOkMarker == /\ phase = "Closing"
                 /\ phase' = "Done"
                 /\ \/ card' = [card EXCEPT ![File].ok = TRUE]
                    \/ MayFail("open") /\ UNCHANGED card
                 /\ UNCHANGED <<fate, bound, req, early, complete, untilClose, got, published,
                                buf, open, shown, cutoff, begins>>

Pump == Connect \/ ConnectFails \/ Receive \/ SinkFails \/ Breaks \/ Finish \/ WriteOkMarker
-----------------------------------------------------------------------------
(* The UI task, the user and the power.                                     *)

TakeOpen == /\ open # None
            /\ shown' = open /\ open' = None
            /\ UNCHANGED <<fate, bound, session, card, cutoff, begins>>

CloseReader == /\ shown # None /\ shown' = None
               /\ UNCHANGED <<fate, bound, session, card, open, cutoff, begins>>

(* clearForApp on the way out and in again: the loader is left as it is.    *)
SwitchApp == /\ phase # "Closing"
             /\ bound' \in Apps /\ open' = None /\ shown' = None
             /\ UNCHANGED <<fate, session, card, cutoff, begins>>

(* The power may also fail between the two removals of removeOutputs, or    *)
(* before the file is created anew.                                         *)
CutCards == {card} \cup
  UNION {{[card EXCEPT ![f].body = Absent], [card EXCEPT ![f] = [body |-> Absent, ok |-> FALSE]]} :
           f \in {g \in Files : \/ (g.app = bound /\ begins < MaxBegins /\ ~HasCompleteCache(card[g]))
                               \/ (req # None /\ g = File /\ ~complete /\ ~early)}}

Crash == /\ PowerCut
         /\ card' \in CutCards
         /\ bound' \in Apps /\ open' = None /\ shown' = None
         /\ Fresh("Idle", None)
         /\ UNCHANGED <<cutoff, begins>>

Next == (\E r \in Requests : Begin(r)) \/ Cancel \/ Pump \/ TakeOpen \/ CloseReader \/ SwitchApp
        \/ Crash

(* The owner's loop pumps a loader that needs it whatever app runs; a       *)
(* silent server runs into the inactivity timeout; the UI task's loop takes *)
(* what is queued.                                                          *)
Spec == Init /\ [][Next]_vars /\ WF_vars(Pump) /\ WF_vars(TakeOpen)
-----------------------------------------------------------------------------
TypeOK == /\ FateOK /\ bound \in Apps /\ phase \in Phases
          /\ req \in Requests \cup {None} /\ (req = None <=> phase = "Idle")
          /\ {early, complete, untilClose} \subseteq BOOLEAN
          /\ got \in Nat /\ published \in 0..got
          /\ buf \in Seq(1..Total) /\ Len(buf) < BufLen
          /\ card \in [Files -> [body : Seq(1..Total) \cup {Absent}, ok : BOOLEAN]]
          /\ {open, shown} \subseteq Opened
          /\ cutoff \subseteq Files /\ begins \in 0..MaxBegins

CardWorks == faults \cap {"write", "remove"} = {}

(* docs/M4_NATIVE_APP_FRAMEWORK.md: "A positive partial file size must      *)
(* never be treated as a complete chapter": what hasCompleteCache accepts   *)
(* is the whole body, through every failure, cancel and power cut.          *)
PartialNeverComplete == \A f \in Files \ cutoff : HasCompleteCache(card[f]) => card[f].body = Whole

(* The same of a card on which writes and removals succeed.                 *)
CompleteIsWhole == CardWorks => PartialNeverComplete

(* The file of an open that is not pending is whole when the UI task takes  *)
(* it and as long as its reader is there: no later request removes or       *)
(* truncates it under the reader, when every call on the card succeeds.     *)
ShownIsWhole == \A o \in {open, shown} \ {None} :
                  faults = {} /\ ~o.pending /\ o.file.kind = "chapter" /\ o.file \notin cutoff
                    => card[o.file].body = Whole

(* A loader that outlives its app never has its chapter opened in another.  *)
AppsOwnOpens == \A o \in {open, shown} \ {None} : o.file.app = bound

(* The catalog never claims a row that is not in the file yet.              *)
PublishedOnCard == CardWorks /\ Flowing => published <= Len(card[File].body)

Waiting == shown # None /\ shown.pending /\ phase \notin {"Idle", "Failed"}

(* The loading placeholder of an early open is followed by the whole        *)
(* chapter, or the script is told that the download failed.                 *)
PlaceholderEnds == Waiting ~> ~Waiting
=============================================================================
