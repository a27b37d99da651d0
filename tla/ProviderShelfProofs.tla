------------------------ MODULE ProviderShelfProofs ------------------------
(* The shelf's two files, for any number of discoveries, of cuts and of     *)
(* kinds of cards: where renames, removals and reads work, commit and       *)
(* recovery make them one durable cell (ImplementsCell); the page's offsets *)
(* are of the rows on the card wherever removals do not fail together with  *)
(* renames or reads (OffsetsMatch), and where none of these fail it shows   *)
(* no rows of an older schema (ShownIsCurrent).                             *)
EXTENDS ProviderShelf, TLAPS

-----------------------------------------------------------------------------
(* Types.                                                                   *)
Contents == Nat \cup {Absent, Torn}
JobSteps == {"none", "fetch", "receive", "describe", "described", "abort", "clear", "back",
             "put", "clean", "undo", "bring", "discard", "ready", "failed", "release"}
Visiting == {"look", "look2", "tidy", "drop", "restore", "probe", "check", "open"}
PageSteps == Visiting \cup {"away", "indexing", "shown"}

SnapshotOK == gSnapshot \in [phase : {"none", "Connecting", "Ready", "Error"}, mine : BOOLEAN,
                             stamp : 0..jobs]
Jobs == [step : JobSteps, file : Pair, number : 0..jobs, renewed : BOOLEAN,
         had : SUBSET Pair, backed : SUBSET Pair, put : SUBSET Pair]
JobOK == job \in Jobs
Pages == [step : PageSteps, file : Pair, backed : SUBSET Pair, present : SUBSET Pair,
          needs : BOOLEAN, reading : Contents, index : Contents, applied : 0..jobs,
          attempted : BOOLEAN, child : BOOLEAN, behind : BOOLEAN]
PageOK == page \in Pages
TypeOK == /\ card \in [Files -> Contents] /\ gBusy \in BOOLEAN /\ jobs \in 0..MaxJobs
          /\ SnapshotOK /\ JobOK /\ PageOK

(* One worker, and the page never visits the card while a discovery of its  *)
(* own app is at work, unless it was entered beside it.                     *)
Idle == job.step \in {"none", "release"}

Apart == /\ gBusy = (job.step # "none")
         /\ ~Idle => gSnapshot.mine /\ gSnapshot.phase # "Ready" /\ job.number = jobs /\ jobs > 0
         /\ page.step \in Visiting /\ ~Idle => page.behind /\ "reenter" \in faults

(* Where the files are.  Backups are there only in a commit, or while no    *)
(* page has recovered what a cut has left of one.                           *)
BackedUp(f) == card[Old[f]] # Absent

Generation(f) == IF f = "rows" THEN job.number ELSE CurrentSchema

Tidied == page.step \in {"probe", "check", "open", "indexing", "shown"}

InCommit == In("back") \/ In("put") \/ In("clean")

NoDebris == ~InCommit /\ (~Idle \/ Tidied) => \A f \in Pair : ~BackedUp(f)

Sibling == card.meta # Absent /\ BackedUp("meta") => card.rows # Absent

(* The backups found or made; those whose turn has not passed.              *)
Kept(who) == \A f \in Pair : BackedUp(f) <=> f \in who.backed
Left(who) == \A f \in Pair : BackedUp(f) <=> f \in who.backed /\ (f = "meta" \/ who.file = "rows")

Committing ==
  /\ ~(In("undo") \/ In("bring") \/ In("discard"))
  /\ job.step \in {"fetch", "receive", "describe", "described", "clear"} => job.backed = {}
  /\ In("describe") \/ In("described") => card.rowsNew = job.number
  /\ In("clear") \/ In("back") => \A f \in Pair : card[New[f]] = Generation(f)
  /\ In("back") => /\ Kept(job) /\ ~BackedUp("meta") /\ ("meta" \in job.had <=> card.meta # Absent)
                   /\ job.file = "rows" => ("rows" \in job.had <=> card.rows # Absent)
                                           /\ ~BackedUp("rows")
                   /\ job.file = "meta" => card.rows = Absent
  /\ In("put") => /\ Kept(job) /\ card.meta = Absent /\ card.metaNew = CurrentSchema
                  /\ job.file = "rows" => card.rows = Absent /\ card.rowsNew = job.number
                  /\ job.file = "meta" => card.rows = job.number
  /\ In("clean") => Left(job) /\ \A f \in Pair : card[f] = Generation(f)

Recovering ==
  /\ At("look2") => page.file = "rows" /\ Left(page)
  /\ At("tidy") => Left(page) /\ card.rows # Absent /\ card.meta # Absent
  /\ At("drop") \/ At("restore") =>
       /\ Left(page)
       /\ BackedUp("meta") => card.meta = Absent
       /\ page.file = "rows" => card.rows = Absent \/ card.meta = Absent
  /\ At("drop") /\ page.file = "rows" => page.present = Present
  /\ At("restore") /\ BackedUp("rows") => card.rows = Absent

(* The pair is one of those on offer.                                       *)
Offered == /\ offered \subseteq {Absent} \cup 1..jobs
           /\ Shelf \in offered
           /\ ~Idle => job.number \in offered

CellInv == CardMoves => NoDebris /\ Sibling /\ Committing /\ Recovering /\ Offered

(* The rows are numbered, so an answer taken up is never the next one's.    *)
Numbers == {Absent, Torn} \cup 0..jobs

Numbered == /\ \A f \in {"rows", "rowsNew", "rowsOld"} : card[f] \in Numbers
            /\ page.reading \in Numbers
            /\ ~Idle => page.applied < job.number
            /\ page.index # Absent => At("shown") /\ page.index = page.reading

(* The page's offsets are followed while it has or makes an index, and the  *)
(* code has not left it behind: the card has the rows it reads, or none, or *)
(* an answer tells of others.  In a commit, it is the backup that has them. *)
Tracks == Open /\ ~page.behind /\ (At("indexing") \/ page.index # Absent)

Same == card["rows"] \in {page.reading, Absent}
Spare == "rows" \in job.backed => card["rowsOld"] \in {page.reading, Absent}

Following ==
  /\ Idle => Missing \/ Same
  /\ ~Idle => page.reading # job.number
  /\ job.step \in {"fetch", "receive", "describe", "described", "abort", "clear", "discard", "failed"}
       => Same
  /\ job.step \in {"fetch", "receive", "describe", "described", "clear"}
       => job.backed = {} /\ job.put = {}
  /\ job.step \in {"describe", "described", "clear", "back"} => card["rowsNew"] # Absent
  /\ job.step \in {"clear", "back", "put"} => card["metaNew"] # Absent
  /\ In("back") => /\ job.put = {} /\ Spare /\ ("meta" \in job.had <=> card["meta"] # Absent)
                   /\ job.file = "rows" => Same /\ ("rows" \in job.had <=> card["rows"] # Absent)
                   /\ job.file = "meta" => card["rows"] = Absent
  /\ In("put") => /\ Spare /\ card["meta"] = Absent
                  /\ job.file = "meta" => "rows" \in job.put
                  /\ job.file = "rows" => card["rows"] = Absent /\ card["rowsNew"] # Absent
  /\ In("undo") => /\ Spare /\ (job.put # {} => ~MayFail("remove"))
                   /\ job.file = "rows" /\ "rows" \notin job.put => card["rows"] = Absent
                   /\ job.file = "meta" => card["rows"] = Absent
  /\ In("bring") => /\ Spare
                    /\ job.file = "rows" => card["rows"] = Absent
                    /\ job.file = "meta" => Same

OffsetInv == Numbered /\ (Tracks => Following)

(* The rows of an older schema, on a page that comes when nothing runs.     *)
FreshInv == CardMoves => /\ At("open") => card["meta"] = CurrentSchema
                         /\ page.index # 0 /\ page.reading # 0
-----------------------------------------------------------------------------
LEMMA Names ==
  /\ Files = {"rows", "meta", "rowsNew", "metaNew", "rowsOld", "metaOld"}
  /\ Pair = {"rows", "meta"} /\ Pair \subseteq Files
  /\ New["rows"] = "rowsNew" /\ New["meta"] = "metaNew"
  /\ Old["rows"] = "rowsOld" /\ Old["meta"] = "metaOld"
  /\ Absent \notin Nat /\ Torn \notin Nat /\ MaxJobs \in Nat
BY ShelfAssumption DEF Files, Pair, New, Old

(* What the calls leave on the card.                                        *)
LEMMA CardTypes ==
  ASSUME card \in [Files -> Contents], NEW f \in Files, NEW g \in Files
  PROVE  /\ Remove(f) => card' \in [Files -> Contents]
         /\ \A ok : Renamed(f, g, ok) => card' \in [Files -> Contents]
         /\ \A c \in Contents : card' = [card EXCEPT ![f] = c] => card' \in [Files -> Contents]
BY DEF Remove, Renamed, Contents

LEMMA JobTypes ==
  ASSUME JobOK
  PROVE  /\ \A s \in JobSteps : To(s) \in Jobs /\ Onward(s) \in Jobs
         /\ \A j \in Jobs, fs \in SUBSET Pair :
              /\ [j EXCEPT !.had = fs] \in Jobs
              /\ [j EXCEPT !.backed = @ \cup fs] \in Jobs
              /\ [j EXCEPT !.put = @ \cup fs] \in Jobs
              /\ [j EXCEPT !.renewed = TRUE] \in Jobs
<1>1. \A s \in JobSteps : To(s) \in Jobs /\ Onward(s) \in Jobs
  BY Names DEF JobOK, Jobs, To, Onward
<1>2. \A j \in Jobs, fs \in SUBSET Pair :
        /\ [j EXCEPT !.had = fs] \in Jobs
        /\ [j EXCEPT !.backed = @ \cup fs] \in Jobs
        /\ [j EXCEPT !.put = @ \cup fs] \in Jobs
        /\ [j EXCEPT !.renewed = TRUE] \in Jobs
  BY DEF Jobs
<1> QED
  BY <1>1, <1>2

LEMMA WorkerTypes ==
  ASSUME TypeOK, Worker
  PROVE  card' \in [Files -> Contents] /\ JobOK'
<1> USE Names DEF TypeOK, In, CardOnly, WorkerKeeps
<1>0. \A f \in Pair : New[f] \in Files /\ Old[f] \in Files
  BY DEF Pair
<1>c. CurrentSchema \in Contents /\ Torn \in Contents /\ \A n \in 0..jobs : n \in Contents
  BY DEF Contents, CurrentSchema
<1>s. Jobs' = Jobs
  BY DEF Worker, Fetch, Renew, Receive, Describe, Abort, Clear, Back, Put, Clean, Undo, Bring, Discard,
         Publish, Release, Jobs
<1>t. \A s \in {"abort", "receive", "describe", "described", "clear", "failed", "discard", "undo",
               "back", "put", "clean", "ready", "bring", "release"} :
        To(s) \in Jobs /\ Onward(s) \in Jobs
  BY JobTypes DEF JobSteps
<1>1. CASE Fetch \/ Renew
  <2>1. [To("fetch") EXCEPT !.renewed = TRUE] \in Jobs /\ "rowsNew" \in Files
    BY JobTypes DEF JobSteps
  <2> QED
    BY <1>1, <2>1, <1>c, <1>s, <1>t, CardTypes DEF Fetch, Renew, JobOK
<1>2. CASE Receive
  BY <1>2, <1>s, <1>t, <1>c, CardTypes DEF Receive, JobOK, Jobs
<1>3. CASE Describe
  BY <1>3, <1>s, <1>t, <1>c, CardTypes DEF Describe, JobOK
<1>4. CASE Abort
  BY <1>4, <1>s, <1>t, CardTypes DEF Abort, JobOK
<1>5. CASE Clear
  <2>1. Present \in SUBSET Pair
    BY DEF Present
  <2>2. [Onward("back") EXCEPT !.had = Present] \in Jobs
    BY <2>1, <1>t, JobTypes
  <2> QED
    BY <1>5, <2>2, <1>0, <1>s, <1>t, CardTypes DEF Clear, JobOK, Jobs
<1>6. CASE Back
  <2>1. {job.file} \in SUBSET Pair
    BY DEF JobOK, Jobs
  <2>2. [Onward("put") EXCEPT !.backed = @ \cup {job.file}] \in Jobs
    BY <2>1, <1>t, JobTypes
  <2> QED
    BY <1>6, <2>2, <1>0, <1>s, <1>t, CardTypes DEF Back, JobOK, Jobs
<1>7. CASE Put
  <2>1. PICK ok \in BOOLEAN, measured \in BOOLEAN :
          /\ Renamed(New[job.file], job.file, ok)
          /\ job' = [(IF ok /\ measured THEN Onward("clean") ELSE To("undo"))
                       EXCEPT !.put = @ \cup {f \in {job.file} : ok}]
    BY <1>7 DEF Put, RenameResults
  <2>2. {f \in {job.file} : ok} \in SUBSET Pair
    BY DEF JobOK, Jobs
  <2>3. \A j \in Jobs : [j EXCEPT !.put = @ \cup {f \in {job.file} : ok}] \in Jobs
    BY <2>2, JobTypes
  <2>4. job' \in Jobs
    BY <2>1, <2>3, <1>t
  <2>5. New[job.file] \in Files /\ job.file \in Files
    BY <1>0 DEF JobOK, Jobs
  <2>6. card' \in [Files -> Contents]
    BY <2>1, <2>5, CardTypes
  <2> QED
    BY <2>4, <2>6, <1>s DEF JobOK
<1>8. CASE Clean
  BY <1>8, <1>s, <1>t, <1>0, CardTypes DEF Clean, JobOK, Jobs
<1>9. CASE Undo
  BY <1>9, <1>s, <1>t, <1>0, CardTypes DEF Undo, JobOK, Jobs
<1>10. CASE Bring
  BY <1>10, <1>s, <1>t, <1>0, CardTypes DEF Bring, JobOK, Jobs
<1>11. CASE Discard
  BY <1>11, <1>s, <1>t, <1>0, CardTypes DEF Discard, JobOK, Jobs
<1>12. CASE Publish
  BY <1>12, <1>s, <1>t DEF Publish, JobOK
<1>13. CASE Release
  BY <1>13, <1>s DEF Release, shelf, NoJob, JobOK, Jobs, JobSteps
<1> QED
  BY <1>1, <1>2, <1>3, <1>4, <1>5, <1>6, <1>7, <1>8, <1>9, <1>10, <1>11, <1>12, <1>13 DEF Worker

LEMMA PageFields ==
  /\ PageOK => \A s \in PageSteps : PageTo(s) \in Pages /\ PageOnward(s) \in Pages
  /\ \A p \in Pages, s \in PageSteps : /\ [p EXCEPT !.step = s] \in Pages
                                      /\ [p EXCEPT !.step = s, !.file = "meta"] \in Pages
  /\ \A p \in Pages, fs \in SUBSET Pair : /\ [p EXCEPT !.backed = fs] \in Pages
                                         /\ [p EXCEPT !.present = fs] \in Pages
  /\ \A p \in Pages, c \in Contents : /\ [p EXCEPT !.index = c] \in Pages
                                     /\ [p EXCEPT !.needs = FALSE, !.reading = c] \in Pages
  /\ \A p \in Pages, n \in 0..jobs : [p EXCEPT !.applied = n] \in Pages
  /\ \A p \in Pages, b \in BOOLEAN : /\ [p EXCEPT !.needs = b] \in Pages
                                    /\ [p EXCEPT !.attempted = b] \in Pages
                                    /\ [p EXCEPT !.child = b] \in Pages
                                    /\ [p EXCEPT !.behind = b] \in Pages
<1>1. PageOK => \A s \in PageSteps : PageTo(s) \in Pages /\ PageOnward(s) \in Pages
  BY Names DEF PageOK, Pages, PageTo, PageOnward
<1>2. \A p \in Pages, s \in PageSteps : /\ [p EXCEPT !.step = s] \in Pages
                                      /\ [p EXCEPT !.step = s, !.file = "meta"] \in Pages
  <2>1. "meta" \in Pair
    BY Names
  <2>2. \A p \in Pages, s \in PageSteps : [p EXCEPT !.step = s] \in Pages
    BY DEF Pages
  <2>3. \A p \in Pages : [p EXCEPT !.file = "meta"] \in Pages
    BY <2>1 DEF Pages
  <2>4. \A p \in Pages, s \in PageSteps :
          [p EXCEPT !.step = s, !.file = "meta"] = [[p EXCEPT !.step = s] EXCEPT !.file = "meta"]
    OBVIOUS
  <2> QED
    BY <2>2, <2>3, <2>4
<1>3. \A p \in Pages, fs \in SUBSET Pair : /\ [p EXCEPT !.backed = fs] \in Pages
                                         /\ [p EXCEPT !.present = fs] \in Pages
  BY DEF Pages
<1>4. \A p \in Pages, c \in Contents : /\ [p EXCEPT !.index = c] \in Pages
                                     /\ [p EXCEPT !.needs = FALSE, !.reading = c] \in Pages
  BY DEF Pages
<1>5. \A p \in Pages, n \in 0..jobs : [p EXCEPT !.applied = n] \in Pages
  BY DEF Pages
<1>6. \A p \in Pages, b \in BOOLEAN : /\ [p EXCEPT !.needs = b] \in Pages
                                    /\ [p EXCEPT !.attempted = b] \in Pages
                                    /\ [p EXCEPT !.child = b] \in Pages
                                    /\ [p EXCEPT !.behind = b] \in Pages
  BY DEF Pages
<1> QED
  BY <1>1, <1>2, <1>3, <1>4, <1>5, <1>6

LEMMA AskedTypes ==
  ASSUME PageOK
  PROVE  \A b \in BOOLEAN : Asked(b) \in Pages
<1> TAKE b \in BOOLEAN
<1> DEFINE asked == [page EXCEPT !.attempted = b]
           behind == page.behind \/ Missing
<1>1. asked \in Pages
  BY PageFields DEF PageOK
<1>2. behind \in BOOLEAN
  BY DEF Missing, PageOK, Pages
<1>3. Asked(b) = [asked EXCEPT !.behind = behind]
  BY DEF Asked
<1>4. \A p \in Pages, c \in BOOLEAN : [p EXCEPT !.behind = c] \in Pages
  BY PageFields
<1> HIDE DEF asked, behind
<1> QED
  BY <1>1, <1>2, <1>3, <1>4

LEMMA PageTypes ==
  ASSUME TypeOK, Page \/ Poll \/ Enter \/ Refresh \/ StartDefault \/ Child \/ Leave
  PROVE  card' \in [Files -> Contents] /\ page' \in Pages
<1> USE Names DEF TypeOK, PageOnly, Recovers, discovery, shelf
<1>0. \A f \in Pair : f \in Files /\ Old[f] \in Files
  BY DEF Pair
<1>1. page.file \in Pair /\ page.reading \in Contents /\ page.step \in PageSteps
      /\ Old[page.file] \in Files /\ page.file \in Files
  BY <1>0 DEF PageOK, Pages
<1>2. \A s \in {"look", "look2", "tidy", "drop", "restore", "probe", "check", "open", "indexing",
               "shown", "away"} : s \in PageSteps /\ PageTo(s) \in Pages /\ PageOnward(s) \in Pages
  BY PageFields DEF PageSteps, Visiting
<1>3. Away \in Pages /\ Begun \in Pages /\ NotReady \in Pages /\ Absent \in Contents
  <2>1. Absent \in Contents
    BY DEF Contents
  <2>2. Away \in Pages
    BY <2>1 DEF Away, Pages, PageSteps
  <2>3. Begun \in Pages
    <3>1. [PageTo("look") EXCEPT !.index = Absent] \in Pages
      BY <2>1, <1>2, PageFields
    <3>2. Begun = [[PageTo("look") EXCEPT !.index = Absent] EXCEPT !.behind = FALSE]
      BY DEF Begun
    <3> QED
      BY <3>1, <3>2, PageFields
  <2>4. NotReady \in Pages
    BY <2>1, <1>2, PageFields DEF NotReady
  <2> QED
    BY <2>1, <2>2, <2>3, <2>4
<1>a. \A b \in BOOLEAN : Asked(b) \in Pages
  BY AskedTypes
<1>4. CASE Look
  <2>1. {f \in Pair : card[Old[f]] # Absent} \in SUBSET Pair
    BY DEF Pair
  <2> QED
    BY <1>4, <2>1, <1>2, PageFields DEF Look
<1>5. CASE LookFinals
  <2>1. Present \in SUBSET Pair
    BY DEF Present
  <2> QED
    BY <1>5, <2>1, <1>2, PageFields DEF LookFinals
<1>6. CASE Tidy
  BY <1>6, <1>1, <1>2, CardTypes DEF Tidy
<1>7. CASE Drop
  BY <1>7, <1>1, <1>2, CardTypes, PageFields DEF Drop, PageOK
<1>8. CASE Restore
  <2>1. page' \in Pages
    BY <1>8, <1>2, PageFields DEF Restore, PageOK
  <2> QED
    BY <1>8, <2>1, <1>1, CardTypes DEF Restore
<1>9. CASE Probe
  BY <1>9, <1>2, <1>3 DEF Probe
<1>10. CASE Check
  BY <1>10, <1>2, <1>3 DEF Check
<1>11. CASE OpenRows
  <2>1. card.rows \in Contents
    BY DEF Files
  <2>2. [PageTo("indexing") EXCEPT !.needs = FALSE, !.reading = card.rows] \in Pages
    BY <2>1, <1>2, PageFields
  <2>3. [PageTo("shown") EXCEPT !.needs = FALSE] \in Pages
    BY <1>2, PageFields
  <2> QED
    BY <1>11, <2>2, <2>3, <1>3 DEF OpenRows
<1>12. CASE Index
  <2>1. [PageTo("shown") EXCEPT !.index = page.reading] \in Pages
    BY <1>1, <1>2, PageFields
  <2> QED
    BY <1>12, <2>1, <1>3 DEF Index
<1>13. CASE Sync
  <2>1. (page.behind \/ Missing) \in BOOLEAN
    BY DEF Missing, PageOK, Pages
  <2>2. [page EXCEPT !.behind = (page.behind \/ Missing)] \in Pages
    BY <2>1, PageFields DEF PageOK
  <2>3. (IF At("indexing") THEN [page EXCEPT !.behind = (page.behind \/ Missing)] ELSE Begun) \in Pages
    BY <2>2, <1>3
  <2> QED
    BY <1>13, <2>3, PageFields DEF Sync, SnapshotOK
<1>14. CASE AutoDiscover
  BY <1>14, <1>a DEF AutoDiscover, Start
<1>15. CASE Enter
  <2>1. [Away EXCEPT !.step = "look"] \in Pages /\ Mine \in BOOLEAN
    BY <1>2, <1>3, PageFields DEF Mine, SnapshotOK
  <2>2. [Away EXCEPT !.step = "look", !.behind = Mine] = [[Away EXCEPT !.step = "look"] EXCEPT !.behind = Mine]
    OBVIOUS
  <2> QED
    BY <1>15, <2>1, <2>2, PageFields DEF Enter
<1>16. CASE Refresh
  <2>1. [page EXCEPT !.attempted = TRUE] \in Pages
    BY PageFields DEF PageOK
  <2>2. CASE Mine /\ Attempt /\ UNCHANGED <<shelf, discovery, fate>>
    BY <2>1, <2>2 DEF Attempt
  <2>3. CASE Start /\ page' = Asked(page.attempted \/ gBusy')
    <3>1. gBusy' \in BOOLEAN /\ card' = card
      BY <2>3 DEF Start
    <3>2. (page.attempted \/ gBusy') \in BOOLEAN
      OBVIOUS
    <3> QED
      BY <1>a, <2>3, <3>1, <3>2
  <2> QED
    BY <1>16, <2>2, <2>3 DEF Refresh
<1>17. CASE Leave
  BY <1>17, <1>3 DEF Leave
<1>18. CASE StartDefault
  BY <1>18, <1>a DEF StartDefault, Start, PageOK, Pages
<1>19. CASE Child
  <2>1. page \in Pages /\ TRUE \in BOOLEAN /\ FALSE \in BOOLEAN
    BY DEF PageOK
  <2>2. (~page.child) \in BOOLEAN
    OBVIOUS
  <2>3. [page EXCEPT !.child = ~page.child] \in Pages
    BY <2>1, <2>2, PageFields
  <2> QED
    BY <1>19, <2>3 DEF Child
<1> QED
  BY <1>4, <1>5, <1>6, <1>7, <1>8, <1>9, <1>10, <1>11, <1>12, <1>13, <1>14, <1>15, <1>16, <1>17,
     <1>18, <1>19 DEF Page, Poll

(* A new discovery leaves the types of everything else alone.               *)
LEMMA StartTypes ==
  ASSUME TypeOK, Start
  PROVE  /\ gBusy' \in BOOLEAN /\ jobs' \in 0..MaxJobs /\ SnapshotOK' /\ JobOK'
         /\ page' \in Pages => PageOK'
<1>1. jobs' = jobs + 1 /\ jobs' \in 0..MaxJobs /\ jobs \in Nat
  BY Names DEF TypeOK, Start
<1>2. job' \in Jobs'
  <2>1. CASE job' = [NoJob EXCEPT !.step = "fetch", !.number = jobs + 1]
    <3>1. job' = [step |-> "fetch", file |-> "rows", number |-> jobs + 1, renewed |-> FALSE,
                  had |-> {}, backed |-> {}, put |-> {}]
      BY <2>1 DEF NoJob
    <3>2. "rows" \in Pair /\ "fetch" \in JobSteps /\ jobs + 1 \in 0..jobs'
      BY <1>1, Names DEF JobSteps
    <3> QED
      BY <3>1, <3>2 DEF Jobs
  <2>2. CASE job' = job
    BY <1>1, <2>2 DEF TypeOK, JobOK, Jobs
  <2> QED
    BY <2>1, <2>2 DEF Start
<1>3. page' \in Pages => page' \in Pages'
  BY <1>1 DEF Pages
<1> QED
  <2>1. gBusy' \in BOOLEAN
    BY DEF Start, TypeOK
  <2>2. SnapshotOK'
    <3>1. PICK p \in {"Connecting", "Error"} : gSnapshot' = [phase |-> p, mine |-> TRUE, stamp |-> 0]
      BY DEF Start
    <3>2. 0 \in 0..jobs'
      BY <1>1
    <3> QED
      BY <3>1, <3>2 DEF SnapshotOK
  <2> QED
    BY <1>1, <1>2, <1>3, <2>1, <2>2 DEF JobOK, PageOK

LEMMA StepTypes == TypeOK /\ [Next]_vars => TypeOK'
<1> SUFFICES ASSUME TypeOK, [Next]_vars PROVE TypeOK'
  OBVIOUS
<1>1. CASE Worker
  <2>1. UNCHANGED <<jobs, page>> /\ gBusy' \in BOOLEAN
    BY <1>1 DEF Worker, Fetch, Renew, Receive, Describe, Abort, Clear, Back, Put, Clean, Undo, Bring,
                Discard, Publish, Release, CardOnly, WorkerKeeps, TypeOK
  <2>2. CASE UNCHANGED gSnapshot
    BY <1>1, <2>1, <2>2, WorkerTypes DEF TypeOK, SnapshotOK, PageOK, Pages
  <2>3. CASE Publish
    <3>1. job.number \in 0..jobs
      BY DEF TypeOK, JobOK, Jobs
    <3>2. SnapshotOK'
      BY <2>1, <2>3, <3>1 DEF Publish, TypeOK, SnapshotOK
    <3> QED
      BY <1>1, <2>1, <3>2, WorkerTypes DEF TypeOK, PageOK, Pages
  <2> QED
    BY <1>1, <2>2, <2>3 DEF Worker, Fetch, Renew, Receive, Describe, Abort, Clear, Back, Put, Clean, Undo,
                            Bring, Discard, Release, CardOnly
<1>2. CASE Page \/ Poll \/ Enter \/ Refresh \/ StartDefault \/ Child \/ Leave
  <2>1. card' \in [Files -> Contents] /\ page' \in Pages
    BY <1>2, PageTypes
  <2>2. CASE UNCHANGED discovery
    BY <2>1, <2>2 DEF discovery, TypeOK, SnapshotOK, JobOK, Jobs, PageOK, Pages
  <2>3. CASE Start
    BY <2>1, <2>3, StartTypes DEF TypeOK
  <2> QED
    BY <1>2, <2>2, <2>3 DEF Page, Poll, Enter, Refresh, StartDefault, Child, Leave, Look, LookFinals, Tidy, Drop, Restore,
         Probe, Check, OpenRows, Index, Sync, AutoDiscover, PageOnly, Recovers, discovery
<1>3. CASE OtherApp
  <2>1. [NoJob EXCEPT !.step = "release"] \in Jobs
    <3>1. NoJob \in Jobs
      BY Names DEF NoJob, Jobs, JobSteps, TypeOK
    <3>2. "release" \in JobSteps
      BY DEF JobSteps
    <3> QED
      BY <3>1, <3>2 DEF Jobs
  <2> QED
    BY <1>3, <2>1 DEF OtherApp, shelf, TypeOK, SnapshotOK, JobOK, Jobs, PageOK, Pages
<1>4. CASE Crash
  <2>1. NoJob \in Jobs /\ Away \in Pages /\ 0 \in 0..jobs
    BY Names DEF NoJob, Jobs, JobSteps, TypeOK, Away, Pages, PageSteps, Contents
  <2> QED
    BY <1>4, <2>1 DEF Crash, shelf, Silent, TypeOK, SnapshotOK, JobOK, Jobs, PageOK, Pages
<1>5. CASE UNCHANGED vars
  BY <1>5 DEF vars, shelf, discovery, TypeOK, SnapshotOK, JobOK, Jobs, PageOK, Pages
<1> QED
  BY <1>1, <1>2, <1>3, <1>4, <1>5 DEF Next

LEMMA InitTypes == Init => TypeOK
<1> SUFFICES ASSUME Init PROVE TypeOK
  OBVIOUS
<1>1. card \in [Files -> Contents]
  BY DEF Init, Contents
<1>2. jobs = 0 /\ 0 \in 0..jobs /\ 0 \in 0..MaxJobs /\ "rows" \in Pair /\ Absent \in Contents
  BY Names DEF Init, Contents
<1>3. JobOK
  BY <1>2 DEF Init, JobOK, Jobs, JobSteps, NoJob
<1>4. PageOK
  BY <1>2 DEF Init, PageOK, Pages, PageSteps, Away
<1> QED
  BY <1>1, <1>2, <1>3, <1>4 DEF Init, TypeOK, SnapshotOK, Silent

(* Every file, snapshot, and local of worker and page stays of its kind,    *)
(* whatever calls fail (commitTempFilesPair, beginShelfIndex).              *)
THEOREM ShelfTyping == Spec => []TypeOK
BY InitTypes, StepTypes, PTL DEF Spec
-----------------------------------------------------------------------------
(* One worker at a time.                                                    *)
AtCard == Fetch \/ Renew \/ Receive \/ Describe \/ Abort \/ Clear \/ Back \/ Put \/ Clean \/ Undo \/ Bring \/ Discard

LEMMA AtCardSteps ==
  ASSUME TypeOK, AtCard
  PROVE  /\ ~Idle /\ job'.step # "none" /\ job'.number = job.number
         /\ UNCHANGED <<gBusy, gSnapshot, jobs, page, offered, fate>>
<1> USE DEF Idle, In, To, Onward, TypeOK, JobOK, Jobs
<1>1. UNCHANGED <<gBusy, gSnapshot, jobs, page, offered, fate>>
  BY DEF AtCard, Fetch, Renew, Receive, Describe, Abort, Clear, Back, Put, Clean, Undo, Bring, Discard,
         CardOnly, WorkerKeeps
<1>2. CASE Fetch \/ Renew \/ Receive \/ Describe \/ Abort
  BY <1>2, <1>1 DEF Fetch, Renew, Receive, Describe, Abort
<1>3. CASE Clear
  BY <1>3, <1>1 DEF Clear
<1>4. CASE Back
  BY <1>4, <1>1 DEF Back
<1>5. CASE Put
  BY <1>5, <1>1 DEF Put
<1>6. CASE Clean \/ Undo \/ Bring \/ Discard
  BY <1>6, <1>1 DEF Clean, Undo, Bring, Discard
<1> QED
  BY <1>2, <1>3, <1>4, <1>5, <1>6 DEF AtCard

LEMMA ApartStep ==
  ASSUME TypeOK, Apart, [Next]_vars
  PROVE  Apart'
<1> USE DEF Apart, Idle, Visiting, In, At, PageTo, PageOnward, Asked, fate
<1>1. CASE AtCard
  BY <1>1, AtCardSteps
<1>2. CASE Publish
  BY <1>2 DEF Publish, WorkerKeeps, To, TypeOK, JobOK, Jobs
<1>3. CASE Release
  BY <1>3 DEF Release, WorkerKeeps, NoJob
<1>4. CASE Page
  BY <1>4 DEF Page, Look, LookFinals, Tidy, Drop, Restore, Probe, Check, OpenRows, PageOnly, Recovers,
              discovery, NotReady, TypeOK, PageOK, Pages
<1>5. CASE Enter
  BY <1>5 DEF Enter, Mine, PageOnly, discovery, Away
<1>6. CASE Sync
  BY <1>6 DEF Sync, Unread, PageOnly, discovery, Begun, TypeOK, PageOK, Pages
<1>7. CASE Index \/ Leave \/ Child
  <2>1. page'.step \in {"shown", "indexing", "away"} /\ UNCHANGED discovery
    <3>1. CASE Index
      BY <3>1 DEF Index, PageOnly, NotReady, TypeOK, PageOK, Pages
    <3>2. CASE Leave
      BY <3>2 DEF Leave, PageOnly, Away
    <3>3. CASE Child
      BY <3>3 DEF Child, Open, PageOnly, TypeOK, PageOK, Pages
    <3> QED
      BY <1>7, <3>1, <3>2, <3>3
  <2> QED
    BY <2>1 DEF discovery
<1>8. CASE Start /\ (AutoDiscover \/ Refresh \/ StartDefault)
  <2>1. page'.step = page.step /\ page.step \in {"shown", "indexing"}
    BY <1>8 DEF AutoDiscover, Refresh, StartDefault, Open, Seen, Attempt, TypeOK, PageOK, Pages
  <2>2. jobs' = jobs + 1 /\ jobs \in Nat
    BY <1>8 DEF Start, TypeOK
  <2>3. CASE gBusy' = TRUE /\ job' = [NoJob EXCEPT !.step = "fetch", !.number = jobs + 1]
             /\ gSnapshot' = [phase |-> "Connecting", mine |-> TRUE, stamp |-> 0]
    <3>1. job'.step = "fetch" /\ job'.number = jobs + 1
      BY <2>3 DEF NoJob
    <3>2. page'.step \notin Visiting
      BY <2>1
    <3>3. gSnapshot'.mine = TRUE /\ gSnapshot'.phase = "Connecting"
      BY <2>3
    <3>4. job'.number = jobs' /\ jobs' > 0
      BY <2>2, <3>1
    <3>5. gBusy' = (job'.step # "none")
      BY <2>3, <3>1
    <3> QED
      BY <3>2, <3>3, <3>4, <3>5
  <2>4. CASE UNCHANGED <<gBusy, job>>
    BY <1>8, <2>1, <2>4 DEF Start
  <2> QED
    BY <1>8, <2>3, <2>4 DEF Start
<1>9. CASE Refresh /\ UNCHANGED discovery
  BY <1>9 DEF Refresh, Open, Seen, Attempt, Start, discovery, TypeOK, PageOK, Pages
<1>10. CASE OtherApp
  BY <1>10 DEF OtherApp, NoJob
<1>11. CASE Crash
  BY <1>11 DEF Crash, NoJob, Away
<1>12. CASE UNCHANGED vars
  BY <1>12 DEF vars, discovery
<1>13. Refresh => Start \/ UNCHANGED discovery
  BY DEF Refresh
<1>14. (AutoDiscover => Start) /\ (StartDefault => Start)
  BY DEF AutoDiscover, StartDefault
<1> QED
  BY <1>1, <1>2, <1>3, <1>4, <1>5, <1>6, <1>7, <1>8, <1>9, <1>10, <1>11, <1>12, <1>13, <1>14
  DEF Next, Poll, Worker, AtCard
-----------------------------------------------------------------------------
(* The calls, on a card where only opens and writes fail.                   *)
LEMMA Calls ==
  ASSUME TypeOK, CardMoves, NEW f \in Files, NEW g \in Files, f # g
  PROVE  /\ ~MayFail("read")
         /\ Remove(f) => card'[f] = Absent /\ \A h \in Files : h # f => card'[h] = card[h]
         /\ \A ok \in RenameResults(f, g) : Renamed(f, g, ok) =>
              IF card[f] # Absent /\ card[g] = Absent
              THEN /\ ok /\ card'[f] = Absent /\ card'[g] = card[f]
                   /\ \A h \in Files : h # f /\ h # g => card'[h] = card[h]
              ELSE ~ok /\ card' = card
<1>1. ~MayFail("rename") /\ ~MayFail("remove") /\ ~MayFail("read")
  BY DEF CardMoves, MayFail
<1>2. Remove(f) => card' = [card EXCEPT ![f] = Absent]
  BY <1>1 DEF Remove
<1> QED
  BY <1>1, <1>2 DEF TypeOK, RenameResults, Renamed, CanRename

(* The pair a visit finds and shows, in terms of the files.                 *)
Half(c) == c["rows"] = Absent \/ c["meta"] = Absent
RowsIn(c) == IF Half(c) /\ c["rowsOld"] # Absent THEN c["rowsOld"] ELSE c["rows"]
MetaIn(c) == IF Half(c) /\ c["metaOld"] # Absent THEN c["metaOld"] ELSE c["meta"]
ShelfIn(c) == IF MetaIn(c) = CurrentSchema THEN RowsIn(c) ELSE Absent

LEMMA Halves == /\ Present # Pair <=> Half(card)
                /\ (Present # Pair)' <=> Half(card')
BY Names DEF Present, Half

LEMMA Shelves == Shelf = ShelfIn(card) /\ Shelf' = ShelfIn(card')
<1> USE Names, Halves DEF RowsIn, MetaIn
<1>1. Recovered.rows = RowsIn(card) /\ Recovered.meta = MetaIn(card)
  BY DEF Recovered
<1>2. Recovered'.rows = RowsIn(card') /\ Recovered'.meta = MetaIn(card')
  BY DEF Recovered
<1> QED
  BY <1>1, <1>2 DEF Shelf, ShelfIn

Held == Apart /\ NoDebris /\ Sibling /\ Committing /\ Recovering

LEMMA StageStep ==
  ASSUME TypeOK, CardMoves, Held, Fetch \/ Renew \/ Receive \/ Describe \/ Abort
  PROVE  NoDebris' /\ Sibling' /\ Committing' /\ Shelf' = Shelf
<1> USE Names DEF NoDebris, Sibling, Committing, InCommit, Idle, BackedUp, Generation, Kept, Left, In, Held, CardOnly, WorkerKeeps
<1>0. /\ card' # card => \E f \in {"rowsNew", "metaNew"} : \E c : card' = [card EXCEPT ![f] = c]
      /\ \A s : To(s).step = s /\ To(s).number = job.number /\ To(s).backed = job.backed
  BY DEF Fetch, Renew, Receive, Describe, Abort, Remove, To, TypeOK, JobOK, Jobs
<1>1. /\ \A h \in {"rows", "meta", "rowsOld", "metaOld"} : card'[h] = card[h]
      /\ job'.step \in {"fetch", "receive", "abort", "describe", "described", "clear", "failed"}
      /\ job'.number = job.number /\ job'.backed = job.backed
      /\ job'.step \in {"describe", "described", "clear"} => card'.rowsNew = job.number
      /\ job'.step = "clear" => card'.metaNew = CurrentSchema
  <2>1. \A h \in {"rows", "meta", "rowsOld", "metaOld"} : card'[h] = card[h]
    BY <1>0 DEF TypeOK
  <2>2. CASE Fetch
    BY <1>0, <2>1, <2>2 DEF Fetch
  <2>3. CASE Receive
    BY <1>0, <2>1, <2>3 DEF Receive, TypeOK
  <2>4. CASE Describe
    BY <1>0, <2>1, <2>4 DEF Describe, TypeOK
  <2>5. CASE Abort
    BY <1>0, <2>1, <2>5 DEF Abort
  <2>6. CASE Renew
    <3>1. job'.step = "fetch" /\ job'.number = job.number /\ job'.backed = job.backed
      BY <2>6 DEF Renew, To, TypeOK, JobOK, Jobs
    <3> QED
      BY <2>1, <3>1
  <2> QED
    BY <2>2, <2>3, <2>4, <2>5, <2>6
<1>2. Shelf' = Shelf
  BY <1>1, Shelves DEF ShelfIn, RowsIn, MetaIn, Half
<1>3. UNCHANGED page /\ job.step \in {"fetch", "receive", "describe", "described", "abort"}
  BY DEF Fetch, Renew, Receive, Describe, Abort
<1>4. job'.step \in {"fetch", "receive", "describe", "described", "clear"} => job.backed = {}
  BY <1>3 DEF Fetch, Renew, Receive, Describe, Abort, To, TypeOK, JobOK, Jobs
<1> QED
  BY <1>1, <1>2, <1>3, <1>4 DEF Tidied

LEMMA ClearStep ==
  ASSUME TypeOK, CardMoves, Held, Clear
  PROVE  NoDebris' /\ Sibling' /\ Committing' /\ Shelf' = Shelf
<1> USE Names DEF Held
<1>1. job.file \in {"rows", "meta"} /\ job.backed = {} /\ In("clear")
  BY DEF Clear, TypeOK, JobOK, Jobs, Committing, In
<1>2. /\ Remove(Old[job.file])
      /\ job' = [Onward("back") EXCEPT !.had = Present]
  BY Calls DEF Clear
<1>3. \A h \in Files : card'[h] = card[h]
  <2>1. card["rowsOld"] = Absent /\ card["metaOld"] = Absent
    BY <1>1 DEF NoDebris, InCommit, Idle, In, BackedUp
  <2>2. card' = [card EXCEPT ![Old[job.file]] = Absent] \/ card' = card
    BY <1>2 DEF Remove
  <2> QED
    BY <1>1, <2>1, <2>2 DEF TypeOK
<1>4. /\ job'.number = job.number /\ job'.backed = {} /\ job'.had = Present
      /\ job.file = "rows" => job'.step = "clear"
      /\ job.file = "meta" => job'.step = "back" /\ job'.file = "rows"
  BY <1>1, <1>2 DEF Onward, To, In, TypeOK, JobOK, Jobs
<1>5. Shelf' = Shelf
  BY <1>3, Shelves DEF ShelfIn, RowsIn, MetaIn, Half
<1>6. UNCHANGED page
  BY DEF Clear, CardOnly, WorkerKeeps
<1> QED
  BY <1>1, <1>3, <1>4, <1>5, <1>6
  DEF NoDebris, Sibling, Committing, InCommit, Idle, BackedUp, Generation, Kept, Left, In, Present, Tidied

LEMMA BackStep ==
  ASSUME TypeOK, CardMoves, Held, Back
  PROVE  NoDebris' /\ Sibling' /\ Committing' /\ Shelf' = Shelf
<1> USE Names DEF Held
<1>1. /\ job.file \in {"rows", "meta"} /\ In("back") /\ Kept(job)
      /\ card["metaOld"] = Absent /\ card["metaNew"] = CurrentSchema
      /\ card["rowsNew"] = job.number
      /\ job.file \in job.had <=> card[job.file] # Absent
      /\ job.file = "rows" => card["rowsOld"] = Absent
      /\ job.file = "meta" => card["rows"] = Absent
      /\ "meta" \in job.had <=> card["meta"] # Absent
  BY DEF Back, TypeOK, JobOK, Jobs, Committing, In, BackedUp, Generation
<1>2. /\ job'.number = job.number /\ UNCHANGED page
      /\ job'.had = job.had
      /\ job.file = "rows" => job'.step = "back" /\ job'.file = "meta"
      /\ job.file = "meta" => job'.step = "put" /\ job'.file = "rows"
      /\ \A f \in Pair : f \in job'.backed <=> f \in job.backed \/ (f = job.file /\ f \in job.had)
      /\ card[job.file] = Absent => card' = card
      /\ card[job.file] # Absent =>
           /\ card'[job.file] = Absent /\ card'[Old[job.file]] = card[job.file]
           /\ \A h \in Files : h # job.file /\ h # Old[job.file] => card'[h] = card[h]
  <2>1. CASE job.file \notin job.had
    <3>1. job' = Onward("put") /\ card' = card /\ UNCHANGED page
      BY <2>1 DEF Back, CardOnly, WorkerKeeps
    <3>2. CASE job.file = "rows"
      BY <1>1, <2>1, <3>1, <3>2 DEF Onward, In, TypeOK, JobOK, Jobs
    <3>3. CASE job.file = "meta"
      BY <1>1, <2>1, <3>1, <3>3 DEF Onward, To, In, TypeOK, JobOK, Jobs
    <3> QED
      BY <1>1, <3>2, <3>3
  <2>2. CASE job.file \in job.had
    <3>1. PICK ok \in RenameResults(job.file, Old[job.file]) :
            /\ Renamed(job.file, Old[job.file], ok)
            /\ job' = IF ok THEN [Onward("put") EXCEPT !.backed = @ \cup {job.file}]
                      ELSE To(IF job.file = "rows" THEN "discard" ELSE "undo")
      BY <2>2 DEF Back
    <3>2. card[job.file] # Absent /\ card[Old[job.file]] = Absent
      BY <1>1, <2>2
    <3>3. /\ ok /\ card'[job.file] = Absent /\ card'[Old[job.file]] = card[job.file]
          /\ \A h \in Files : h # job.file /\ h # Old[job.file] => card'[h] = card[h]
      <4>1. job.file \in Files /\ Old[job.file] \in Files /\ job.file # Old[job.file]
        BY <1>1
      <4> QED
        BY <3>1, <3>2, <4>1, Calls
    <3>4. job' = [Onward("put") EXCEPT !.backed = @ \cup {job.file}]
      BY <3>1, <3>3
    <3> QED
      BY <1>1, <2>2, <3>2, <3>3, <3>4 DEF Back, CardOnly, WorkerKeeps, Onward, To, In, TypeOK, JobOK, Jobs
  <2> QED
    BY <2>1, <2>2
<1>3. NoDebris' /\ Sibling' /\ Committing'
  <2>1. CASE job.file = "rows"
    BY <1>1, <1>2, <2>1 DEF NoDebris, Sibling, Committing, InCommit, Idle, BackedUp, Generation, Kept, In, Tidied
  <2>2. CASE job.file = "meta"
    BY <1>1, <1>2, <2>2 DEF NoDebris, Sibling, Committing, InCommit, Idle, BackedUp, Generation, Kept, In, Tidied
  <2> QED
    BY <1>1, <2>1, <2>2
<1>4. Shelf' = Shelf
  <2>1. CASE job.file = "rows"
    BY <1>1, <1>2, <2>1, Shelves DEF ShelfIn, RowsIn, MetaIn, Half
  <2>2. CASE job.file = "meta"
    BY <1>1, <1>2, <2>2, Shelves DEF ShelfIn, RowsIn, MetaIn, Half
  <2> QED
    BY <1>1, <2>1, <2>2
<1> QED
  BY <1>3, <1>4

LEMMA PutStep ==
  ASSUME TypeOK, CardMoves, Held, Put
  PROVE  NoDebris' /\ Sibling' /\ Committing' /\ Shelf' \in {Shelf, job.number}
<1> USE Names DEF Held
<1>1. /\ job.file \in {"rows", "meta"} /\ In("put") /\ Kept(job)
      /\ card["meta"] = Absent /\ card["metaNew"] = CurrentSchema
      /\ job.file = "rows" => card["rows"] = Absent /\ card["rowsNew"] = job.number
      /\ job.file = "meta" => card["rows"] = job.number
      /\ job.number # Absent /\ CurrentSchema # Absent
  BY DEF Put, TypeOK, JobOK, Jobs, Committing, In, CurrentSchema
<1>2. PICK ok \in RenameResults(New[job.file], job.file), measured \in BOOLEAN :
        /\ measured \/ MayFail("read")
        /\ Renamed(New[job.file], job.file, ok)
        /\ job' = [(IF ok /\ measured THEN Onward("clean") ELSE To("undo"))
                     EXCEPT !.put = @ \cup {f \in {job.file} : ok}]
  BY DEF Put
<1>3. /\ ok /\ measured
      /\ card'[New[job.file]] = Absent /\ card'[job.file] = card[New[job.file]]
      /\ \A h \in Files : h # New[job.file] /\ h # job.file => card'[h] = card[h]
  <2>1. job.file \in Files /\ New[job.file] \in Files /\ job.file # New[job.file]
    BY <1>1
  <2>2. card[New[job.file]] # Absent /\ card[job.file] = Absent
    BY <1>1
  <2> QED
    BY <1>2, <2>1, <2>2, Calls
<1>4. job' = [Onward("clean") EXCEPT !.put = @ \cup {f \in {job.file} : ok}] /\ UNCHANGED page
  BY <1>2, <1>3 DEF Put, CardOnly, WorkerKeeps
<1>5. /\ job'.number = job.number /\ job'.backed = job.backed
      /\ job.file = "rows" => job'.step = "put" /\ job'.file = "meta"
      /\ job.file = "meta" => job'.step = "clean" /\ job'.file = "rows"
  BY <1>1, <1>4 DEF Onward, To, In, TypeOK, JobOK, Jobs
<1>6. NoDebris' /\ Sibling' /\ Committing'
  <2>1. CASE job.file = "rows"
    BY <1>1, <1>3, <1>4, <1>5, <2>1 DEF NoDebris, Sibling, Committing, InCommit, Idle, BackedUp, Generation, Kept, Left, In, Tidied
  <2>2. CASE job.file = "meta"
    BY <1>1, <1>3, <1>4, <1>5, <2>2 DEF NoDebris, Sibling, Committing, InCommit, Idle, BackedUp, Generation, Kept, Left, In, Tidied
  <2> QED
    BY <1>1, <2>1, <2>2
<1>7. Shelf' \in {Shelf, job.number}
  <2>1. CASE job.file = "rows"
    BY <1>1, <1>3, <2>1, Shelves DEF ShelfIn, RowsIn, MetaIn, Half
  <2>2. CASE job.file = "meta"
    BY <1>1, <1>3, <2>2, Shelves DEF ShelfIn, RowsIn, MetaIn, Half
  <2> QED
    BY <1>1, <2>1, <2>2
<1> QED
  BY <1>6, <1>7

LEMMA CleanStep ==
  ASSUME TypeOK, CardMoves, Held, Clean
  PROVE  NoDebris' /\ Sibling' /\ Committing' /\ Shelf' = Shelf
<1> USE Names DEF Held
<1>1. /\ job.file \in {"rows", "meta"} /\ In("clean") /\ Left(job)
      /\ card["rows"] = job.number /\ card["meta"] = CurrentSchema
      /\ job.number # Absent /\ CurrentSchema # Absent
  BY DEF Clean, TypeOK, JobOK, Jobs, Committing, Generation, In, CurrentSchema
<1>2. /\ card'[Old[job.file]] = Absent
      /\ \A h \in Files : h # Old[job.file] => card'[h] = card[h]
  <2>1. job.file \in Files /\ Old[job.file] \in Files /\ job.file # Old[job.file]
    BY <1>1
  <2>2. job.file \notin job.backed => card[Old[job.file]] = Absent
    BY <1>1 DEF Left, BackedUp
  <2> QED
    BY <2>1, <2>2, Calls DEF Clean
<1>3. /\ UNCHANGED page /\ job'.number = job.number /\ job'.backed = job.backed
      /\ job.file = "rows" => job'.step = "clean" /\ job'.file = "meta"
      /\ job.file = "meta" => job'.step = "ready"
  BY <1>1 DEF Clean, CardOnly, WorkerKeeps, Onward, To, In, TypeOK, JobOK, Jobs
<1>4. NoDebris' /\ Sibling' /\ Committing'
  <2>1. CASE job.file = "rows"
    BY <1>1, <1>2, <1>3, <2>1 DEF NoDebris, Sibling, Committing, InCommit, Idle, BackedUp, Generation, Left, In, Tidied
  <2>2. CASE job.file = "meta"
    BY <1>1, <1>2, <1>3, <2>2 DEF NoDebris, Sibling, Committing, InCommit, Idle, BackedUp, Generation, Left, In, Tidied
  <2> QED
    BY <1>1, <2>1, <2>2
<1>5. Shelf' = Shelf
  <2>1. ~Half(card) /\ ~Half(card') /\ card'["rows"] = card["rows"] /\ card'["meta"] = card["meta"]
    BY <1>1, <1>2 DEF Half
  <2> QED
    BY <2>1, Shelves DEF ShelfIn, RowsIn, MetaIn
<1> QED
  BY <1>4, <1>5

(* A commit leaves the pair as it was or moves it to the new rows.          *)
LEMMA WorkerCell ==
  ASSUME TypeOK, CardMoves, Held, AtCard
  PROVE  NoDebris' /\ Sibling' /\ Committing' /\ Shelf' \in {Shelf, job.number}
<1>1. ~Undo /\ ~Bring /\ ~Discard
  BY DEF Undo, Bring, Discard, Held, Committing
<1> QED
  BY <1>1, StageStep, ClearStep, BackStep, PutStep, CleanStep DEF AtCard

(* A recovery leaves the pair as it was.                                    *)
LEMMA LookStep ==
  ASSUME TypeOK, CardMoves, Held, Look \/ LookFinals
  PROVE  NoDebris' /\ Recovering' /\ UNCHANGED <<card, job>>
<1> USE Names DEF Held, At, PageTo, PageOnly, discovery, shelf
<1>1. UNCHANGED <<card, job>> /\ Idle
  BY DEF Look, LookFinals, Apart, CardMoves, Visiting
<1>2. CASE Look
  <2>1. \A f \in Pair : BackedUp(f)' <=> BackedUp(f)
    BY <1>1 DEF BackedUp
  <2>2. PICK backed : /\ backed = {f \in Pair : card[Old[f]] # Absent}
                      /\ page' = [PageTo(IF backed = {} THEN "probe" ELSE "look2") EXCEPT !.backed = backed]
    BY <1>2 DEF Look
  <2>3. page'.step = (IF backed = {} THEN "probe" ELSE "look2") /\ page'.file = "rows" /\ page'.backed = backed
    BY <2>2 DEF TypeOK, PageOK, Pages
  <2>4. \A f \in Pair : BackedUp(f) <=> f \in backed
    BY <2>2 DEF BackedUp
  <2> QED
    BY <1>1, <2>1, <2>3, <2>4 DEF NoDebris, Recovering, Left, InCommit, Idle, In, Tidied
<1>3. CASE LookFinals
  <2>1. /\ page'.step = (IF Whole(Present) THEN "tidy" ELSE "drop") /\ page'.file = "rows"
        /\ page'.backed = page.backed /\ page'.present = Present
        /\ page.file = "rows" /\ Left(page)
    BY <1>3 DEF LookFinals, Recovering, TypeOK, PageOK, Pages
  <2>2. Whole(Present) <=> card["rows"] # Absent /\ card["meta"] # Absent
    BY Halves DEF Whole, Half
  <2>3. BackedUp("meta") /\ ~Whole(Present) => card["meta"] = Absent
    BY <2>2 DEF Sibling
  <2>4. Present' = Present
    BY <1>1 DEF Present
  <2>5. Left(page)'
    BY <1>1, <2>1 DEF Left, BackedUp
  <2> QED
    BY <1>1, <2>1, <2>2, <2>3, <2>4, <2>5 DEF NoDebris, Recovering, BackedUp, InCommit, Idle, In, Tidied
<1> QED
  BY <1>1, <1>2, <1>3

LEMMA TidyStep ==
  ASSUME TypeOK, CardMoves, Held, Tidy
  PROVE  NoDebris' /\ Sibling' /\ Recovering' /\ Shelf' = Shelf
<1> USE Names DEF Held, At, Recovers, discovery
<1>1. /\ page.file \in {"rows", "meta"} /\ Left(page) /\ UNCHANGED job /\ Idle
      /\ card["rows"] # Absent /\ card["meta"] # Absent
  BY DEF Tidy, Apart, CardMoves, Visiting, TypeOK, PageOK, Pages, Recovering
<1>2. /\ card'[Old[page.file]] = Absent
      /\ \A h \in Files : h # Old[page.file] => card'[h] = card[h]
  <2>1. page.file \in Files /\ Old[page.file] \in Files /\ page.file # Old[page.file]
    BY <1>1
  <2>2. page.file \notin page.backed => card[Old[page.file]] = Absent
    BY <1>1 DEF Left, BackedUp
  <2> QED
    BY <2>1, <2>2, Calls DEF Tidy
<1>3. /\ page'.backed = page.backed
      /\ page.file = "rows" => page'.step = "tidy" /\ page'.file = "meta"
      /\ page.file = "meta" => page'.step = "probe"
  BY <1>1 DEF Tidy, PageOnward, PageTo, TypeOK, PageOK, Pages
<1>4. NoDebris' /\ Sibling' /\ Recovering'
  <2>1. CASE page.file = "rows"
    BY <1>1, <1>2, <1>3, <2>1 DEF NoDebris, Sibling, Recovering, Left, InCommit, Idle, BackedUp, In, Tidied
  <2>2. CASE page.file = "meta"
    BY <1>1, <1>2, <1>3, <2>2 DEF NoDebris, Sibling, Recovering, Left, InCommit, Idle, BackedUp, In, Tidied
  <2> QED
    BY <1>1, <2>1, <2>2
<1>5. Shelf' = Shelf
  <2>1. ~Half(card) /\ ~Half(card') /\ card'["rows"] = card["rows"] /\ card'["meta"] = card["meta"]
    BY <1>1, <1>2 DEF Half
  <2> QED
    BY <2>1, Shelves DEF ShelfIn, RowsIn, MetaIn
<1> QED
  BY <1>4, <1>5

LEMMA DropStep ==
  ASSUME TypeOK, CardMoves, Held, Drop
  PROVE  NoDebris' /\ Sibling' /\ Recovering' /\ Shelf' = Shelf
<1> USE Names DEF Held, At, Recovers, discovery
<1>1. /\ page.file \in {"rows", "meta"} /\ Left(page) /\ UNCHANGED job /\ Idle
      /\ BackedUp("meta") => card["meta"] = Absent
      /\ page.file = "rows" => card["rows"] = Absent \/ card["meta"] = Absent
      /\ page.file = "rows" => page.present = Present
  BY DEF Drop, Apart, CardMoves, Visiting, TypeOK, PageOK, Pages, Recovering
<1>2. page'.step = "restore" /\ page'.file = page.file /\ page'.backed = page.backed
  BY DEF Drop, TypeOK, PageOK, Pages
<1>3. CASE page.file = "rows" /\ BackedUp("rows")
  <2>1. card'["rows"] = Absent /\ \A h \in Files : h # "rows" => card'[h] = card[h]
    <3>1. "rows" \in page.backed /\ ("rows" \in page.present <=> card["rows"] # Absent)
      BY <1>1, <1>3 DEF Left, Present
    <3>2. "rows" \in Files /\ "meta" \in Files
      OBVIOUS
    <3> QED
      BY <1>3, <3>1, <3>2, Calls DEF Drop
  <2>2. NoDebris' /\ Sibling' /\ Recovering'
    BY <1>1, <1>2, <1>3, <2>1 DEF NoDebris, Sibling, Recovering, Left, InCommit, Idle, BackedUp, In, Tidied
  <2>3. Shelf' = Shelf
    BY <1>1, <1>3, <2>1, Shelves DEF ShelfIn, RowsIn, MetaIn, Half, BackedUp
  <2> QED
    BY <2>2, <2>3
<1>4. CASE ~(page.file = "rows" /\ BackedUp("rows"))
  <2>1. \A h \in Files : card'[h] = card[h]
    <3>1. page.file \in page.backed => card[page.file] = Absent
      BY <1>1, <1>4 DEF Left
    <3>2. card' = card \/ (page.file \in page.backed /\ card' = [card EXCEPT ![page.file] = Absent])
      BY DEF Drop, Remove
    <3> QED
      BY <1>1, <3>1, <3>2 DEF TypeOK
  <2>2. NoDebris' /\ Sibling' /\ Recovering'
    BY <1>1, <1>2, <1>4, <2>1 DEF NoDebris, Sibling, Recovering, Left, InCommit, Idle, BackedUp, In, Tidied
  <2>3. Shelf' = Shelf
    BY <2>1, Shelves DEF ShelfIn, RowsIn, MetaIn, Half
  <2> QED
    BY <2>2, <2>3
<1> QED
  BY <1>3, <1>4

LEMMA RestoreStep ==
  ASSUME TypeOK, CardMoves, Held, Restore
  PROVE  NoDebris' /\ Sibling' /\ Recovering' /\ Shelf' = Shelf
<1> USE Names DEF Held, At, Recovers, discovery
<1>1. /\ page.file \in {"rows", "meta"} /\ Left(page) /\ UNCHANGED job /\ Idle
      /\ BackedUp("meta") => card["meta"] = Absent
      /\ BackedUp("rows") => card["rows"] = Absent
  BY DEF Restore, Apart, CardMoves, Visiting, TypeOK, PageOK, Pages, Recovering
<1>2. /\ page'.backed = page.backed
      /\ page.file = "rows" => page'.step = "drop" /\ page'.file = "meta"
      /\ page.file = "meta" => page'.step = "probe"
  BY <1>1 DEF Restore, PageTo, TypeOK, PageOK, Pages
<1>3. IF BackedUp(page.file)
      THEN /\ card'[page.file] = card[Old[page.file]] /\ card'[Old[page.file]] = Absent
           /\ \A h \in Files : h # page.file /\ h # Old[page.file] => card'[h] = card[h]
      ELSE card' = card
  <2>1. page.file \in page.backed <=> BackedUp(page.file)
    BY <1>1 DEF Left
  <2>2. page.file \in Files /\ Old[page.file] \in Files /\ page.file # Old[page.file]
    BY <1>1
  <2>3. BackedUp(page.file) => card[page.file] = Absent /\ card[Old[page.file]] # Absent
    BY <1>1 DEF BackedUp
  <2> QED
    BY <2>1, <2>2, <2>3, Calls DEF Restore
<1>4. NoDebris' /\ Sibling' /\ Recovering'
  <2>1. CASE page.file = "rows"
    BY <1>1, <1>2, <1>3, <2>1 DEF NoDebris, Sibling, Recovering, Left, InCommit, Idle, BackedUp, In, Tidied
  <2>2. CASE page.file = "meta"
    BY <1>1, <1>2, <1>3, <2>2 DEF NoDebris, Sibling, Recovering, Left, InCommit, Idle, BackedUp, In, Tidied
  <2> QED
    BY <1>1, <2>1, <2>2
<1>5. Shelf' = Shelf
  <2>1. CASE page.file = "rows"
    BY <1>1, <1>3, <2>1, Shelves DEF ShelfIn, RowsIn, MetaIn, Half, BackedUp
  <2>2. CASE page.file = "meta"
    BY <1>1, <1>3, <2>2, Shelves DEF ShelfIn, RowsIn, MetaIn, Half, BackedUp, Left
  <2> QED
    BY <1>1, <2>1, <2>2
<1> QED
  BY <1>4, <1>5

LEMMA ReadSteps ==
  ASSUME TypeOK, CardMoves, Held, Probe \/ Check \/ OpenRows
  PROVE  NoDebris' /\ Recovering' /\ UNCHANGED <<card, job>>
<1>1. UNCHANGED <<card, job>>
  BY DEF Probe, Check, OpenRows, PageOnly, shelf, discovery
<1>2. page.step \in {"probe", "check", "open"} /\ page'.step \in {"check", "open", "indexing", "shown"}
  BY DEF Probe, Check, OpenRows, At, PageTo, NotReady, TypeOK, PageOK, Pages
<1> QED
  BY <1>1, <1>2 DEF Held, NoDebris, Recovering, InCommit, Idle, BackedUp, In, At, Tidied

LEMMA VisitCell ==
  ASSUME TypeOK, CardMoves, Held, Page
  PROVE  /\ NoDebris' /\ Sibling' /\ Committing' /\ Recovering' /\ Shelf' = Shelf
         /\ Idle /\ UNCHANGED <<job, jobs>>
<1>1. Idle /\ UNCHANGED <<job, jobs>>
  BY DEF Page, Look, LookFinals, Tidy, Drop, Restore, Probe, Check, OpenRows, PageOnly, Recovers,
         discovery, Held, Apart, CardMoves, At, Visiting
<1>2. Committing'
  BY <1>1 DEF Committing, Idle, In
<1>3. CASE UNCHANGED card
  <2>1. Sibling' /\ Shelf' = Shelf
    BY <1>3, Shelves DEF Held, Sibling, BackedUp
  <2>2. NoDebris' /\ Recovering'
    BY LookStep, ReadSteps, TidyStep, DropStep, RestoreStep DEF Page
  <2> QED
    BY <1>1, <1>2, <2>1, <2>2
<1>4. CASE Tidy \/ Drop \/ Restore
  BY <1>1, <1>2, <1>4, TidyStep, DropStep, RestoreStep
<1> QED
  BY <1>1, <1>3, <1>4, LookStep, ReadSteps DEF Page

(* Everything else leaves the card alone.                                   *)
Quiet == Publish \/ Release \/ Poll \/ Enter \/ Refresh \/ StartDefault \/ Child \/ Leave
         \/ OtherApp \/ Crash

LEMMA QuietSteps ==
  ASSUME TypeOK, Held, Quiet
  PROVE  /\ UNCHANGED card
         /\ page'.step \in Visiting => page' = page \/ page'.step = "look"
         /\ Tidied' => Tidied
         /\ \/ UNCHANGED <<job, jobs>>
            \/ job'.step \in {"none", "release"} /\ UNCHANGED jobs /\ ~(InCommit /\ Tidied')
            \/ /\ job'.step = "fetch" /\ job'.backed = {} /\ Tidied /\ Idle
               /\ job'.number = jobs + 1 /\ jobs' = jobs + 1 /\ offered' = offered \cup {jobs + 1}
            \/ jobs' = jobs + 1 /\ UNCHANGED <<job, offered>>
         /\ \/ UNCHANGED offered
            \/ offered' = {Shelf} /\ Idle' /\ UNCHANGED jobs
            \/ offered' = offered \cup {jobs + 1} /\ jobs' = jobs + 1
<1> USE DEF Tidied, Visiting, Seen, Asked, shelf, discovery, InCommit, In
<1>1. CASE Publish
  BY <1>1 DEF Publish, WorkerKeeps, To, Idle, TypeOK, JobOK, Jobs
<1>2. CASE Release
  BY <1>2 DEF Release, WorkerKeeps, NoJob
<1>3. CASE OtherApp
  BY <1>3 DEF OtherApp, NoJob, At
<1>4. CASE Crash
  BY <1>4 DEF Crash, NoJob, Away
<1>5. CASE Enter
  BY <1>5 DEF Enter, PageOnly, Away
<1>6. CASE Leave \/ Child
  BY <1>6 DEF Leave, Child, Open, At, PageOnly, Away, TypeOK, PageOK, Pages
<1>7. CASE Index
  BY <1>7 DEF Index, At, PageOnly, PageTo, NotReady, TypeOK, PageOK, Pages
<1>8. CASE Sync
  BY <1>8 DEF Sync, Open, At, PageOnly, PageTo, Begun, TypeOK, PageOK, Pages
<1>9. CASE Start /\ (AutoDiscover \/ Refresh \/ StartDefault)
  <2>1. page'.step = page.step /\ page.step \in {"shown", "indexing"}
    BY <1>9 DEF AutoDiscover, Refresh, StartDefault, Open, At, Attempt, TypeOK, PageOK, Pages
  <2>2. UNCHANGED card /\ jobs' = jobs + 1 /\ Idle
    BY <1>9 DEF Start, Held, Apart, Idle
  <2>3. \/ UNCHANGED <<job, offered>>
        \/ job' = [NoJob EXCEPT !.step = "fetch", !.number = jobs + 1] /\ offered' = offered \cup {jobs + 1}
    BY <1>9 DEF Start
  <2> QED
    BY <2>1, <2>2, <2>3 DEF NoJob
<1>10. CASE Refresh /\ UNCHANGED <<shelf, discovery, fate>>
  BY <1>10 DEF Refresh, Open, At, Attempt, Start, TypeOK, PageOK, Pages
<1> QED
  <2>1. Refresh => Start \/ UNCHANGED <<shelf, discovery, fate>>
    BY DEF Refresh
  <2>2. (AutoDiscover => Start) /\ (StartDefault => Start)
    BY DEF AutoDiscover, StartDefault
  <2> QED
    BY <1>1, <1>2, <1>3, <1>4, <1>5, <1>6, <1>7, <1>8, <1>9, <1>10, <2>1, <2>2 DEF Quiet, Poll

LEMMA QuietCell ==
  ASSUME TypeOK, CardMoves, Held, Quiet
  PROVE  NoDebris' /\ Sibling' /\ Committing' /\ Recovering' /\ Shelf' = Shelf
<1>1. Sibling' /\ Shelf' = Shelf
  BY QuietSteps, Shelves DEF Held, Sibling, BackedUp
<1>2. NoDebris'
  BY QuietSteps DEF Held, NoDebris, BackedUp, InCommit, Idle, In
<1>3. Committing'
  <2>1. CASE UNCHANGED job
    BY <2>1, QuietSteps DEF Held, Committing, BackedUp, Generation, Kept, Left, In
  <2>2. CASE job'.step \in {"none", "release"}
    BY <2>2 DEF Committing, In
  <2>3. CASE job'.step = "fetch" /\ job'.backed = {}
    BY <2>3 DEF Committing, In
  <2> QED
    BY <2>1, <2>2, <2>3, QuietSteps
<1>4. Recovering'
  <2>1. CASE UNCHANGED page
    BY <2>1, QuietSteps DEF Held, Recovering, BackedUp, Left, At, Present
  <2>2. CASE page'.step = "look" \/ page'.step \notin Visiting
    BY <2>2 DEF Recovering, At, Visiting
  <2> QED
    BY <2>1, <2>2, QuietSteps
<1> QED
  BY <1>1, <1>2, <1>3, <1>4

LEMMA FaultsStay == [Next]_vars => UNCHANGED faults
<1> USE DEF fate
<1>1. Worker => UNCHANGED faults
  BY DEF Worker, Fetch, Renew, Receive, Describe, Abort, Clear, Back, Put, Clean, Undo, Bring, Discard,
         Publish, Release, CardOnly, WorkerKeeps
<1>2. Page => UNCHANGED faults
  BY DEF Page, Look, LookFinals, Tidy, Drop, Restore, Probe, Check, OpenRows, PageOnly, Recovers
<1>3. Poll \/ Enter \/ Refresh \/ StartDefault \/ Child \/ Leave => UNCHANGED faults
  BY DEF Poll, Index, Sync, AutoDiscover, Enter, Refresh, StartDefault, Child, Leave, Start, PageOnly
<1>4. OtherApp \/ Crash => UNCHANGED faults
  BY DEF OtherApp, Crash, PowerCut
<1> QED
  BY <1>1, <1>2, <1>3, <1>4 DEF Next, vars

LEMMA Steps == Next => AtCard \/ Page \/ Quiet
BY DEF Next, Worker, AtCard, Quiet

(* What a step does to the pair and to what is on offer.                    *)
CellMoves == \/ Shelf' \in {Shelf, job.number} /\ ~Idle /\ UNCHANGED <<offered, jobs>> /\ job'.number = job.number
             \/ Shelf' = Shelf /\ UNCHANGED offered /\ jobs' >= jobs /\ (Idle' \/ UNCHANGED job)
             \/ Shelf' = Shelf /\ offered' = {Shelf} /\ Idle' /\ UNCHANGED jobs
             \/ /\ Shelf' = Shelf /\ offered' = offered \cup {jobs + 1} /\ jobs' = jobs + 1
                /\ job'.number = jobs + 1

LEMMA CellStep ==
  ASSUME TypeOK, Apart, CellInv, CardMoves, [Next]_vars
  PROVE  NoDebris' /\ Sibling' /\ Committing' /\ Recovering' /\ CellMoves
<1> USE DEF Held, CellInv
<1>1. CASE AtCard
  <2>1. Recovering'
    BY <1>1, AtCardSteps DEF Recovering, Apart, CardMoves, At, Visiting
  <2> QED
    BY <1>1, <2>1, AtCardSteps, WorkerCell DEF CellMoves
<1>2. CASE Page
  <2>1. Idle'
    BY <1>2, VisitCell DEF Idle
  <2>2. UNCHANGED offered \/ offered' = {Shelf}
    BY <1>2 DEF Page, Look, LookFinals, Tidy, Drop, Restore, Probe, Check, OpenRows, PageOnly, Recovers, shelf
  <2>3. jobs \in Nat
    BY DEF TypeOK
  <2> QED
    BY <1>2, <2>1, <2>2, <2>3, VisitCell DEF CellMoves
<1>3. CASE Quiet
  <2>1. jobs \in Nat
    BY DEF TypeOK
  <2>2. CellMoves
    BY <1>3, <2>1, QuietSteps, QuietCell DEF CellMoves, Idle
  <2> QED
    BY <1>3, <2>2, QuietCell
<1>4. CASE UNCHANGED vars
  <2>1. jobs \in Nat
    BY DEF TypeOK
  <2>2. Sibling' /\ Shelf' = Shelf
    BY <1>4, Shelves DEF Sibling, BackedUp, vars, shelf
  <2>3. NoDebris'
    BY <1>4 DEF NoDebris, BackedUp, InCommit, Idle, In, Tidied, vars, shelf, discovery
  <2>4. Committing'
    BY <1>4 DEF Committing, BackedUp, Generation, Kept, Left, In, vars, shelf, discovery
  <2>5. Recovering'
    BY <1>4 DEF Recovering, BackedUp, Left, At, Present, vars, shelf
  <2> QED
    BY <1>4, <2>1, <2>2, <2>3, <2>4, <2>5 DEF CellMoves, vars, shelf, discovery
<1> QED
  BY <1>1, <1>2, <1>3, <1>4, Steps

LEMMA StepCellInv ==
  ASSUME TypeOK, Apart, CellInv, [Next]_vars
  PROVE  CellInv'
<1> SUFFICES ASSUME CardMoves PROVE NoDebris' /\ Sibling' /\ Committing' /\ Recovering' /\ Offered'
  BY FaultsStay DEF CellInv, CardMoves
<1>1. Offered /\ CellMoves /\ jobs \in Nat /\ jobs' \in Nat
  BY CellStep, StepTypes DEF CellInv, TypeOK
<1>2. Offered'
  <2> USE <1>1 DEF Offered
  <2>1. CASE Shelf' \in {Shelf, job.number} /\ ~Idle /\ UNCHANGED <<offered, jobs>> /\ job'.number = job.number
    BY <2>1
  <2>2. CASE Shelf' = Shelf /\ UNCHANGED offered /\ jobs' >= jobs /\ (Idle' \/ UNCHANGED job)
    BY <2>2 DEF Idle
  <2>3. CASE Shelf' = Shelf /\ offered' = {Shelf} /\ Idle' /\ UNCHANGED jobs
    BY <2>3
  <2>4. CASE /\ Shelf' = Shelf /\ offered' = offered \cup {jobs + 1} /\ jobs' = jobs + 1
             /\ job'.number = jobs + 1
    BY <2>4
  <2> QED
    BY <2>1, <2>2, <2>3, <2>4 DEF CellMoves
<1> QED
  BY <1>2, CellStep

LEMMA InitCellInv == Init => Apart /\ CellInv /\ Cell!Init
<1> SUFFICES ASSUME Init PROVE Apart /\ CellInv /\ Cell!Init
  OBVIOUS
<1> USE Names DEF Init
<1>1. Apart
  BY DEF Apart, Idle, NoJob, Away, Visiting
<1>2. Shelf = Absent
  <2>1. MetaIn(card) = Absent
    BY DEF MetaIn
  <2> QED
    BY <2>1, Shelves DEF ShelfIn, CurrentSchema
<1>3. \A f \in Pair : ~BackedUp(f)
  BY DEF BackedUp
<1>4. NoDebris /\ Sibling /\ Committing /\ Recovering
  BY <1>3 DEF NoDebris, Sibling, Committing, Recovering, In, At, NoJob, Away
<1>5. Offered
  BY <1>2 DEF Offered, Idle, NoJob
<1> QED
  BY <1>1, <1>2, <1>4, <1>5 DEF CellInv, Cell!Init, CellHeld, CellOffered

(* Where renames, removals and reads work, the rows and the metadata, as    *)
(* the next visit will recover them, are one durable store: a commit cut at *)
(* any call, and a recovery cut at any call, leave the old pair or the new  *)
(* (commitTempFilesPair, recoverTempFilesPair; ImplementsCell).             *)
THEOREM ShelfImplements == Spec => ImplementsCell
<1>1. TypeOK /\ Apart /\ CellInv /\ [Next]_vars => [Cell!Next]_<<CellHeld, CellOffered>>
  <2> SUFFICES ASSUME TypeOK, Apart, CellInv, [Next]_vars
               PROVE  [Cell!Next]_<<CellHeld, CellOffered>>
    OBVIOUS
  <2> USE DEF CellHeld, CellOffered
  <2>1. CASE ~CardMoves
    BY <2>1, FaultsStay DEF CardMoves
  <2>2. CASE CardMoves
    <3>1. CardMoves' /\ Offered /\ CellMoves /\ TypeOK'
      BY <2>2, CellStep, StepTypes, FaultsStay DEF CellInv, CardMoves
    <3>2. CASE Shelf' \in {Shelf, job.number} /\ ~Idle /\ UNCHANGED offered
      BY <2>2, <3>1, <3>2 DEF Offered, Cell!Next, Cell!Move
    <3>3. CASE Shelf' = Shelf /\ UNCHANGED offered
      BY <2>2, <3>1, <3>3
    <3>4. CASE Shelf' = Shelf /\ offered' = {Shelf}
      BY <2>2, <3>1, <3>4 DEF Cell!Next, Cell!Settle
    <3>5. CASE Shelf' = Shelf /\ offered' = offered \cup {jobs + 1} /\ jobs' = jobs + 1
      <4>1. jobs + 1 \in 1..MaxJobs
        BY <3>1, <3>5, Names DEF TypeOK
      <4> QED
        BY <2>2, <3>1, <3>5, <4>1 DEF Cell!Next, Cell!Offer
    <3> QED
      BY <3>1, <3>2, <3>3, <3>4, <3>5 DEF CellMoves
  <2> QED
    BY <2>1, <2>2
<1>2. TypeOK /\ Apart /\ CellInv /\ [Next]_vars => (TypeOK /\ Apart /\ CellInv)'
  BY StepTypes, ApartStep, StepCellInv
<1> QED
  BY <1>1, <1>2, InitTypes, InitCellInv, PTL DEF Spec, ImplementsCell, Cell!Spec
-----------------------------------------------------------------------------
(* The page's offsets, whatever the calls do.                               *)
LEMMA AnyCall ==
  ASSUME TypeOK, NEW f \in Files, NEW g \in Files, f # g
  PROVE  /\ Remove(f) => /\ card'[f] = Absent \/ (card' = card /\ MayFail("remove"))
                         /\ \A h \in Files : h # f => card'[h] = card[h]
         /\ \A ok \in RenameResults(f, g) : Renamed(f, g, ok) =>
              IF ok
              THEN /\ card[f] # Absent /\ card[g] = Absent
                   /\ card'[f] = Absent /\ card'[g] = card[f]
                   /\ \A h \in Files : h # f /\ h # g => card'[h] = card[h]
              ELSE card' = card /\ (MayFail("rename") \/ card[f] = Absent \/ card[g] # Absent)
BY DEF TypeOK, Remove, RenameResults, Renamed, CanRename

(* What any call of the worker does to the rows, by number.                 *)
LEMMA CallNumbers ==
  ASSUME TypeOK, Numbered, UNCHANGED jobs, NEW f \in Pair
  PROVE  /\ \A h \in Files : Remove(h) => \A r \in {"rows", "rowsNew", "rowsOld"} : card'[r] \in Numbers
         /\ \A ok : \/ Renamed(f, Old[f], ok) \/ Renamed(Old[f], f, ok) \/ Renamed(New[f], f, ok)
              => \A r \in {"rows", "rowsNew", "rowsOld"} : card'[r] \in Numbers
<1> USE Names DEF Numbered, Numbers, TypeOK
<1>1. \A h \in Files : Remove(h) => \A r \in {"rows", "rowsNew", "rowsOld"} : card'[r] \in Numbers
  BY DEF Remove
<1>2. CASE f = "rows"
  BY <1>1, <1>2 DEF Renamed
<1>3. CASE f = "meta"
  BY <1>1, <1>3 DEF Renamed
<1> QED
  BY <1>2, <1>3, <1>1

LEMMA WorkerNumbered ==
  ASSUME TypeOK, Apart, Numbered, Worker
  PROVE  Numbered'
<1> USE Names
<1>1. CASE AtCard
  <2>1. ~Idle /\ job'.number = job.number /\ UNCHANGED <<jobs, page>>
    BY <1>1, AtCardSteps
  <2>2. job.file \in Pair /\ job.number \in 0..jobs
        /\ \A f \in Pair : Old[f] \in Files /\ New[f] \in Files /\ f \in Files
    BY DEF TypeOK, JobOK, Jobs
  <2>3. \A r \in {"rows", "rowsNew", "rowsOld"} : card'[r] \in Numbers
    <3>1. CASE Fetch \/ Renew \/ Receive \/ Describe \/ Abort
      <4>1. \/ card' = card \/ Remove("rowsNew") \/ Remove("metaNew")
            \/ \E c : card' = [card EXCEPT !["metaNew"] = c]
            \/ \E c \in Numbers : card' = [card EXCEPT !["rowsNew"] = c]
        BY <2>2, <3>1 DEF Fetch, Renew, Receive, Describe, Abort, Numbers
      <4>2. "rowsNew" \in Files /\ "metaNew" \in Files
        OBVIOUS
      <4>3. ASSUME Remove("rowsNew") \/ Remove("metaNew") PROVE \A r \in {"rows", "rowsNew", "rowsOld"} : card'[r] \in Numbers
        BY <2>1, <2>2, <4>2, <4>3, CallNumbers
      <4> QED
        BY <4>1, <4>3 DEF Numbered, TypeOK
    <3>2. CASE Clear \/ Clean \/ Undo \/ Discard
      <4>1. card' = card \/ \E h \in Files : Remove(h)
        BY <2>2, <3>2 DEF Clear, Clean, Undo, Discard
      <4> QED
        BY <2>1, <2>2, <4>1, CallNumbers DEF Numbered
    <3>3. CASE Back \/ Put \/ Bring
      <4>1. \/ card' = card
            \/ \E ok : Renamed(job.file, Old[job.file], ok) \/ Renamed(Old[job.file], job.file, ok)
                       \/ Renamed(New[job.file], job.file, ok)
        BY <3>3 DEF Back, Put, Bring
      <4> QED
        BY <2>1, <2>2, <4>1, CallNumbers DEF Numbered
    <3> QED
      BY <1>1, <3>1, <3>2, <3>3 DEF AtCard
  <2>4. Numbers' = Numbers
    BY <2>1 DEF Numbers
  <2> QED
    BY <2>1, <2>3, <2>4 DEF Numbered, Idle, At
<1>2. CASE Publish \/ Release
  <2>1. UNCHANGED <<card, jobs, page>> /\ Idle'
    <3>1. Publish => job'.step = "release"
      BY DEF Publish, To, TypeOK, JobOK, Jobs
    <3>2. Release => job'.step = "none"
      BY DEF Release, NoJob
    <3> QED
      BY <1>2, <3>1, <3>2 DEF Publish, Release, WorkerKeeps, shelf, Idle
  <2> QED
    BY <2>1 DEF Numbered, Numbers, At
<1> QED
  BY <1>1, <1>2 DEF Worker, AtCard

(* While a page is tracked, only the worker is at the card.                 *)
LEMMA StageFollowing ==
  ASSUME TypeOK, Apart, Following, Numbered, Fetch \/ Renew \/ Receive \/ Describe \/ Abort
  PROVE  Following'
<1> USE Names DEF In, CardOnly, WorkerKeeps
<1>1. /\ \A s : To(s).step = s /\ To(s).number = job.number /\ To(s).backed = job.backed
                /\ To(s).put = job.put
      /\ UNCHANGED page
      /\ job.step \in {"fetch", "receive", "describe", "described", "abort"}
  BY DEF Fetch, Renew, Receive, Describe, Abort, To, TypeOK, JobOK, Jobs
<1>2. card["rows"] \in {page.reading, Absent} /\ page.reading # job.number
  BY <1>1 DEF Following, Same, Idle
<1>3. card' # card => \E f \in {"rowsNew", "metaNew"} : \E c : card' = [card EXCEPT ![f] = c]
  BY DEF Fetch, Renew, Receive, Describe, Abort, Remove
<1>4. card'["rows"] = card["rows"]
  BY <1>3 DEF TypeOK
<1>5. /\ job'.step \in {"fetch", "receive", "abort", "describe", "described", "clear", "failed"}
      /\ job'.number = job.number
      /\ job'.step \in {"fetch", "receive", "describe", "described", "clear"}
           => job'.backed = {} /\ job'.put = {}
      /\ job'.step \in {"describe", "described", "clear"} => card'["rowsNew"] # Absent
      /\ job'.step = "clear" => card'["metaNew"] # Absent
  <2> USE <1>1 DEF Following
  <2>1. job.number # Absent /\ CurrentSchema # Absent
    BY DEF TypeOK, JobOK, Jobs, CurrentSchema
  <2>2. CASE Fetch
    BY <2>1, <2>2 DEF Fetch
  <2>3. CASE Receive
    BY <2>1, <2>3 DEF Receive, TypeOK
  <2>4. CASE Describe
    BY <2>1, <2>4 DEF Describe, TypeOK
  <2>5. CASE Abort
    BY <2>5 DEF Abort
  <2>6. CASE Renew
    <3>1. /\ job'.step = "fetch" /\ job'.number = job.number /\ job'.backed = job.backed
          /\ job'.put = job.put /\ job.step \in {"fetch", "receive"}
      BY <2>6 DEF Renew, To, TypeOK, JobOK, Jobs
    <3> QED
      BY <3>1
  <2> QED
    BY <2>2, <2>3, <2>4, <2>5, <2>6
<1> QED
  BY <1>1, <1>2, <1>4, <1>5 DEF Following, Same, Idle

LEMMA ClearFollowing ==
  ASSUME TypeOK, Apart, Following, Clear
  PROVE  Following'
<1> USE Names DEF In, CardOnly, WorkerKeeps
<1>1. /\ job.file \in {"rows", "meta"} /\ job.step = "clear" /\ UNCHANGED page
      /\ card["rows"] \in {page.reading, Absent} /\ page.reading # job.number
      /\ job.backed = {} /\ job.put = {} /\ card["rowsNew"] # Absent /\ card["metaNew"] # Absent
  BY DEF Clear, TypeOK, JobOK, Jobs, Following, Same, Idle
<1>2. \A h \in {"rows", "meta", "rowsNew", "metaNew"} : card'[h] = card[h]
  BY <1>1 DEF Clear, Remove, TypeOK
<1>3. \/ /\ job'.step = "back" /\ job'.file = "rows" /\ job'.had = Present
         /\ job'.backed = {} /\ job'.put = {} /\ job'.number = job.number
      \/ /\ job'.step = "clear" /\ job'.backed = {} /\ job'.put = {} /\ job'.number = job.number
      \/ /\ job'.step = "discard" /\ job'.number = job.number
  <2>1. job' = [Onward("back") EXCEPT !.had = Present] \/ job' = To("discard")
    BY DEF Clear
  <2>2. CASE job' = [Onward("back") EXCEPT !.had = Present]
    <3>1. Onward("back") \in {[job EXCEPT !.file = "meta"], [job EXCEPT !.step = "back", !.file = "rows"]}
      BY <1>1 DEF Onward, To
    <3> QED
      BY <1>1, <2>2, <3>1 DEF TypeOK, JobOK, Jobs
  <2>3. CASE job' = To("discard")
    BY <1>1, <2>3 DEF To, TypeOK, JobOK, Jobs
  <2> QED
    BY <2>1, <2>2, <2>3
<1> QED
  BY <1>1, <1>2, <1>3 DEF Following, Same, Spare, Idle, Present

LEMMA BackFollowing ==
  ASSUME TypeOK, Apart, Following, Back
  PROVE  Following'
<1> USE Names DEF In, CardOnly, WorkerKeeps
<1>1. /\ job.file \in {"rows", "meta"} /\ job.step = "back" /\ UNCHANGED page
      /\ page.reading # job.number /\ job.put = {} /\ Spare
      /\ card["rowsNew"] # Absent /\ card["metaNew"] # Absent
      /\ "meta" \in job.had <=> card["meta"] # Absent
      /\ job.file = "rows" => Same /\ ("rows" \in job.had <=> card["rows"] # Absent)
      /\ job.file = "meta" => card["rows"] = Absent
  BY DEF Back, TypeOK, JobOK, Jobs, Following, Idle
<1>2. CASE job.file \notin job.had
  <2>1. job' = Onward("put") /\ card' = card
    BY <1>2 DEF Back
  <2>2. /\ job'.number = job.number /\ job'.put = {} /\ job'.had = job.had /\ job'.backed = job.backed
        /\ job.file = "rows" => job'.step = "back" /\ job'.file = "meta"
        /\ job.file = "meta" => job'.step = "put" /\ job'.file = "rows"
    BY <1>1, <2>1 DEF Onward, To, TypeOK, JobOK, Jobs
  <2> QED
    BY <1>1, <1>2, <2>1, <2>2 DEF Following, Same, Spare, Idle
<1>3. CASE job.file \in job.had
  <2>1. PICK ok \in RenameResults(job.file, Old[job.file]) :
          /\ Renamed(job.file, Old[job.file], ok)
          /\ job' = IF ok THEN [Onward("put") EXCEPT !.backed = @ \cup {job.file}]
                    ELSE To(IF job.file = "rows" THEN "discard" ELSE "undo")
    BY <1>3 DEF Back
  <2>2. job.file \in Files /\ Old[job.file] \in Files /\ job.file # Old[job.file]
    BY <1>1
  <2>3. CASE ok
    <3>1. /\ card'[job.file] = Absent /\ card'[Old[job.file]] = card[job.file]
          /\ \A h \in Files : h # job.file /\ h # Old[job.file] => card'[h] = card[h]
      BY <2>1, <2>2, <2>3, AnyCall
    <3>2. /\ job'.number = job.number /\ job'.put = {} /\ job'.had = job.had
          /\ job'.backed = job.backed \cup {job.file}
          /\ job.file = "rows" => job'.step = "back" /\ job'.file = "meta"
          /\ job.file = "meta" => job'.step = "put" /\ job'.file = "rows"
      BY <1>1, <2>1, <2>3 DEF Onward, To, TypeOK, JobOK, Jobs
    <3>3. CASE job.file = "rows"
      BY <1>1, <3>1, <3>2, <3>3 DEF Following, Same, Spare, Idle
    <3>4. CASE job.file = "meta"
      BY <1>1, <3>1, <3>2, <3>4 DEF Following, Same, Spare, Idle
    <3> QED
      BY <1>1, <3>3, <3>4
  <2>4. CASE ~ok
    <3>1. card' = card /\ job'.number = job.number /\ job'.put = {} /\ job'.backed = job.backed
          /\ job'.step = (IF job.file = "rows" THEN "discard" ELSE "undo") /\ job'.file = "rows"
      BY <1>1, <2>1, <2>2, <2>4, AnyCall DEF To, TypeOK, JobOK, Jobs
    <3> QED
      BY <1>1, <3>1 DEF Following, Same, Spare, Idle
  <2> QED
    BY <2>3, <2>4
<1> QED
  BY <1>2, <1>3

(* Where removals fail, renames and reads work: nothing is to be undone.    *)
OneKind == "remove" \in faults => faults \cap {"rename", "read"} = {}

LEMMA PutFollowing ==
  ASSUME TypeOK, Apart, Following, OneKind, Put
  PROVE  Following'
<1> USE Names DEF In, CardOnly, WorkerKeeps
<1>1. /\ job.file \in {"rows", "meta"} /\ job.step = "put" /\ UNCHANGED <<page, faults>>
      /\ page.reading # job.number /\ Spare
      /\ card["metaNew"] # Absent /\ card["meta"] = Absent
      /\ job.file = "meta" => "rows" \in job.put
      /\ job.file = "rows" => card["rows"] = Absent /\ card["rowsNew"] # Absent
  BY DEF Put, TypeOK, JobOK, Jobs, Following, Idle, fate
<1>2. PICK ok \in RenameResults(New[job.file], job.file), measured \in BOOLEAN :
        /\ measured \/ MayFail("read")
        /\ Renamed(New[job.file], job.file, ok)
        /\ job' = [(IF ok /\ measured THEN Onward("clean") ELSE To("undo"))
                     EXCEPT !.put = @ \cup {f \in {job.file} : ok}]
  BY DEF Put
<1>3. job.file \in Files /\ New[job.file] \in Files /\ job.file # New[job.file]
  BY <1>1
<1>4. /\ card'["rowsOld"] = card["rowsOld"]
      /\ job.file = "rows" => card'["meta"] = card["meta"] /\ card'["metaNew"] = card["metaNew"]
      /\ ~ok => card' = card /\ MayFail("rename")
  <2>1. CASE job.file = "rows"
    BY <1>1, <1>2, <1>3, <2>1, AnyCall
  <2>2. CASE job.file = "meta"
    BY <1>1, <1>2, <1>3, <2>2, AnyCall
  <2> QED
    BY <1>1, <2>1, <2>2
<1>5. CASE ok /\ measured
  <2>1. /\ job'.number = job.number /\ job'.backed = job.backed
        /\ job.file = "rows" => job'.step = "put" /\ job'.file = "meta" /\ "rows" \in job'.put
        /\ job.file = "meta" => job'.step = "clean"
    BY <1>1, <1>2, <1>5 DEF Onward, To, TypeOK, JobOK, Jobs
  <2> QED
    BY <1>1, <1>4, <2>1 DEF Following, Spare, Idle
<1>6. CASE ~(ok /\ measured)
  <2>1. /\ job'.number = job.number /\ job'.backed = job.backed
        /\ job'.step = "undo" /\ job'.file = "rows"
        /\ (ok => job.file \in job'.put) /\ job.put \subseteq job'.put
        /\ ~MayFail("remove")'
    BY <1>1, <1>2, <1>4, <1>6 DEF To, TypeOK, JobOK, Jobs, OneKind, MayFail
  <2>2. job.file = "rows" /\ ~ok => card'["rows"] = Absent
    BY <1>1, <1>4
  <2> QED
    BY <1>1, <1>4, <2>1, <2>2 DEF Following, Spare, Idle
<1> QED
  BY <1>5, <1>6

LEMMA UndoFollowing ==
  ASSUME TypeOK, Apart, Following, Undo
  PROVE  Following'
<1> USE Names DEF In, CardOnly, WorkerKeeps
<1>1. /\ job.file \in {"rows", "meta"} /\ job.step = "undo" /\ UNCHANGED <<page, faults>>
      /\ page.reading # job.number /\ Spare /\ (job.put # {} => ~MayFail("remove"))
      /\ job.file = "rows" /\ "rows" \notin job.put => card["rows"] = Absent
      /\ job.file = "meta" => card["rows"] = Absent
  BY DEF Undo, TypeOK, JobOK, Jobs, Following, Idle, fate
<1>2. /\ job'.number = job.number /\ job'.backed = job.backed /\ job'.put = job.put
      /\ job.file = "rows" => job'.step = "undo" /\ job'.file = "meta"
      /\ job.file = "meta" => job'.step = "bring" /\ job'.file = "rows"
  BY <1>1 DEF Undo, Onward, To, TypeOK, JobOK, Jobs
<1>3. /\ card'["rowsOld"] = card["rowsOld"]
      /\ card'["rows"] = Absent
  <2>1. job.file \in Files /\ "rowsOld" \in Files /\ "rows" \in Files /\ "meta" \in Files
    BY <1>1
  <2>2. CASE job.file \in job.put
    <3>1. /\ card'[job.file] = Absent
          /\ \A h \in Files : h # job.file => card'[h] = card[h]
      <4>1. Remove(job.file) /\ ~MayFail("remove")
        BY <1>1, <2>2 DEF Undo
      <4> QED
        BY <2>1, <4>1, AnyCall
    <3> QED
      BY <1>1, <2>1, <3>1
  <2>3. CASE job.file \notin job.put
    BY <1>1, <2>3 DEF Undo
  <2> QED
    BY <2>2, <2>3
<1>4. ~MayFail("remove")' <=> ~MayFail("remove")
  BY <1>1 DEF MayFail
<1> QED
  BY <1>1, <1>2, <1>3, <1>4 DEF Following, Same, Spare, Idle

LEMMA BringFollowing ==
  ASSUME TypeOK, Apart, Following, Bring
  PROVE  Following'
<1> USE Names DEF In, CardOnly, WorkerKeeps
<1>1. /\ job.file \in {"rows", "meta"} /\ job.step = "bring" /\ UNCHANGED page
      /\ page.reading # job.number /\ Spare
      /\ job.file = "rows" => card["rows"] = Absent
      /\ job.file = "meta" => Same
  BY DEF Bring, TypeOK, JobOK, Jobs, Following, Idle
<1>2. /\ job'.number = job.number /\ job'.backed = job.backed
      /\ job.file = "rows" => job'.step = "bring" /\ job'.file = "meta"
      /\ job.file = "meta" => job'.step = "discard"
  BY <1>1 DEF Bring, Onward, To, TypeOK, JobOK, Jobs
<1>3. /\ job.file = "rows" => card'["rows"] \in {page.reading, Absent}
                              /\ card'["rowsOld"] \in {card["rowsOld"], Absent}
      /\ job.file = "meta" => card'["rows"] = card["rows"]
  <2>1. CASE job.file \notin job.backed
    BY <1>1, <2>1 DEF Bring
  <2>2. CASE job.file \in job.backed
    <3>1. PICK ok \in RenameResults(Old[job.file], job.file) : Renamed(Old[job.file], job.file, ok)
      BY <2>2 DEF Bring
    <3>2. CASE job.file = "rows"
      BY <1>1, <2>2, <3>1, <3>2, AnyCall DEF Spare
    <3>3. CASE job.file = "meta"
      BY <1>1, <3>1, <3>3, AnyCall
    <3> QED
      BY <1>1, <3>2, <3>3
  <2> QED
    BY <2>1, <2>2
<1> QED
  BY <1>1, <1>2, <1>3 DEF Following, Same, Spare, Idle

LEMMA EndFollowing ==
  ASSUME TypeOK, Apart, Following, Clean \/ Discard
  PROVE  Following'
<1> USE Names DEF In, CardOnly, WorkerKeeps
<1>1. /\ job.file \in {"rows", "meta"} /\ UNCHANGED page /\ page.reading # job.number
      /\ Clean => job'.step \in {"clean", "ready"}
      /\ Discard => job'.step \in {"discard", "failed"} /\ Same /\ card'["rows"] = card["rows"]
      /\ job'.number = job.number
  <2>1. job.file \in {"rows", "meta"} /\ job.step \in {"clean", "discard"} /\ UNCHANGED page
    BY DEF Clean, Discard, TypeOK, JobOK, Jobs
  <2>2. CASE Clean
    BY <2>1, <2>2 DEF Clean, Discard, Onward, To, TypeOK, JobOK, Jobs, Following, Idle
  <2>3. CASE Discard
    <3>1. card'["rows"] = card["rows"]
      BY <2>1, <2>3 DEF Discard, Remove, TypeOK
    <3> QED
      BY <2>1, <2>3, <3>1 DEF Clean, Discard, Onward, To, TypeOK, JobOK, Jobs, Following, Idle
  <2> QED
    BY <2>2, <2>3
<1> QED
  BY <1>1 DEF Following, Same, Idle

LEMMA WorkerFollowing ==
  ASSUME TypeOK, Apart, Numbered, Following, OneKind, Worker
  PROVE  Following'
<1>1. CASE Publish
  <2>1. /\ ~Idle /\ job'.step = "release" /\ UNCHANGED <<card, page>>
        /\ gSnapshot'.mine = gSnapshot.mine
        /\ \/ job.step = "failed"
           \/ gSnapshot'.phase = "Ready" /\ gSnapshot'.stamp = job.number
    BY <1>1 DEF Publish, WorkerKeeps, In, To, Idle, TypeOK, SnapshotOK, JobOK, Jobs
  <2>2. gSnapshot.mine /\ page.reading # job.number /\ page.applied < job.number
        /\ (job.step = "failed" => Same)
    BY <2>1 DEF Apart, Following, Numbered
  <2>3. page.applied \in Nat /\ job.number \in Nat
    BY DEF TypeOK, PageOK, Pages, JobOK, Jobs
  <2>4. Missing' \/ Same'
    BY <2>1, <2>2, <2>3 DEF Missing, Unread, Same
  <2> QED
    BY <2>1, <2>4 DEF Following, In, Idle
<1>2. CASE Release
  <2>1. UNCHANGED <<card, page, gSnapshot>> /\ job.step = "release" /\ job'.step = "none"
    BY <1>2 DEF Release, WorkerKeeps, shelf, In, NoJob
  <2> QED
    BY <2>1 DEF Following, Missing, Unread, Same, In, Idle
<1> QED
  BY <1>1, <1>2, StageFollowing, ClearFollowing, BackFollowing, PutFollowing, UndoFollowing,
     BringFollowing, EndFollowing DEF Worker

(* A visit of the card ends with the rows it reads; a page that visits it   *)
(* while its discovery runs is one that is left behind.                     *)
LEMMA VisitOffsets ==
  ASSUME TypeOK, Apart, Numbered, Page
  PROVE  OffsetInv'
<1> USE DEF At
<1>1. /\ UNCHANGED <<job, jobs, gSnapshot>> /\ page.step \in Visiting /\ page.index = Absent
      /\ page.file \in Pair
  BY DEF Page, Look, LookFinals, Tidy, Drop, Restore, Probe, Check, OpenRows, PageOnly, Recovers,
         discovery, Visiting, Numbered, TypeOK, PageOK, Pages
<1>2. \A r \in {"rows", "rowsNew", "rowsOld"} : card'[r] \in Numbers
  <2>1. \/ card' = card \/ Remove(page.file) \/ Remove(Old[page.file])
        \/ \E ok : Renamed(Old[page.file], page.file, ok)
    BY DEF Page, Look, LookFinals, Tidy, Drop, Restore, Probe, Check, OpenRows, PageOnly, shelf
  <2>2. page.file \in Files /\ Old[page.file] \in Files
    BY <1>1, Names
  <2> QED
    BY <1>1, <2>1, <2>2, CallNumbers DEF Numbered
<1>3. /\ page'.index = Absent /\ page'.applied = page.applied /\ page'.behind = page.behind
      /\ \/ page'.reading = page.reading /\ page'.step # "indexing"
         \/ page'.reading = card["rows"] /\ UNCHANGED card
  <2>1. UNCHANGED card \/ page'.step # "indexing"
    BY DEF Page, Look, LookFinals, Tidy, Drop, Restore, Probe, Check, OpenRows, PageOnly, shelf,
           PageTo, PageOnward, TypeOK, PageOK, Pages
  <2>2. page'.index = page.index /\ page'.applied = page.applied
    BY DEF Page, Look, LookFinals, Tidy, Drop, Restore, Probe, Check, OpenRows,
           PageTo, PageOnward, NotReady, TypeOK, PageOK, Pages
  <2>3. page'.behind = page.behind
    BY DEF Page, Look, LookFinals, Tidy, Drop, Restore, Probe, Check, OpenRows,
           PageTo, PageOnward, NotReady, TypeOK, PageOK, Pages
  <2>4. OpenRows => page'.reading = card["rows"] \/ (page'.reading = page.reading /\ page'.step # "indexing")
    BY DEF OpenRows, PageTo, NotReady, TypeOK, PageOK, Pages
  <2>5. Look \/ LookFinals \/ Probe \/ Check => page'.reading = page.reading /\ page'.step # "indexing"
    BY DEF Look, LookFinals, Probe, Check, PageTo, NotReady, TypeOK, PageOK, Pages
  <2>6. Tidy \/ Drop \/ Restore => page'.reading = page.reading /\ page'.step # "indexing"
    BY DEF Tidy, Drop, Restore, PageTo, PageOnward, TypeOK, PageOK, Pages
  <2>7. OpenRows => UNCHANGED card
    BY DEF OpenRows, PageOnly, shelf
  <2> QED
    BY <1>1, <2>2, <2>3, <2>4, <2>5, <2>6, <2>7 DEF Page
<1>4. Numbered'
  <2>1. Numbers' = Numbers /\ Idle' = Idle
    BY <1>1 DEF Numbers, Idle
  <2> QED
    BY <1>1, <1>2, <1>3, <2>1 DEF Numbered
<1>5. Tracks' => Following'
  <2> SUFFICES ASSUME Tracks' PROVE Following'
    OBVIOUS
  <2>1. page'.step = "indexing" /\ ~page.behind
    BY <1>3 DEF Tracks
  <2>2. Idle /\ Same'
    BY <1>1, <1>3, <2>1 DEF Apart, Same
  <2> QED
    BY <1>1, <2>2 DEF Following, Idle, In
<1> QED
  BY <1>4, <1>5 DEF OffsetInv

(* A start finds no commit, and rows that are those read unless an unread   *)
(* answer, which it clears, tells of others.                                *)
LEMMA StartOffsets ==
  ASSUME TypeOK, Apart, OffsetInv, Start, NEW b \in BOOLEAN, page' = Asked(b)
  PROVE  OffsetInv'
<1>1. /\ job.step = "none" /\ UNCHANGED card /\ jobs \in Nat /\ jobs' = jobs + 1
      /\ \/ job' = job
         \/ job'.step = "fetch" /\ job'.number = jobs + 1 /\ job'.backed = {} /\ job'.put = {}
  <2>1. job.step = "none" /\ jobs \in Nat
    <3>1. ~gBusy
      BY DEF Start
    <3>2. job.step = "none"
      BY <3>1 DEF Apart, TypeOK
    <3>3. jobs \in Nat
      BY Names DEF TypeOK
    <3> QED
      BY <3>2, <3>3
  <2> QED
    BY <2>1 DEF Start, NoJob
<1>2. /\ page'.step = page.step /\ page'.index = page.index /\ page'.reading = page.reading
      /\ page'.applied = page.applied /\ page.applied \in 0..jobs
      /\ page'.behind = (page.behind \/ Missing)
  BY DEF Asked, TypeOK, PageOK, Pages
<1>3. Numbered'
  <2>1. \A c \in Numbers : c \in Numbers'
    BY <1>1 DEF Numbers
  <2> QED
    BY <1>1, <1>2, <2>1 DEF OffsetInv, Numbered, Idle, At
<1>4. Tracks' => Following'
  <2> SUFFICES ASSUME Tracks' PROVE Following'
    OBVIOUS
  <2>1. Tracks /\ ~Missing
    BY <1>2 DEF Tracks, Open, At
  <2>2. Same
    BY <1>1, <2>1 DEF OffsetInv, Following, Idle
  <2>3. Same' /\ page'.reading # jobs + 1
    BY <1>1, <1>2, <2>2, Names DEF Same, OffsetInv, Numbered, Numbers
  <2> QED
    BY <1>1, <2>3 DEF Following, Idle, In
<1> QED
  BY <1>3, <1>4 DEF OffsetInv

LEMMA QuietOffsets ==
  ASSUME TypeOK, Apart, OffsetInv,
         Poll \/ Enter \/ Refresh \/ StartDefault \/ Child \/ Leave \/ OtherApp \/ Crash
  PROVE  OffsetInv'
<1> USE DEF At
<1>1. CASE Index
  <2>1. /\ UNCHANGED <<card, gSnapshot, job, jobs, faults>> /\ page.step = "indexing"
        /\ page'.reading = page.reading /\ page'.applied = page.applied
        /\ page'.behind = page.behind /\ page'.step = "shown"
        /\ page'.index \in {page.reading, Absent}
    <3>1. page.step = "indexing" /\ page.index = Absent
          /\ UNCHANGED <<card, gSnapshot, job, jobs, faults>>
      BY <1>1 DEF Index, PageOnly, shelf, discovery, fate, OffsetInv, Numbered
    <3>2. page' = [PageTo("shown") EXCEPT !.index = page.reading] \/ page' = NotReady
      BY <1>1 DEF Index
    <3>3. CASE page' = [PageTo("shown") EXCEPT !.index = page.reading]
      BY <3>1, <3>3 DEF PageTo, TypeOK, PageOK, Pages
    <3>4. CASE page' = NotReady
      BY <3>1, <3>4 DEF NotReady, PageTo, TypeOK, PageOK, Pages
    <3> QED
      BY <3>1, <3>2, <3>3, <3>4
  <2>2. Numbered' /\ (Tracks' => Tracks)
    BY <2>1 DEF OffsetInv, Numbered, Numbers, Idle, Tracks, Open
  <2>3. Following => Following'
    BY <2>1 DEF Following, Missing, Unread, Same, Spare, Idle, In, MayFail
  <2> QED
    BY <2>2, <2>3 DEF OffsetInv
<1>2. CASE Sync
  <2>1. UNCHANGED <<card, gSnapshot, job, jobs>> /\ Idle
    BY <1>2 DEF Sync, PageOnly, shelf, discovery, Unread, Apart
  <2>2. CASE page.step = "indexing"
    <3>1. /\ page'.step = page.step /\ page'.reading = page.reading /\ page'.index = page.index
          /\ page'.behind = (page.behind \/ Missing)
      BY <1>2, <2>2 DEF Sync, TypeOK, PageOK, Pages
    <3>2. Numbered'
      BY <2>1, <3>1 DEF OffsetInv, Numbered, Numbers, Idle
    <3>3. Tracks' => Same'
      BY <2>1, <3>1 DEF Tracks, Open, OffsetInv, Following, Same
    <3> QED
      BY <2>1, <3>2, <3>3 DEF OffsetInv, Following, Idle, In
  <2>3. CASE page.step # "indexing"
    <3>1. page'.step = "look" /\ page'.index = Absent /\ page'.reading = page.reading
      BY <1>2, <2>3 DEF Sync, Begun, PageTo, TypeOK, PageOK, Pages
    <3> QED
      BY <2>1, <3>1 DEF OffsetInv, Numbered, Numbers, Idle, Tracks, Open
  <2> QED
    BY <2>2, <2>3
<1>3. CASE AutoDiscover \/ StartDefault \/ Refresh
  <2>1. CASE Mine /\ Attempt /\ UNCHANGED <<shelf, discovery, fate>>
    <3>1. /\ page'.step = page.step /\ page'.reading = page.reading /\ page'.index = page.index
          /\ page'.applied = page.applied /\ page'.behind = page.behind
          /\ UNCHANGED <<card, gSnapshot, job, jobs, faults>>
      BY <2>1 DEF Attempt, shelf, discovery, fate, TypeOK, PageOK, Pages
    <3> QED
      BY <3>1 DEF OffsetInv, Numbered, Numbers, Tracks, Open, Following, Missing, Unread, Same, Spare,
                  Idle, In, MayFail
  <2>2. CASE Start /\ \E b : page' = Asked(b) /\ b \in BOOLEAN
    BY <2>2, StartOffsets
  <2>3. TRUE \in BOOLEAN /\ page.attempted \in BOOLEAN
    BY DEF TypeOK, PageOK, Pages
  <2>4. Refresh => (Mine /\ Attempt /\ UNCHANGED <<shelf, discovery, fate>>)
                   \/ (Start /\ page' = Asked(page.attempted \/ gBusy'))
    BY DEF Refresh
  <2>5. (page.attempted \/ gBusy') \in BOOLEAN
    OBVIOUS
  <2> QED
    BY <1>3, <2>1, <2>2, <2>3, <2>4, <2>5 DEF AutoDiscover, StartDefault
<1>4. CASE Child
  <2>1. /\ page'.step = page.step /\ page'.reading = page.reading /\ page'.index = page.index
        /\ page'.applied = page.applied /\ page'.behind = page.behind
        /\ UNCHANGED <<card, gSnapshot, job, jobs, faults>>
    BY <1>4 DEF Child, PageOnly, shelf, discovery, fate, TypeOK, PageOK, Pages
  <2> QED
    BY <2>1 DEF OffsetInv, Numbered, Numbers, Tracks, Open, Following, Missing, Unread, Same, Spare,
                Idle, In, MayFail
<1>5. CASE Enter \/ Leave \/ Crash
  <2>1. /\ UNCHANGED <<card, jobs>> /\ (job' = job \/ job'.step = "none")
        /\ page'.step \in {"away", "look"} /\ page'.index = Absent /\ page'.reading = Absent
        /\ page'.applied = 0
    <3>1. CASE Enter
      BY <3>1 DEF Enter, PageOnly, shelf, discovery, Away
    <3>2. CASE Leave
      BY <3>2 DEF Leave, PageOnly, shelf, discovery, Away
    <3>3. CASE Crash
      BY <3>3 DEF Crash, shelf, Away, NoJob
    <3> QED
      BY <1>5, <3>1, <3>2, <3>3
  <2>2. ~Idle => 0 < job.number
    BY DEF Apart
  <2> QED
    BY <2>1, <2>2 DEF OffsetInv, Numbered, Numbers, Idle, Tracks, Open
<1>6. CASE OtherApp
  <2>1. UNCHANGED <<card, jobs, page>> /\ job'.step = "release" /\ page.step = "away"
    BY <1>6 DEF OtherApp, shelf, NoJob
  <2> QED
    BY <2>1 DEF OffsetInv, Numbered, Numbers, Idle, Tracks, Open
<1> QED
  BY <1>1, <1>2, <1>3, <1>4, <1>5, <1>6 DEF Poll

LEMMA OffsetStep ==
  ASSUME TypeOK, Apart, OffsetInv, OneKind, [Next]_vars
  PROVE  OffsetInv'
<1>1. CASE Worker
  <2>1. Tracks' <=> Tracks
    <3>1. UNCHANGED page
      BY <1>1 DEF Worker, Fetch, Renew, Receive, Describe, Abort, Clear, Back, Put, Clean, Undo, Bring,
                  Discard, Publish, Release, CardOnly, WorkerKeeps
    <3> QED
      BY <3>1 DEF Tracks, Open, At
  <2> QED
    BY <1>1, <2>1, WorkerNumbered, WorkerFollowing DEF OffsetInv
<1>2. CASE Page
  BY <1>2, VisitOffsets DEF OffsetInv
<1>3. CASE UNCHANGED vars
  <2>1. UNCHANGED <<card, gSnapshot, job, jobs, page, faults>>
    BY <1>3 DEF vars, shelf, discovery, fate
  <2> QED
    BY <2>1 DEF OffsetInv, Numbered, Numbers, Tracks, Open, At, Following, Missing, Unread, Same, Spare,
                Idle, In, MayFail
<1> QED
  BY <1>1, <1>2, <1>3, QuietOffsets DEF Next

LEMMA InitOffsets == Init => OffsetInv
<1> SUFFICES ASSUME Init PROVE OffsetInv
  OBVIOUS
<1>1. Numbered
  BY Names DEF Init, Numbered, Numbers, Idle, NoJob, Away
<1>2. ~Tracks
  BY DEF Init, Tracks, Open, At, Away
<1> QED
  BY <1>1, <1>2 DEF OffsetInv

LEMMA OffsetsFollow == TypeOK /\ Apart /\ OffsetInv => OffsetsMatch
<1> SUFFICES ASSUME TypeOK, Apart, OffsetInv, At("shown"), page.index # Absent, ~page.behind,
                    ~Replacing, ~Missing
             PROVE  card.rows \in {page.index, Absent}
  BY DEF OffsetsMatch
<1>1. Following /\ page.index = page.reading
  BY DEF OffsetInv, Numbered, Tracks, Open
<1>2. Idle \/ job.step \in {"fetch", "receive", "describe", "described", "abort", "clear", "discard", "failed"}
  BY DEF Replacing, Idle, TypeOK, JobOK, Jobs, JobSteps
<1> QED
  BY <1>1, <1>2 DEF Following, Same

(* The page reads rows with the offsets it built from them, for any number  *)
(* of discoveries and power cuts, although refreshes, WeRead's own starts,  *)
(* children and re-entries overlap with commits and with unread answers: on *)
(* any card where a removal does not fail together with a rename or a read  *)
(* (pollAsync, beginShelfIndex, startCategory, publish).  Pages that the    *)
(* code leaves behind are those OffsetsMatch names.                         *)
THEOREM OffsetsSafe ==
  ASSUME \A f \in Fates : "remove" \in f.faults => f.faults \cap {"rename", "read"} = {}
  PROVE  Spec => []OffsetsMatch
<1>1. Init => TypeOK /\ Apart /\ OffsetInv /\ OneKind
  <2>1. Init => OneKind
    BY DEF Init, FateInit, OneKind
  <2> QED
    BY <2>1, InitTypes, InitCellInv, InitOffsets
<1>2. TypeOK /\ Apart /\ OffsetInv /\ OneKind /\ [Next]_vars
        => (TypeOK /\ Apart /\ OffsetInv /\ OneKind)'
  BY StepTypes, ApartStep, OffsetStep, FaultsStay DEF OneKind
<1> QED
  BY <1>1, <1>2, OffsetsFollow, PTL DEF Spec
-----------------------------------------------------------------------------
(* Rows of an older schema.                                                 *)
LEMMA NoOldRows ==
  ASSUME TypeOK, CellInv, CardMoves, Idle, Tidied, card["meta"] = CurrentSchema
  PROVE  card["rows"] # 0
<1> USE Names
<1>1. card["rows"] = Absent \/ Shelf = card["rows"]
  <2>1. card["rowsOld"] = Absent /\ card["metaOld"] = Absent
    BY DEF CellInv, NoDebris, InCommit, Idle, In, BackedUp
  <2> QED
    BY <2>1, Shelves DEF ShelfIn, RowsIn, MetaIn
<1>2. 0 \notin offered /\ Shelf \in offered
  BY DEF CellInv, Offered, TypeOK
<1> QED
  BY <1>1, <1>2

LEMMA VisitFresh ==
  ASSUME TypeOK, Apart, CellInv, FreshInv, CardMoves, Page
  PROVE  FreshInv'
<1> USE DEF FreshInv, At
<1>1. Idle /\ ~MayFail("read")
  BY VisitCell DEF Held, CellInv, CardMoves, MayFail
<1>2. CASE Look \/ LookFinals \/ Tidy \/ Drop \/ Restore
  <2>1. /\ page'.index = page.index /\ page'.reading = page.reading
        /\ page'.step \in {"look2", "tidy", "drop", "restore", "probe"}
    BY <1>2 DEF Look, LookFinals, Tidy, Drop, Restore, PageTo, PageOnward, TypeOK, PageOK, Pages
  <2> QED
    BY <2>1
<1>3. CASE Probe \/ Check
  <2>1. /\ page'.index = page.index /\ page'.reading = page.reading /\ UNCHANGED card
        /\ page'.step = "open" => card["meta"] = CurrentSchema
    BY <1>3 DEF Probe, Check, PageTo, NotReady, PageOnly, shelf, TypeOK, PageOK, Pages
  <2> QED
    BY <2>1
<1>4. CASE OpenRows
  <2>1. /\ page'.index = page.index /\ page'.step # "open"
        /\ page'.reading \in {page.reading, card["rows"]}
    BY <1>4 DEF OpenRows, PageTo, NotReady, TypeOK, PageOK, Pages
  <2>2. card["rows"] # 0
    BY <1>1, <1>4, NoOldRows DEF OpenRows, Tidied
  <2> QED
    BY <2>1, <2>2
<1> QED
  BY <1>2, <1>3, <1>4 DEF Page

LEMMA StepFresh ==
  ASSUME TypeOK, Apart, CellInv, FreshInv, [Next]_vars
  PROVE  FreshInv'
<1> SUFFICES ASSUME CardMoves
             PROVE  /\ At("open")' => card'["meta"] = CurrentSchema
                    /\ page'.index # 0 /\ page'.reading # 0
  BY FaultsStay DEF FreshInv, CardMoves
<1> USE DEF FreshInv, At
<1>1. CASE AtCard
  <2>1. ~Idle /\ UNCHANGED page
    BY <1>1, AtCardSteps
  <2>2. page.step # "open"
    BY <2>1 DEF Apart, CardMoves, Visiting
  <2> QED
    BY <2>1, <2>2
<1>2. CASE Page
  BY <1>2, VisitFresh, FaultsStay DEF CardMoves
<1>3. CASE Quiet
  <2>1. UNCHANGED card /\ (page'.step = "open" => page.step = "open")
    BY <1>3, QuietSteps DEF Held, CellInv, Visiting
  <2>2. page'.index \in {page.index, page.reading, Absent} /\ page'.reading \in {page.reading, Absent}
    <3>1. CASE Index
      BY <3>1 DEF Index, PageTo, NotReady, TypeOK, PageOK, Pages
    <3>2. CASE Sync
      BY <3>2 DEF Sync, Begun, PageTo, TypeOK, PageOK, Pages
    <3>3. CASE AutoDiscover \/ Refresh \/ StartDefault \/ Child
      <4>1. \E a, c, d : page' = [page EXCEPT !.attempted = a, !.behind = c]
                         \/ page' = [page EXCEPT !.child = d] \/ page' = [page EXCEPT !.attempted = a]
        BY <3>3 DEF AutoDiscover, Refresh, StartDefault, Child, Asked, Attempt
      <4> QED
        BY <4>1 DEF TypeOK, PageOK, Pages
    <3>4. CASE Enter \/ Leave \/ Crash
      <4>1. Enter => page'.index = Absent /\ page'.reading = Absent
        BY DEF Enter, Away
      <4>2. Leave \/ Crash => page'.index = Absent /\ page'.reading = Absent
        BY DEF Leave, Crash, Away
      <4> QED
        BY <3>4, <4>1, <4>2
    <3>5. CASE Publish \/ Release \/ OtherApp
      BY <3>5 DEF Publish, Release, OtherApp, WorkerKeeps
    <3> QED
      BY <1>3, <3>1, <3>2, <3>3, <3>4, <3>5 DEF Quiet, Poll
  <2> QED
    BY <2>1, <2>2, Names
<1>4. CASE UNCHANGED vars
  BY <1>4 DEF vars, shelf
<1> QED
  BY <1>1, <1>2, <1>3, <1>4, Steps

(* The page's offsets are of the rows on the card, and it never shows rows  *)
(* of an older schema as fresh, for any number of discoveries, power cuts   *)
(* and overlaps of starts with commits and unread answers; re-entry beside  *)
(* one's own discovery is among the behaviours, for the offsets             *)
(* (pollAsync, beginShelfIndex, publish; ProviderShelf!ShownIsCurrent).     *)
THEOREM CurrentSafe ==
  ASSUME \A f \in Fates : f.faults \subseteq {"open", "write", "reenter"}
  PROVE  Spec => []ShownIsCurrent
<1> DEFINE Few == faults \subseteq {"open", "write", "reenter"}
           Inv == TypeOK /\ Apart /\ CellInv /\ OffsetInv /\ FreshInv /\ Few
<1>1. Init => Inv
  <2> SUFFICES ASSUME Init PROVE Inv
    OBVIOUS
  <2>1. Few
    BY DEF Init, FateInit
  <2>2. FreshInv
    BY Names DEF Init, FreshInv, At, Away
  <2> QED
    BY <2>1, <2>2, InitTypes, InitCellInv, InitOffsets
<1>2. Inv /\ [Next]_vars => Inv'
  <2> SUFFICES ASSUME Inv, [Next]_vars PROVE Inv'
    OBVIOUS
  <2>1. OneKind
    BY DEF OneKind
  <2>2. Few'
    BY FaultsStay
  <2> QED
    BY <2>1, <2>2, StepTypes, ApartStep, StepCellInv, OffsetStep, StepFresh
<1>3. Inv => ShownIsCurrent
  <2> SUFFICES ASSUME Inv PROVE ShownIsCurrent
    OBVIOUS
  <2>1. "reenter" \notin faults => CardMoves
    BY DEF CardMoves
  <2> QED
    BY <2>1, OffsetsFollow DEF FreshInv, ShownIsCurrent
<1> QED
  BY <1>1, <1>2, <1>3, PTL DEF Spec
=============================================================================
