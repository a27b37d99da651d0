----------------------- MODULE ProgressiveLoaderProofs -----------------------
(* The files of the progressive loader and what is opened of them, for any  *)
(* files, body length, buffer and number of requests: what the markers call *)
(* complete is whole and published rows are on the card wherever writes and *)
(* removals work, a reader's chapter stays whole where every call works,    *)
(* and an app opens its own text only, on any card.                         *)
EXTENDS ProgressiveLoader, SequenceTheorems, TLAPS

Disk == [body : Seq(1..Total) \cup {Absent}, ok : BOOLEAN]
Prefix(n) == [i \in 1..n |-> i]
Dropped == {"Connecting", "Streaming", "EarlyOpened", "Failed"}

(* Where writes and removals work: the marker is away from the first byte   *)
(* of a download to its last, the file and the buffer together are what was *)
(* read, and a download that ended well has left the whole body, but for a  *)
(* connection that closed early unnoticed.                                  *)
Streamed ==
  /\ phase \in Dropped => ~card[File].ok
  /\ phase = "Connecting" => card[File].body = <<>> /\ buf = <<>> /\ got = 0 /\ published = 0
  /\ Flowing => /\ card[File].body \in Seq(1..Total) /\ card[File].body \o buf = Prefix(got)
                /\ published <= Len(card[File].body)
  /\ phase = "Closing" => /\ card[File].body = Whole \/ File \in cutoff
                          /\ card[File].body \notin {Absent, <<>>}
  /\ phase \in {"Closing", "Done"} => complete

(* A chapter opened for good is complete, or about to get its marker.       *)
Served == \A o \in {open, shown} \ {None} :
            ~o.pending /\ o.file.kind = "chapter" =>
              HasCompleteCache(card[o.file]) \/ (phase = "Closing" /\ File = o.file)

FileThere == phase = "Connecting" \/ Flowing => card[File].body # Absent /\ got <= Total

LoaderInv == /\ TypeOK /\ AppsOwnOpens /\ FileThere
             /\ CardWorks => Streamed /\ PartialNeverComplete
             /\ faults = {} => Served

-----------------------------------------------------------------------------
(* What the helpers do to a file.                                           *)
LEMMA EmptyBody == <<>> \in Seq(1..Total) /\ <<>> # Absent /\ Len(<<>>) = 0 /\ 0 < BufLen
<1>1. <<>> \in Seq(1..Total) /\ Len(<<>>) = 0
  BY EmptySeq
<1>2. <<>> # Absent
  BY <1>1, LoaderAssumption, Zenon
<1>3. 0 < BufLen
  BY LoaderAssumption
<1> QED
  BY <1>1, <1>2, <1>3

LEMMA Working == CardWorks => ~MayFail("write") /\ ~MayFail("remove")
BY DEF CardWorks, MayFail

LEMMA Removing ==
  ASSUME NEW d \in Disk, NEW x \in RemoveOutputs(d)
  PROVE  x \in Disk /\ (CardWorks => x.ok = FALSE)
<1>1. CASE x = [body |-> Absent, ok |-> FALSE]
  BY <1>1 DEF Disk
<1>2. CASE x \in [body : {Absent, d.body}, ok : {FALSE, d.ok}] /\ MayFail("remove")
  <2>1. x \in Disk
    BY <1>2 DEF Disk
  <2> QED
    BY <1>2, <2>1, Working
<1> QED
  BY <1>1, <1>2 DEF RemoveOutputs

LEMMA Dropping ==
  ASSUME NEW d \in Disk, NEW x \in DropPartial(d)
  PROVE  /\ x \in Disk
         /\ complete => x = d
         /\ CardWorks => x = d \/ x.ok = FALSE
<1>1. CASE complete
  BY <1>1 DEF DropPartial
<1>2. CASE ~complete /\ early
  <2>1. x = [d EXCEPT !.ok = FALSE] \/ (x = d /\ MayFail("remove"))
    BY <1>2 DEF DropPartial
  <2> QED
    BY <1>2, <2>1 DEF Disk
<1>3. CASE ~complete /\ ~early
  BY <1>3, Removing DEF DropPartial
<1> QED
  BY <1>1, <1>2, <1>3

LEMMA Flushing ==
  ASSUME NEW c \in Seq(1..Total), NEW b \in Seq(1..Total), NEW x \in Flush(c, b)
  PROVE  /\ x.body \in Seq(1..Total) /\ x.left \in Seq(1..Total)
         /\ x.left \in {<<>>, b}
         /\ CardWorks => x.left = <<>> /\ x.body = c \o b
<1>1. CASE x = [body |-> c \o b, left |-> <<>>]
  BY <1>1
<1>2. CASE \E n \in 0..Len(b) - 1 : MayFail("write") /\ x = [body |-> c \o SubSeq(b, 1, n), left |-> b]
  <2>1. PICK n \in 0..Len(b) - 1 : MayFail("write") /\ x = [body |-> c \o SubSeq(b, 1, n), left |-> b]
    BY <1>2
  <2>2. SubSeq(b, 1, n) \in Seq(1..Total)
    <3>1. Len(b) \in Nat /\ \A i \in 1..Len(b) : b[i] \in 1..Total
      BY ElementOfSeq, LenProperties
    <3>2. \A i \in 1..n : b[i] \in 1..Total
      BY <3>1
    <3> QED
      BY <3>2, SubSeqProperties
  <2> QED
    BY <2>1, <2>2, ConcatProperties, Working
<1> QED
  BY <1>1, <1>2 DEF Flush

LEMMA SinkWriting ==
  ASSUME TypeOK, NEW c \in Seq(1..Total), NEW u \in 1..Total, NEW w \in SinkWrite(c, u)
  PROVE  /\ w.body \in Seq(1..Total) /\ w.left \in Seq(1..Total)
         /\ CardWorks => w.body \o w.left = c \o Append(buf, u)
<1>1. Append(buf, u) \in Seq(1..Total)
  BY DEF TypeOK
<1>2. CASE w = [body |-> c, left |-> Append(buf, u)]
  BY <1>1, <1>2
<1>3. CASE w \in Flush(c, Append(buf, u))
  <2>1. /\ w.body \in Seq(1..Total) /\ w.left \in Seq(1..Total)
        /\ CardWorks => w.left = <<>> /\ w.body = c \o Append(buf, u)
    BY <1>1, <1>3, Flushing
  <2>2. CardWorks => w.body \o w.left = (c \o Append(buf, u)) \o <<>>
    BY <2>1
  <2>3. c \o Append(buf, u) \in Seq(1..Total)
    BY <1>1
  <2> QED
    BY <2>1, <2>2, <2>3, ConcatEmptySeq
<1> QED
  BY <1>2, <1>3 DEF SinkWrite

(* A cancel leaves the other files alone, and the request's own when it is  *)
(* complete.                                                                *)
LEMMA Cancelling ==
  ASSUME TypeOK, NEW c \in Cancelled
  PROVE  /\ c \in [Files -> Disk]
         /\ \A f \in Files :
              /\ c[f] = card[f] \/ (req # None /\ f = File /\ ~complete)
              /\ CardWorks => c[f] = card[f] \/ ~c[f].ok
<1>1. CASE req = None
  BY <1>1 DEF Cancelled, TypeOK, Disk
<1>2. CASE req # None
  <2>1. File \in Files
    BY <1>2 DEF TypeOK, File, Requests
  <2>2. PICK x \in DropPartial(card[File]) : c = [card EXCEPT ![File] = x]
    BY <1>2 DEF Cancelled
  <2>3. card \in [Files -> Disk]
    BY DEF TypeOK, Disk
  <2>4. card[File] \in Disk
    BY <2>1, <2>3
  <2>5. /\ x \in Disk /\ (complete => x = card[File])
        /\ x = card[File] \/ x.ok = FALSE \/ ~CardWorks
    BY <2>2, <2>4, Dropping
  <2> QED
    BY <1>2, <2>1, <2>2, <2>3, <2>5
<1> QED
  BY <1>1, <1>2
-----------------------------------------------------------------------------
LEMMA Requested ==
  ASSUME TypeOK, phase # "Idle"
  PROVE  req \in Requests /\ File \in Files
BY DEF TypeOK, File, Requests

(* What an open refers to is complete, so no download's file is among them. *)
LEMMA ServedElsewhere ==
  ASSUME LoaderInv, faults = {}, phase \in Dropped, NEW o \in {open, shown} \ {None},
         ~o.pending, o.file.kind = "chapter"
  PROVE  o.file \in Files /\ o.file # File /\ HasCompleteCache(card[o.file])
<1>1. CardWorks
  BY DEF CardWorks
<1>2. o.file \in Files
  BY DEF LoaderInv, TypeOK, Opened
<1>3. HasCompleteCache(card[o.file])
  BY DEF LoaderInv, Served, Dropped
<1>4. ~card[File].ok
  BY <1>1 DEF LoaderInv, Streamed
<1> QED
  BY <1>2, <1>3, <1>4 DEF HasCompleteCache

(* A download given up, or a file dropped by a cancel: the files called     *)
(* complete are those that were.                                            *)
LEMMA Failing ==
  ASSUME LoaderInv, phase \in Dropped, NEW c \in Seq(1..Total) \cup {Absent}, Fail(c)
  PROVE  LoaderInv'
<1>1. req \in Requests /\ File \in Files
  BY Requested DEF LoaderInv, Dropped
<1>2. PICK x \in DropPartial([card[File] EXCEPT !.body = c]) : card' = [card EXCEPT ![File] = x]
  BY DEF Fail
<1>3. card \in [Files -> Disk]
  BY DEF LoaderInv, TypeOK, Disk
<1>4. [card[File] EXCEPT !.body = c] \in Disk /\ [card[File] EXCEPT !.body = c].ok = card[File].ok
  BY <1>1, <1>3 DEF Disk
<1>5. x \in Disk /\ (CardWorks => x.ok \in {card[File].ok, FALSE})
  BY <1>4, Dropping
<1>6. card' \in [Files -> Disk] /\ \A f \in Files : card'[f] = IF f = File THEN x ELSE card[f]
  BY <1>1, <1>2, <1>3, <1>5
<1>7. TypeOK'
  BY <1>6, LoaderAssumption DEF LoaderInv, TypeOK, Disk, Fail, FateOK, fate, Phases, Dropped
<1>8. AppsOwnOpens'
  BY DEF LoaderInv, AppsOwnOpens, Fail
<1>9. ASSUME CardWorks
      PROVE  Streamed' /\ PartialNeverComplete'
  <2>1. card[File].ok = FALSE
    BY <1>1, <1>3, <1>9 DEF LoaderInv, Streamed, Disk
  <2>2. x.ok = FALSE
    BY <1>5, <1>9, <2>1
  <2>3. Streamed'
    BY <1>1, <1>6, <2>2 DEF Streamed, Fail, Flowing, File
  <2>4. PartialNeverComplete'
    BY <1>6, <1>9, <2>2 DEF LoaderInv, PartialNeverComplete, Fail, HasCompleteCache
  <2> QED
    BY <2>3, <2>4
<1>10. ASSUME faults = {}
       PROVE  Served'
  BY <1>6, <1>10, ServedElsewhere DEF Served, Fail
<1>11. FileThere'
  BY DEF FileThere, Fail, Flowing
<1> QED
  BY <1>7, <1>8, <1>9, <1>10, <1>11 DEF LoaderInv, CardWorks, Fail, fate

LEMMA ConnectFailing ==
  ASSUME LoaderInv, ConnectFails
  PROVE  LoaderInv'
BY Failing, Requested DEF ConnectFails, LoaderInv, TypeOK, Dropped

LEMMA Breaking ==
  ASSUME LoaderInv, Breaks
  PROVE  LoaderInv'
BY Failing, Requested DEF Breaks, LoaderInv, TypeOK, Dropped, Flowing
-----------------------------------------------------------------------------
(* The rest of pump.                                                        *)
LEMMA Connecting ==
  ASSUME LoaderInv, Connect
  PROVE  LoaderInv'
<1>1. req \in Requests /\ File \in Files
  BY Requested DEF Connect, LoaderInv
<1>2. TypeOK' /\ AppsOwnOpens'
  BY DEF LoaderInv, TypeOK, AppsOwnOpens, Connect, FateOK, fate, Phases
<1>3. ASSUME CardWorks
      PROVE  Streamed' /\ PartialNeverComplete'
  <2>1. <<>> \o <<>> = Prefix(0) /\ <<>> \in Seq(1..Total) /\ Len(<<>>) = 0
    BY DEF Prefix
  <2>2. card[File].body = <<>> /\ buf = <<>> /\ got = 0 /\ published = 0 /\ ~card[File].ok
    BY <1>3 DEF LoaderInv, Streamed, Connect, Dropped
  <2>3. phase' = "Streaming" /\ UNCHANGED <<card, req, buf, got, published>>
    BY DEF Connect
  <2>5. /\ card[File].body \in Seq(1..Total) /\ card[File].body \o buf = Prefix(got)
        /\ published <= Len(card[File].body)
    BY <2>1, <2>2
  <2>4. Streamed'
    BY <2>2, <2>3, <2>5 DEF Streamed, Flowing, File
  <2> QED
    BY <1>3, <2>4 DEF LoaderInv, PartialNeverComplete, Connect
<1>4. ASSUME faults = {}
      PROVE  Served'
  BY <1>4 DEF LoaderInv, Served, Connect, File
<1> QED
  BY <1>2, <1>3, <1>4 DEF LoaderInv, CardWorks, Connect, fate, FileThere, Flowing, File

LEMMA ConcatAppend ==
  ASSUME NEW S, NEW s \in Seq(S), NEW t \in Seq(S), NEW e \in S
  PROVE  s \o Append(t, e) = Append(s \o t, e)
<1>1. <<e>> \in Seq(S) /\ s \o t \in Seq(S)
  BY ConcatProperties
<1>2. Append(t, e) = t \o <<e>> /\ Append(s \o t, e) = (s \o t) \o <<e>>
  BY <1>1, AppendIsConcat
<1>3. (s \o t) \o <<e>> = s \o (t \o <<e>>)
  BY <1>1, ConcatAssociative
<1> QED
  BY <1>2, <1>3

LEMMA AppendRead ==
  ASSUME NEW s \in Seq(1..Total), NEW t \in Seq(1..Total), NEW e, e \in 1..Total
  PROVE  s \o Append(t, e) = Append(s \o t, e)
<1> DEFINE U == 1..Total
<1>1. e \in U /\ s \in Seq(U) /\ t \in Seq(U)
  OBVIOUS
<1> HIDE DEF U
<1> QED
  BY <1>1, ConcatAppend

LEMMA Longer ==
  ASSUME NEW n \in Nat, NEW s, s = Prefix(n)
  PROVE  Append(s, n + 1) = Prefix(n + 1) /\ Len(s) = n
<1>1. s \in Seq(Nat)
  BY SeqDef DEF Prefix
<1>2. Len(s) = n
  BY <1>1, LenProperties DEF Prefix
<1>3. /\ Append(s, n + 1) \in Seq(Nat) /\ Len(Append(s, n + 1)) = n + 1
      /\ \A i \in 1..n : Append(s, n + 1)[i] = s[i]
      /\ Append(s, n + 1)[n + 1] = n + 1
  BY <1>1, <1>2, AppendProperties
<1>4. /\ Append(s, n + 1) = [i \in 1..Len(Append(s, n + 1)) |-> Append(s, n + 1)[i]]
  BY <1>3, LenProperties
<1>5. \A i \in 1..n + 1 : Append(s, n + 1)[i] = i
  BY <1>3 DEF Prefix
<1> QED
  BY <1>2, <1>3, <1>4, <1>5 DEF Prefix

LEMMA SinkFailing ==
  ASSUME LoaderInv, SinkFails
  PROVE  LoaderInv'
<1>1. req \in Requests /\ File \in Files
  BY Requested DEF SinkFails, LoaderInv, Flowing
<1>2. PICK w \in SinkWrite(card[File].body, got + 1) : Fail(w.body)
  BY DEF SinkFails
<1>3. got + 1 \in 1..Total
  BY LoaderAssumption DEF LoaderInv, TypeOK, SinkFails
<1>4. card[File].body \in Seq(1..Total)
  BY <1>1 DEF LoaderInv, TypeOK, FileThere, SinkFails
<1>5. w.body \in Seq(1..Total)
  BY <1>2, <1>3, <1>4, SinkWriting DEF LoaderInv
<1> QED
  BY <1>2, <1>5, Failing DEF SinkFails, Flowing, Dropped

(* Nothing new is opened and the files opened are left alone. *)
LEMMA ServedStill ==
  ASSUME LoaderInv, faults = {}, phase \in Dropped, UNCHANGED shown,
         \A f \in Files : f # File => card'[f] = card[f],
         open' = open \/ open' = [file |-> File, pending |-> TRUE] \/ (open'.file = File /\ IsToc)
  PROVE  Served'
<1> SUFFICES ASSUME NEW o \in {open', shown} \ {None}, ~o.pending, o.file.kind = "chapter"
             PROVE  HasCompleteCache(card'[o.file])
  BY DEF Served
<1>1. o \in {open, shown} \ {None}
  BY DEF IsToc
<1> QED
  BY <1>1, ServedElsewhere

LEMMA Receiving ==
  ASSUME LoaderInv, Receive
  PROVE  LoaderInv'
<1>1. req \in Requests /\ File \in Files
  BY Requested DEF Receive, LoaderInv, Flowing
<1>0. PICK w \in SinkWrite(card[File].body, got + 1) :
        /\ Len(w.left) < BufLen
        /\ \E x \in Settle(w, got + 1) : buf' = x.left /\ card' = [card EXCEPT ![File].body = x.body]
  BY DEF Receive
<1>2. PICK x \in Settle(w, got + 1) : buf' = x.left /\ card' = [card EXCEPT ![File].body = x.body]
  BY <1>0
<1>3. got \in Nat /\ got + 1 \in 1..Total /\ buf \in Seq(1..Total)
  BY LoaderAssumption DEF LoaderInv, TypeOK, Receive
<1>4. card[File].body \in Seq(1..Total) /\ card \in [Files -> Disk]
  BY <1>1 DEF LoaderInv, TypeOK, FileThere, Receive, Disk
<1>5. /\ w.body \in Seq(1..Total) /\ w.left \in Seq(1..Total)
      /\ CardWorks => w.body \o w.left = card[File].body \o Append(buf, got + 1)
  BY <1>3, <1>4, SinkWriting DEF LoaderInv
<1>6. /\ x.body \in Seq(1..Total) /\ x.left \in Seq(1..Total) /\ Len(x.left) < BufLen
      /\ CardWorks => x.body \o x.left = w.body \o w.left
      /\ CardWorks /\ IsToc => x.left = <<>>
  <2>1. CASE FlushesAt(got + 1)
    <3>1. x \in Flush(w.body, w.left)
      BY <2>1 DEF Settle
    <3>0. w.body \in Seq(1..Total) /\ w.left \in Seq(1..Total)
      BY <1>5
    <3>2. /\ x.body \in Seq(1..Total) /\ x.left \in Seq(1..Total) /\ x.left \in {<<>>, w.left}
          /\ CardWorks => x.left = <<>> /\ x.body = w.body \o w.left
      BY <3>0, <3>1, Flushing
    <3>3. x.body \o <<>> = x.body
      BY <3>2, ConcatEmptySeq
    <3>4. Len(x.left) < BufLen
      BY <1>0, <3>2, LoaderAssumption
    <3>5. CardWorks => x.body \o x.left = w.body \o w.left
      BY <3>2, <3>3
    <3> QED
      BY <3>2, <3>4, <3>5
  <2>2. CASE ~FlushesAt(got + 1)
    BY <1>0, <1>5, <2>2 DEF Settle, FlushesAt
  <2> QED
    BY <2>1, <2>2
<1>7. /\ card' \in [Files -> Disk]
      /\ card'[File].body = x.body /\ card'[File].ok = card[File].ok
      /\ \A f \in Files : f # File => card'[f] = card[f]
  BY <1>1, <1>2, <1>4, <1>6 DEF Disk
<1>8. /\ UNCHANGED <<faults, cuts, bound, req, complete, untilClose, shown, cutoff, begins>>
      /\ phase' \in {phase, "EarlyOpened"} /\ Flowing' /\ early' \in {early, TRUE}
      /\ got' = got + 1 /\ published' \in {0, got + 1} /\ (IsToc \/ published' = 0)
  BY DEF Receive, fate, Flowing
<1>14. \/ open' = open
       \/ Accepted /\ IsToc /\ open' = [file |-> File, pending |-> FALSE]
       \/ Accepted /\ ~IsToc /\ open' = [file |-> File, pending |-> TRUE]
  <2>1. open' = open \/ (Accepted /\ Queue(~IsToc))
    BY DEF Receive
  <2>2. CASE IsToc
    BY <2>1, <2>2, (~IsToc) = FALSE DEF Queue
  <2>3. CASE ~IsToc
    BY <2>1, <2>3, (~IsToc) = TRUE DEF Queue
  <2> QED
    BY <2>2, <2>3
<1>9. TypeOK'
  <2>1. open' \in Opened
    <3>1. open \in Opened
      BY DEF LoaderInv, TypeOK
    <3>2. \A f \in Files : /\ [file |-> f, pending |-> TRUE] \in Opened
                           /\ [file |-> f, pending |-> FALSE] \in Opened
      BY DEF Opened
    <3> QED
      BY <1>1, <1>14, <3>1, <3>2
  <2>2. buf' \in Seq(1..Total) /\ Len(buf') < BufLen
    BY <1>2, <1>6
  <2>3. phase' \in Phases /\ phase' # "Idle" /\ req' \in Requests \cup {None} /\ (req' = None <=> phase' = "Idle")
    BY <1>1, <1>8, LoaderAssumption DEF Phases, Flowing, LoaderInv, TypeOK
  <2>4. got' \in Nat /\ published' \in 0..got'
    BY <1>3, <1>8
  <2>5. {early, complete, untilClose}' \subseteq BOOLEAN
    BY <1>8 DEF LoaderInv, TypeOK
  <2>6. /\ FateOK' /\ bound' \in Apps /\ shown' \in Opened
        /\ cutoff' \subseteq Files /\ begins' \in 0..MaxBegins
    BY <1>8 DEF LoaderInv, TypeOK, FateOK
  <2> QED
    BY <1>7, <2>1, <2>2, <2>3, <2>4, <2>5, <2>6 DEF TypeOK, Disk
<1>10. AppsOwnOpens'
  BY <1>8, <1>14 DEF LoaderInv, AppsOwnOpens, Accepted
<1>11. FileThere'
  BY <1>3, <1>6, <1>7, <1>8, LoaderAssumption DEF FileThere, File
<1>12. ASSUME CardWorks
       PROVE  Streamed' /\ PartialNeverComplete'
  <2>1. card[File].body \o buf = Prefix(got) /\ ~card[File].ok
    BY <1>12 DEF LoaderInv, Streamed, Receive, Flowing, Dropped
  <2>2. card[File].body \o Append(buf, got + 1) = Append(card[File].body \o buf, got + 1)
    BY <1>3, <1>4, AppendRead
  <2>3. x.body \o x.left = Prefix(got + 1) /\ Len(Prefix(got + 1)) = got + 1
    <3>1. Append(card[File].body \o buf, got + 1) = Prefix(got + 1)
      BY <1>3, <2>1, Longer
    <3>2. Len(Prefix(got + 1)) = got + 1
      BY <1>3, Longer
    <3> QED
      BY <1>5, <1>6, <1>12, <2>2, <3>1, <3>2
  <2>4. IsToc => Len(x.body) = got + 1
    BY <1>6, <1>12, <2>3, ConcatEmptySeq
  <2>5. published' <= Len(x.body)
    BY <1>3, <1>6, <1>8, <2>4, LenProperties
  <2>6. Streamed'
    BY <1>2, <1>6, <1>7, <1>8, <2>1, <2>3, <2>5 DEF Streamed, Flowing, File, Dropped
  <2>7. PartialNeverComplete'
    BY <1>7, <1>8, <1>12, <2>1 DEF LoaderInv, PartialNeverComplete, HasCompleteCache
  <2> QED
    BY <2>6, <2>7
<1>13. ASSUME faults = {}
       PROVE  Served'
  <2>1. phase \in Dropped
    BY DEF Receive, Flowing, Dropped
  <2>2. open' = open \/ open' = [file |-> File, pending |-> TRUE] \/ (open'.file = File /\ IsToc)
    BY <1>14
  <2>3. \A f \in Files : f # File => card'[f] = card[f]
    BY <1>7
  <2>4. UNCHANGED shown
    BY <1>8
  <2> QED
    BY <1>13, <2>1, <2>2, <2>3, <2>4, ServedStill
<1> QED
  BY <1>8, <1>9, <1>10, <1>11, <1>12, <1>13 DEF LoaderInv, CardWorks

LEMMA Finishing ==
  ASSUME LoaderInv, Finish
  PROVE  LoaderInv'
<1>1. req \in Requests /\ File \in Files
  BY Requested DEF Finish, LoaderInv, Flowing
<1>2. PICK x \in Flush(card[File].body, buf) : card' = [card EXCEPT ![File].body = x.body]
  BY DEF Finish
<1>3. card[File].body \in Seq(1..Total) /\ card \in [Files -> Disk] /\ buf \in Seq(1..Total)
  BY <1>1 DEF LoaderInv, TypeOK, FileThere, Finish, Disk
<1>4. x.body \in Seq(1..Total) /\ (CardWorks => x.body = card[File].body \o buf)
  BY <1>3, Flushing
<1>5. /\ card' \in [Files -> Disk]
      /\ card'[File].body = x.body /\ card'[File].ok = card[File].ok
      /\ \A f \in Files : f # File => card'[f] = card[f]
  BY <1>1, <1>2, <1>3, <1>4 DEF Disk
<1>6. /\ UNCHANGED <<faults, cuts, bound, req, untilClose, got, published, shown, begins>>
      /\ phase' = "Closing" /\ complete' = TRUE /\ buf' = <<>> /\ got > 0
      /\ cutoff' = IF got < Total THEN cutoff \cup {File} ELSE cutoff
      /\ got = Total \/ got < Total
  BY LoaderAssumption DEF Finish, fate, LoaderInv, TypeOK, FileThere
<1>7. open' \in {open, [file |-> File, pending |-> FALSE]} /\ (open' # open => File.app = bound)
  BY DEF Finish, FinalOpen, Queue, Accepted
<1>8. TypeOK'
  <2>1. \A f \in Files : [file |-> f, pending |-> FALSE] \in Opened
    BY DEF Opened
  <2>2. open' \in Opened /\ early' \in BOOLEAN /\ phase' \in Phases
    BY <1>1, <1>6, <1>7, <2>1 DEF LoaderInv, TypeOK, Phases, Finish
  <2> QED
    BY <1>1, <1>5, <1>6, <2>2, LoaderAssumption DEF LoaderInv, TypeOK, Disk, FateOK
<1>9. AppsOwnOpens' /\ FileThere'
  BY <1>6, <1>7 DEF LoaderInv, AppsOwnOpens, FileThere, Flowing
<1>10. ASSUME CardWorks
       PROVE  Streamed' /\ PartialNeverComplete'
  <2>1. card[File].body \o buf = Prefix(got) /\ ~card[File].ok
    BY <1>10 DEF LoaderInv, Streamed, Finish, Flowing, Dropped
  <2>2. x.body = Prefix(got) /\ Len(x.body) = got /\ x.body # <<>> /\ x.body # Absent
    <3>1. x.body = Prefix(got)
      BY <1>4, <1>10, <2>1
    <3>2. got \in Nat
      BY DEF LoaderInv, TypeOK
    <3>3. Len(x.body) = got
      BY <3>1, <3>2, Longer
    <3>4. x.body # Absent
      BY <1>4, LoaderAssumption
    <3> QED
      BY <1>6, <3>1, <3>3, <3>4
  <2>3. got = Total => x.body = Whole
    BY <2>2 DEF Prefix, Whole
  <2>4. Streamed'
    BY <1>5, <1>6, <2>2, <2>3 DEF Streamed, Flowing, File, Dropped
  <2>5. PartialNeverComplete'
    BY <1>5, <1>6, <1>10, <2>1 DEF LoaderInv, PartialNeverComplete, HasCompleteCache
  <2> QED
    BY <2>4, <2>5
<1>11. ASSUME faults = {}
       PROVE  Served'
  <2>1. phase \in Dropped /\ File' = File
    BY <1>6 DEF Finish, Flowing, Dropped, File
  <2> SUFFICES ASSUME NEW o \in {open', shown} \ {None}, ~o.pending, o.file.kind = "chapter"
               PROVE  HasCompleteCache(card'[o.file]) \/ File = o.file
    BY <1>6, <2>1 DEF Served
  <2>2. CASE o \in {open, shown}
    BY <1>5, <1>11, <2>1, <2>2, ServedElsewhere
  <2>3. CASE o = [file |-> File, pending |-> FALSE]
    BY <2>3
  <2> QED
    BY <1>7, <2>2, <2>3
<1> QED
  BY <1>6, <1>8, <1>9, <1>10, <1>11 DEF LoaderInv, CardWorks

LEMMA Marking ==
  ASSUME LoaderInv, WriteOkMarker
  PROVE  LoaderInv'
<1>1. req \in Requests /\ File \in Files /\ card \in [Files -> Disk]
  BY Requested DEF WriteOkMarker, LoaderInv, TypeOK, Disk
<1>2. /\ UNCHANGED <<faults, cuts, bound, req, early, complete, untilClose, got, published, buf,
                     open, shown, cutoff, begins>>
      /\ phase = "Closing" /\ phase' = "Done"
      /\ card' = [card EXCEPT ![File].ok = TRUE] \/ (MayFail("open") /\ card' = card)
  BY DEF WriteOkMarker, fate
<1>3. /\ card' \in [Files -> Disk] /\ card'[File].body = card[File].body
      /\ \A f \in Files : f # File => card'[f] = card[f]
  BY <1>1, <1>2 DEF Disk
<1>4. TypeOK'
  BY <1>1, <1>2, <1>3, LoaderAssumption DEF LoaderInv, TypeOK, Disk, FateOK, Phases
<1>5. AppsOwnOpens' /\ FileThere'
  BY <1>2 DEF LoaderInv, AppsOwnOpens, FileThere, Flowing
<1>6. ASSUME CardWorks
      PROVE  Streamed' /\ PartialNeverComplete'
  <2>1. card[File].body = Whole \/ File \in cutoff
    BY <1>2, <1>6 DEF LoaderInv, Streamed
  <2>2. Streamed'
    BY <1>2, <1>6 DEF LoaderInv, Streamed, Dropped, Flowing
  <2>3. PartialNeverComplete'
    BY <1>2, <1>3, <1>6, <2>1 DEF LoaderInv, PartialNeverComplete, HasCompleteCache
  <2> QED
    BY <2>2, <2>3
<1>7. ASSUME faults = {}
      PROVE  Served'
  <2>1. card'[File].ok = TRUE /\ card[File].body \notin {Absent, <<>>}
    BY <1>1, <1>2, <1>7 DEF LoaderInv, Streamed, MayFail, CardWorks, Disk
  <2>2. \A o \in {open, shown} \ {None} : o.file \in Files
    BY DEF LoaderInv, TypeOK, Opened
  <2> QED
    BY <1>2, <1>3, <1>7, <2>1, <2>2 DEF LoaderInv, Served, HasCompleteCache
<1> QED
  BY <1>2, <1>4, <1>5, <1>6, <1>7 DEF LoaderInv, CardWorks
-----------------------------------------------------------------------------
(* The script's calls, which begin with a cancel.                           *)

(* What a cancel leaves of the files: none becomes complete, and none that  *)
(* a reader was given changes.                                              *)
LEMMA CancelKeeps ==
  ASSUME LoaderInv, phase # "Closing", NEW c \in Cancelled
  PROVE  /\ c \in [Files -> Disk]
         /\ CardWorks => \A f \in Files : HasCompleteCache(c[f]) => c[f] = card[f]
         /\ faults = {} => \A o \in {open, shown} \ {None} :
              ~o.pending /\ o.file.kind = "chapter" =>
                o.file \in Files /\ HasCompleteCache(c[o.file]) /\ c[o.file] = card[o.file]
<1>1. /\ c \in [Files -> Disk]
      /\ \A f \in Files : /\ c[f] = card[f] \/ (req # None /\ f = File /\ ~complete)
                          /\ CardWorks => c[f] = card[f] \/ ~c[f].ok
  BY Cancelling DEF LoaderInv
<1>2. ASSUME faults = {}, NEW o \in {open, shown} \ {None}, ~o.pending, o.file.kind = "chapter"
      PROVE  o.file \in Files /\ HasCompleteCache(c[o.file]) /\ c[o.file] = card[o.file]
  <2>1. o.file \in Files
    BY DEF LoaderInv, TypeOK, Opened
  <2>2. HasCompleteCache(card[o.file])
    BY <1>2 DEF LoaderInv, Served
  <2>3. c[o.file] = card[o.file]
    <3>1. CASE phase \in Dropped
      BY <1>1, <1>2, <2>1, <3>1, ServedElsewhere
    <3>2. CASE phase = "Idle"
      BY <1>1, <2>1, <3>2 DEF LoaderInv, TypeOK
    <3>3. CASE phase = "Done"
      BY <1>1, <1>2, <2>1, <3>3 DEF LoaderInv, Streamed, CardWorks
    <3> QED
      BY <3>1, <3>2, <3>3 DEF LoaderInv, TypeOK, Phases, Dropped
  <2> QED
    BY <2>1, <2>2, <2>3
<1> QED
  BY <1>1, <1>2 DEF HasCompleteCache

LEMMA Serving ==
  ASSUME LoaderInv, phase # "Closing", NEW r \in Requests, r.file.app = bound,
         begins < MaxBegins, begins' = begins + 1, UNCHANGED <<fate, bound, shown>>,
         NEW c \in Cancelled, ServeCache(r, c)
  PROVE  LoaderInv'
<1>1. r.file \in Files /\ r # None
  BY LoaderAssumption DEF Requests
<1>2. card' = c /\ c \in [Files -> Disk] /\ HasCompleteCache(c[r.file])
  BY CancelKeeps DEF ServeCache
<1>3. /\ phase' = "Done" /\ req' = r /\ early' = TRUE /\ complete' = TRUE /\ untilClose' = FALSE
      /\ buf' = <<>> /\ got' = Len(c[r.file].body) /\ published' \in {0, got'}
      /\ open' = [file |-> r.file, pending |-> FALSE]
      /\ UNCHANGED <<faults, cuts, bound, shown, cutoff>>
  BY DEF ServeCache, fate
<1>4. TypeOK'
  <2>1. c[r.file].body \in Seq(1..Total) /\ Len(c[r.file].body) \in Nat
    BY <1>1, <1>2 DEF HasCompleteCache, Disk
  <2>2. <<>> \in Seq(1..Total) /\ Len(<<>>) = 0
    OBVIOUS
  <2>3. open' \in Opened
    <3>1. \A f \in Files : [file |-> f, pending |-> FALSE] \in Opened
      BY DEF Opened
    <3> QED
      BY <1>1, <1>3, <3>1
  <2>4. buf' \in Seq(1..Total) /\ Len(buf') < BufLen
    BY <1>3, <2>2, LoaderAssumption
  <2>5. got' \in Nat /\ published' \in 0..got'
    BY <1>3, <2>1
  <2>6. begins' \in 0..MaxBegins
    BY LoaderAssumption DEF LoaderInv, TypeOK
  <2> QED
    BY <1>1, <1>2, <1>3, <2>3, <2>4, <2>5, <2>6 DEF LoaderInv, TypeOK, Disk, FateOK, Phases
<1>5. AppsOwnOpens' /\ FileThere'
  BY <1>3 DEF LoaderInv, AppsOwnOpens, FileThere, Flowing
<1>6. ASSUME CardWorks
      PROVE  Streamed' /\ PartialNeverComplete'
  <2>1. Streamed'
    BY <1>3 DEF Streamed, Dropped, Flowing
  <2>2. PartialNeverComplete'
    BY <1>2, <1>3, <1>6, CancelKeeps DEF LoaderInv, PartialNeverComplete
  <2> QED
    BY <2>1, <2>2
<1>7. ASSUME faults = {}
      PROVE  Served'
  BY <1>2, <1>3, <1>7, CancelKeeps DEF Served
<1> QED
  BY <1>3, <1>4, <1>5, <1>6, <1>7 DEF LoaderInv, CardWorks

LEMMA Downloading ==
  ASSUME LoaderInv, phase # "Closing", NEW r \in Requests, r.file.app = bound,
         begins < MaxBegins, begins' = begins + 1, UNCHANGED <<fate, bound, shown>>,
         NEW c \in Cancelled, Download(r, c)
  PROVE  LoaderInv'
<1>1. r.file \in Files /\ r # None
  BY LoaderAssumption DEF Requests
<1>2. /\ c \in [Files -> Disk]
      /\ CardWorks => \A f \in Files : HasCompleteCache(c[f]) => c[f] = card[f]
  BY CancelKeeps
<1>3. PICK z \in Disk : /\ card' = [c EXCEPT ![r.file] = z]
                        /\ CardWorks => z.ok = FALSE
                        /\ \/ Fresh("Connecting", r) /\ z.body = <<>>
                           \/ Fresh("Failed", r) /\ MayFail("open")
  <2>1. PICK x \in RemoveOutputs(c[r.file]) :
           \/ Fresh("Connecting", r) /\ card' = [c EXCEPT ![r.file] = [x EXCEPT !.body = <<>>]]
           \/ /\ MayFail("open")
              /\ Fresh("Failed", r)
              /\ \E y \in RemoveOutputs(x) : card' = [c EXCEPT ![r.file] = y]
    BY DEF Download
  <2>2. x \in Disk /\ (CardWorks => x.ok = FALSE)
    BY <1>1, <1>2, Removing
  <2>3. CASE Fresh("Connecting", r) /\ card' = [c EXCEPT ![r.file] = [x EXCEPT !.body = <<>>]]
    <3>1. [x EXCEPT !.body = <<>>] \in Disk
      BY <2>2, EmptyBody DEF Disk
    <3>2. [x EXCEPT !.body = <<>>].ok = x.ok /\ [x EXCEPT !.body = <<>>].body = <<>>
      BY <2>2 DEF Disk
    <3> QED
      BY <2>2, <2>3, <3>1, <3>2
  <2>4. ASSUME MayFail("open"), Fresh("Failed", r), NEW y \in RemoveOutputs(x),
               card' = [c EXCEPT ![r.file] = y]
        PROVE  \E z \in Disk : /\ card' = [c EXCEPT ![r.file] = z]
                               /\ CardWorks => z.ok = FALSE
                               /\ \/ Fresh("Connecting", r) /\ z.body = <<>>
                                  \/ Fresh("Failed", r) /\ MayFail("open")
    <3>1. y \in Disk /\ (CardWorks => y.ok = FALSE)
      BY <2>2, <2>4, Removing
    <3> QED
      BY <2>4, <3>1
  <2> QED
    BY <2>1, <2>3, <2>4
<1>4. /\ card' \in [Files -> Disk]
      /\ \A f \in Files : card'[f] = IF f = r.file THEN z ELSE c[f]
  BY <1>1, <1>2, <1>3
<1>5. /\ phase' \in {"Connecting", "Failed"} /\ req' = r /\ early' = FALSE /\ complete' = FALSE
      /\ untilClose' = FALSE /\ buf' = <<>> /\ got' = 0 /\ published' = 0
      /\ phase' = "Connecting" => z.body = <<>>
      /\ phase' = "Failed" => MayFail("open")
  BY <1>3 DEF Fresh
<1>6. /\ UNCHANGED <<faults, cuts, bound, shown, open>> /\ cutoff' = cutoff \ {r.file}
      /\ ~HasCompleteCache(c[r.file]) \/ MayFail("open")
  BY DEF Download, fate
<1>7. TypeOK'
  <2>1. buf' \in Seq(1..Total) /\ Len(buf') < BufLen /\ got' \in Nat /\ published' \in 0..got'
    BY <1>5, LoaderAssumption
  <2>2. begins' \in 0..MaxBegins
    BY LoaderAssumption DEF LoaderInv, TypeOK
  <2> QED
    BY <1>1, <1>4, <1>5, <1>6, <2>1, <2>2 DEF LoaderInv, TypeOK, Disk, FateOK, Phases
<1>8. AppsOwnOpens' /\ FileThere'
  <2>1. <<>> # Absent /\ Total >= 0
    BY LoaderAssumption, EmptyBody
  <2> QED
    BY <1>1, <1>4, <1>5, <1>6, <2>1 DEF LoaderInv, AppsOwnOpens, FileThere, Flowing, File
<1>9. ASSUME CardWorks
      PROVE  Streamed' /\ PartialNeverComplete'
  <2>1. z.ok = FALSE
    BY <1>3, <1>9
  <2>2. Streamed'
    BY <1>1, <1>4, <1>5, <2>1 DEF Streamed, Dropped, Flowing, File
  <2>3. PartialNeverComplete'
    BY <1>2, <1>4, <1>6, <1>9, <2>1 DEF LoaderInv, PartialNeverComplete, HasCompleteCache
  <2> QED
    BY <2>2, <2>3
<1>10. ASSUME faults = {}
       PROVE  Served'
  <2>1. ~HasCompleteCache(c[r.file])
    BY <1>6, <1>10 DEF MayFail
  <2>2. \A o \in {open, shown} \ {None} :
          ~o.pending /\ o.file.kind = "chapter" => o.file \in Files /\ HasCompleteCache(c[o.file])
    BY <1>10, CancelKeeps
  <2> QED
    BY <1>4, <1>6, <2>1, <2>2 DEF Served
<1> QED
  BY <1>6, <1>7, <1>8, <1>9, <1>10 DEF LoaderInv, CardWorks

LEMMA IdleTypes ==
  ASSUME LoaderInv, FateOK', bound' \in Apps, phase' = "Idle", req' = None,
         early' = FALSE, complete' = FALSE, untilClose' = FALSE, got' = 0, published' = 0,
         buf' = <<>>, card' \in [Files -> Disk], {open', shown'} \subseteq {open, shown, None},
         UNCHANGED <<cutoff, begins>>
  PROVE  TypeOK'
<1>1. buf' \in Seq(1..Total) /\ Len(buf') < BufLen
  BY EmptyBody
<1>2. phase' \in Phases /\ req' \in Requests \cup {None} /\ (req' = None <=> phase' = "Idle")
  BY DEF Phases
<1>3. {open', shown'} \subseteq Opened
  BY DEF LoaderInv, TypeOK, Opened
<1>4. got' \in Nat /\ published' \in 0..got'
  OBVIOUS
<1>6. {early', complete', untilClose'} \subseteq BOOLEAN
  BY Zenon
<1>5. cutoff' \subseteq Files /\ begins' \in 0..MaxBegins
  BY DEF LoaderInv, TypeOK
<1> QED
  BY <1>1, <1>2, <1>3, <1>4, <1>5, <1>6 DEF TypeOK, Disk

LEMMA Cancels ==
  ASSUME LoaderInv, Cancel
  PROVE  LoaderInv'
<1>1. /\ card' \in Cancelled /\ phase # "Closing" /\ phase' = "Idle" /\ req' = None
      /\ early' = FALSE /\ complete' = FALSE /\ untilClose' = FALSE /\ got' = 0 /\ published' = 0
      /\ buf' = <<>>
      /\ UNCHANGED <<faults, cuts, bound, open, shown, cutoff, begins>>
  BY DEF Cancel, Fresh, fate
<1>2. /\ card' \in [Files -> Disk]
      /\ CardWorks => \A f \in Files : HasCompleteCache(card'[f]) => card'[f] = card[f]
      /\ faults = {} => \A o \in {open, shown} \ {None} :
           ~o.pending /\ o.file.kind = "chapter" => HasCompleteCache(card'[o.file])
  BY <1>1, CancelKeeps
<1>3. TypeOK'
  <2>1. FateOK' /\ bound' \in Apps
    BY <1>1 DEF LoaderInv, TypeOK, FateOK
  <2> QED
    BY <1>1, <1>2, <2>1, IdleTypes
<1>4. AppsOwnOpens' /\ FileThere'
  BY <1>1 DEF LoaderInv, AppsOwnOpens, FileThere, Flowing
<1>5. CardWorks => Streamed' /\ PartialNeverComplete'
  BY <1>1, <1>2 DEF LoaderInv, Streamed, PartialNeverComplete, Flowing, Dropped
<1>6. faults = {} => Served'
  BY <1>1, <1>2 DEF Served
<1> QED
  BY <1>1, <1>3, <1>4, <1>5, <1>6 DEF LoaderInv, CardWorks

-----------------------------------------------------------------------------
(* The UI task, the user and the power.                                     *)
LEMMA SessionAlone ==
  ASSUME LoaderInv, UNCHANGED <<faults, session, card, cutoff, begins>>, FateOK',
         bound' \in Apps, {open', shown'} \subseteq {open, shown, None},
         bound' = bound \/ {open', shown'} = {None}
  PROVE  LoaderInv'
<1>1. TypeOK' /\ AppsOwnOpens'
  BY DEF LoaderInv, TypeOK, AppsOwnOpens, session, Opened
<1>2. FileThere'
  BY DEF LoaderInv, FileThere, session, Flowing, File
<1>3. CardWorks => Streamed' /\ PartialNeverComplete'
  BY DEF LoaderInv, Streamed, PartialNeverComplete, session, Flowing, File
<1>4. faults = {} => Served'
  BY DEF LoaderInv, Served, session, File
<1> QED
  BY <1>1, <1>2, <1>3, <1>4 DEF LoaderInv, CardWorks

LEMMA Screen ==
  ASSUME LoaderInv, TakeOpen \/ CloseReader \/ SwitchApp
  PROVE  LoaderInv'
<1>1. UNCHANGED <<fate, session, card, cutoff, begins>> /\ FateOK'
  BY DEF TakeOpen, CloseReader, SwitchApp, LoaderInv, TypeOK, FateOK, fate
<1>2. bound' \in Apps /\ {open', shown'} \subseteq {open, shown, None}
  BY DEF TakeOpen, CloseReader, SwitchApp, LoaderInv, TypeOK
<1>3. bound' = bound \/ {open', shown'} = {None}
  BY DEF TakeOpen, CloseReader, SwitchApp
<1> QED
  BY <1>1, <1>2, <1>3, SessionAlone DEF fate

LEMMA Cutting ==
  ASSUME LoaderInv, Crash
  PROVE  LoaderInv'
<1>1. /\ faults' = faults /\ FateOK'
      /\ phase' = "Idle" /\ req' = None /\ early' = FALSE /\ complete' = FALSE
      /\ untilClose' = FALSE /\ got' = 0 /\ published' = 0 /\ buf' = <<>>
      /\ bound' \in Apps /\ open' = None /\ shown' = None /\ UNCHANGED <<cutoff, begins>>
  <2>1. faults' = faults /\ cuts' = cuts - 1 /\ cuts > 0
    BY DEF Crash, PowerCut
  <2>2. FateOK'
    BY <2>1, FateAssumption DEF LoaderInv, TypeOK, FateOK
  <2> QED
    BY <2>1, <2>2 DEF Crash, Fresh
<1>2. card \in [Files -> Disk]
  BY DEF LoaderInv, TypeOK, Disk
<1>3. /\ card' \in [Files -> Disk]
      /\ \A f \in Files : card'[f] = card[f] \/ card'[f].body = Absent
  <2>1. CASE card' = card
    BY <1>2, <2>1
  <2>2. ASSUME NEW f \in Files,
               \/ card' = [card EXCEPT ![f].body = Absent]
               \/ card' = [card EXCEPT ![f] = [body |-> Absent, ok |-> FALSE]]
        PROVE  /\ card' \in [Files -> Disk]
               /\ \A g \in Files : card'[g] = card[g] \/ card'[g].body = Absent
    <3>1. [card[f] EXCEPT !.body = Absent] \in Disk /\ [card[f] EXCEPT !.body = Absent].body = Absent
      BY <1>2 DEF Disk
    <3>2. [body |-> Absent, ok |-> FALSE] \in Disk
      BY DEF Disk
    <3>3. PICK z \in Disk : z.body = Absent /\ card' = [card EXCEPT ![f] = z]
      <4>1. CASE card' = [card EXCEPT ![f].body = Absent]
        BY <3>1, <4>1
      <4>2. CASE card' = [card EXCEPT ![f] = [body |-> Absent, ok |-> FALSE]]
        BY <3>2, <4>2
      <4> QED
        BY <2>2, <4>1, <4>2
    <3> QED
      BY <1>2, <3>3
  <2> QED
    BY <2>1, <2>2 DEF Crash, CutCards
<1>4. TypeOK'
  BY <1>1, <1>3, IdleTypes
<1>5. AppsOwnOpens' /\ FileThere' /\ Served'
  BY <1>1 DEF AppsOwnOpens, FileThere, Served, Flowing
<1>6. CardWorks => Streamed' /\ PartialNeverComplete'
  BY <1>1, <1>3 DEF LoaderInv, Streamed, PartialNeverComplete, HasCompleteCache, Flowing, Dropped
<1> QED
  BY <1>1, <1>4, <1>5, <1>6 DEF LoaderInv, CardWorks

-----------------------------------------------------------------------------
LEMMA LoaderInit == Init => LoaderInv
<1> SUFFICES ASSUME Init PROVE LoaderInv
  OBVIOUS
<1>1. TypeOK
  <2>1. FateOK
    BY FateAssumption DEF Init, FateInit, FateOK
  <2>2. buf \in Seq(1..Total) /\ Len(buf) < BufLen
    BY EmptyBody DEF Init
  <2>3. [body |-> Absent, ok |-> FALSE] \in [body : Seq(1..Total) \cup {Absent}, ok : BOOLEAN]
    OBVIOUS
  <2>4. card \in [Files -> [body : Seq(1..Total) \cup {Absent}, ok : BOOLEAN]]
    BY <2>3 DEF Init
  <2>5. begins \in 0..MaxBegins
    BY LoaderAssumption DEF Init
  <2>6. {early, complete, untilClose} \subseteq BOOLEAN
    BY Zenon DEF Init
  <2>7. /\ bound \in Apps /\ phase \in Phases /\ req \in Requests \cup {None}
        /\ (req = None <=> phase = "Idle") /\ got \in Nat /\ published \in 0..got
        /\ {open, shown} \subseteq Opened /\ cutoff \subseteq Files
    BY DEF Init, Phases, Opened
  <2> QED
    BY <2>1, <2>2, <2>4, <2>5, <2>6, <2>7 DEF TypeOK
<1>2. AppsOwnOpens /\ FileThere /\ Served
  BY DEF Init, AppsOwnOpens, FileThere, Served, Flowing
<1>3. Streamed /\ PartialNeverComplete
  BY DEF Init, Streamed, PartialNeverComplete, HasCompleteCache, Flowing, Dropped
<1> QED
  BY <1>1, <1>2, <1>3 DEF LoaderInv

LEMMA LoaderStep == LoaderInv /\ [Next]_vars => LoaderInv'
<1> SUFFICES ASSUME LoaderInv, [Next]_vars PROVE LoaderInv'
  OBVIOUS
<1>1. ASSUME NEW r \in Requests, Begin(r) PROVE LoaderInv'
  BY <1>1, Serving, Downloading DEF Begin
<1>2. CASE Cancel
  BY <1>2, Cancels
<1>3. CASE Pump
  BY <1>3, Connecting, ConnectFailing, Receiving, SinkFailing, Breaking, Finishing, Marking DEF Pump
<1>4. CASE TakeOpen \/ CloseReader \/ SwitchApp
  BY <1>4, Screen
<1>5. CASE Crash
  BY <1>5, Cutting
<1>6. CASE UNCHANGED vars
  <2>1. /\ UNCHANGED <<faults, session, card, cutoff, begins>> /\ FateOK' /\ bound' = bound
        /\ open' = open /\ shown' = shown /\ bound \in Apps
    BY <1>6 DEF vars, fate, LoaderInv, TypeOK, FateOK
  <2> QED
    BY <2>1, SessionAlone
<1> QED
  BY <1>1, <1>2, <1>3, <1>4, <1>5, <1>6 DEF Next

LEMMA LoaderHolds == Spec => []LoaderInv
BY LoaderInit, LoaderStep, PTL DEF Spec

(* The session, the files and what is opened of them stay of their kinds:   *)
(* the sink never holds a full buffer between two steps, and no more rows   *)
(* are published than were read.                                            *)
THEOREM LoaderTyping == Spec => []TypeOK
<1>1. LoaderInv => TypeOK
  BY DEF LoaderInv
<1> QED
  BY <1>1, LoaderHolds, PTL

(* What hasCompleteCache accepts is the whole body, on any card on which    *)
(* writes and removals work, whatever else fails and whenever the power is  *)
(* cut, but for the bodies whose connection closed early unnoticed.         *)
THEOREM CompleteSafe == Spec => []CompleteIsWhole
<1>1. LoaderInv => CompleteIsWhole
  BY DEF LoaderInv, CompleteIsWhole
<1> QED
  BY <1>1, LoaderHolds, PTL

(* Rows of a table of contents are in the file before the catalog is told   *)
(* of them, wherever writes and removals work.                              *)
THEOREM RowsSafe == Spec => []PublishedOnCard
<1>1. LoaderInv => PublishedOnCard
  BY DEF LoaderInv, PublishedOnCard, Streamed
<1> QED
  BY <1>1, LoaderHolds, PTL

(* A chapter a reader was given for good stays whole under it, whatever is  *)
(* requested, cancelled or cut meanwhile, where every call succeeds.        *)
THEOREM ShownSafe == Spec => []ShownIsWhole
<1>1. LoaderInv => ShownIsWhole
  <2> SUFFICES ASSUME LoaderInv, NEW o \in {open, shown} \ {None}, faults = {}, ~o.pending,
                      o.file.kind = "chapter", o.file \notin cutoff
               PROVE  card[o.file].body = Whole
    BY DEF ShownIsWhole
  <2>1. o.file \in Files /\ Streamed /\ PartialNeverComplete /\ Served
    BY DEF LoaderInv, TypeOK, Opened, CardWorks
  <2> QED
    BY <2>1 DEF Streamed, PartialNeverComplete, Served
<1> QED
  BY <1>1, LoaderHolds, PTL

(* A loader that outlives its app never has its text opened in another, on  *)
(* any card.                                                                *)
THEOREM OpensSafe == Spec => []AppsOwnOpens
<1>1. LoaderInv => AppsOwnOpens
  BY DEF LoaderInv
<1> QED
  BY <1>1, LoaderHolds, PTL
=============================================================================
