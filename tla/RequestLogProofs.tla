--------------------------- MODULE RequestLogProofs --------------------------
(***************************************************************************)
(* The safety properties of RequestLog, for any capacity of the ring, any  *)
(* batch size and limit, any number of streams, events and restarts: what  *)
(* is read from the file or from a stream is in sequence, and the log      *)
(* implements the journal.                                                 *)
(***************************************************************************)
EXTENDS RequestLog, SequenceTheorems, FiniteSetTheorems, TLAPS

-----------------------------------------------------------------------------
(***************************************************************************)
(* Sequences                                                               *)
(***************************************************************************)

LEMMA FunctionIsSeq ==
  ASSUME NEW S, NEW n \in Nat, NEW f \in [1..n -> S]
  PROVE  f \in Seq(S) /\ Len(f) = n
<1>1. f \in Seq(S)
  BY SeqDef
<1>2. Len(f) \in Nat /\ DOMAIN f = 1..Len(f)
  BY <1>1, LenProperties
<1>3. DOMAIN f = 1..n
  OBVIOUS
<1> QED BY <1>1, <1>2, <1>3

LEMMA ElementsOf ==
  ASSUME NEW S, NEW s \in Seq(S)
  PROVE  Len(s) \in Nat /\ DOMAIN s = 1..Len(s) /\ \A i \in DOMAIN s : s[i] \in S
  BY LenProperties, ElementOfSeq

LEMMA EventFields ==
  ASSUME NEW e \in Event
  PROVE  e.run \in Nat /\ e.seq \in Nat
  BY RequestLogAssumption DEF Event

\* Taking the first element off a concatenation.
LEMMA TailOfConcat ==
  ASSUME NEW S, NEW s \in Seq(S), NEW t \in Seq(S), s # <<>>
  PROVE  s \o t # <<>> /\ Head(s \o t) = Head(s) /\ Tail(s \o t) = Tail(s) \o t
<1>1. Len(s) \in Nat /\ Len(s) > 0 /\ Len(t) \in Nat
  BY EmptySeq, LenProperties
<1>2. s \o t \in Seq(S) /\ Len(s \o t) = Len(s) + Len(t)
  BY ConcatProperties
<1>3. s \o t # <<>>
  BY <1>1, <1>2, EmptySeq
<1>4. \A i \in 1..(Len(s) + Len(t)) : (s \o t)[i] = IF i <= Len(s) THEN s[i] ELSE t[i - Len(s)]
  BY ConcatProperties
<1>5. Head(s \o t) = Head(s)
  BY <1>1, <1>2, <1>3, <1>4
<1>6. /\ Tail(s) \in Seq(S) /\ Len(Tail(s)) = Len(s) - 1
      /\ \A i \in 1..Len(Tail(s)) : Tail(s)[i] = s[i + 1]
  BY HeadTailProperties
<1>7. /\ Tail(s \o t) \in Seq(S) /\ Len(Tail(s \o t)) = Len(s) + Len(t) - 1
      /\ \A i \in 1..Len(Tail(s \o t)) : Tail(s \o t)[i] = (s \o t)[i + 1]
  BY <1>2, <1>3, HeadTailProperties
<1>8. /\ Tail(s) \o t \in Seq(S) /\ Len(Tail(s) \o t) = Len(s) - 1 + Len(t)
      /\ \A i \in 1..(Len(s) - 1 + Len(t)) :
           (Tail(s) \o t)[i] = IF i <= Len(s) - 1 THEN Tail(s)[i] ELSE t[i - (Len(s) - 1)]
  BY <1>6, ConcatProperties
<1>9. ASSUME NEW i \in 1..(Len(s) + Len(t) - 1)
      PROVE  Tail(s \o t)[i] = (Tail(s) \o t)[i]
  <2>1. CASE i <= Len(s) - 1
    BY <1>1, <1>4, <1>6, <1>7, <1>8, <2>1
  <2>2. CASE i > Len(s) - 1
    <3>1. Tail(s \o t)[i] = t[i + 1 - Len(s)]
      BY <1>1, <1>4, <1>7, <2>2
    <3>2. (Tail(s) \o t)[i] = t[i - (Len(s) - 1)]
      BY <1>1, <1>8, <2>2
    <3>3. i + 1 - Len(s) = i - (Len(s) - 1)
      BY <1>1
    <3> QED BY <3>1, <3>2, <3>3
  <2> QED BY <1>1, <2>1, <2>2
<1>10. Tail(s \o t) = Tail(s) \o t
  BY <1>1, <1>7, <1>8, <1>9, SeqEqual
<1> QED BY <1>3, <1>5, <1>10

LEMMA AppendToConcat ==
  ASSUME NEW S, NEW s \in Seq(S), NEW t \in Seq(S), NEW e \in S
  PROVE  s \o Append(t, e) = Append(s \o t, e)
<1>1. <<e>> \in Seq(S)
  <2>1. <<>> \in Seq(S) /\ <<>> \o <<e>> = <<e>> /\ Append(<<>>, e) = <<e>>
    OBVIOUS
  <2> QED BY <2>1, AppendProperties
<1>2. Append(t, e) = t \o <<e>> /\ s \o t \in Seq(S)
  BY AppendIsConcat, ConcatProperties
<1>3. Append(s \o t, e) = (s \o t) \o <<e>>
  BY <1>2, AppendIsConcat
<1>4. batches \o queue \o pending = batches \o (queue \o pending)
  BY <1>1, ConcatAssociative
<1> QED BY <1>1, <1>2, <1>3, <1>4

-----------------------------------------------------------------------------
(***************************************************************************)
(* What a step leaves alone                                                *)
(***************************************************************************)

LEMMA UnsavedKept ==
  ASSUME UnsavedInv, UNCHANGED <<run, csv, logVars, batches>>
  PROVE  UnsavedInv'
  BY DEF UnsavedInv, Saved, Ev, logVars

LEMMA FileKept ==
  ASSUME FileInv, UNCHANGED <<run, csv, logVars, batches, file>>, good' => good
  PROVE  FileInv'
  BY DEF FileInv, FileInSequence, Saved, Ev, logVars

LEMMA RingKept ==
  ASSUME RingInv, UNCHANGED <<run, next_seq, buffer>>
  PROVE  RingInv'
  BY DEF RingInv, Ev

LEMMA StreamKept ==
  ASSUME NEW st, StreamInv(st), UNCHANGED <<run, next_seq, buffer>>,
         proc \in Live => proc' \in Live
  PROVE  StreamInv(st)'
  BY DEF StreamInv, Ev

LEMMA ClosedIsFine ==
  /\ ClosedStream \in Stream /\ StreamInv(ClosedStream) /\ StreamInv(ClosedStream)'
  /\ ~ClosedStream.overrun /\ ClosedStream.sent = <<>> /\ ClosedStream.start = 0
  /\ ClosedStream.last = 0 /\ ClosedStream.at = "closed" /\ ClosedStream.events = <<>>
<1>1. 0 \in 0..MaxEvents /\ <<>> \in Seq(Event)
  BY RequestLogAssumption
<1>2. ClosedStream \in Stream
  BY <1>1 DEF ClosedStream, Stream
<1>3. ClosedStream = [ClosedStream EXCEPT !.at = ClosedStream.at]
  BY <1>2 DEF Stream
<1>4. ClosedStream.at = "closed"
  BY DEF ClosedStream
<1>5. StreamInv(ClosedStream) /\ StreamInv(ClosedStream)'
  BY <1>3, <1>4 DEF StreamInv
<1> QED BY <1>2, <1>5 DEF ClosedStream

\* Only where the process and its writer are, and whether the output failed.
LEMMA QuietStep ==
  ASSUME IInv, UNCHANGED <<run, csv, logVars, stop, batches, file, streams>>,
         proc' \in Running, proc \in Live => proc' \in Live,
         writer' \in {"off", "open", "check", "waiting", "writing", "failed", "done"},
         good' \in BOOLEAN, good' => good, ProcInv'
  PROVE  IInv'
<1>1. TypeOK'
  BY DEF IInv, TypeOK, logVars
<1>2. UnsavedInv' /\ FileInv' /\ RingInv'
  BY UnsavedKept, FileKept, RingKept DEF IInv, logVars
<1>3. \A s \in Streams : StreamInv(streams[s])'
  BY StreamKept DEF IInv, logVars
<1> QED BY <1>1, <1>2, <1>3 DEF IInv

LEMMA QuietSteps ==
  ASSUME IInv, Signal \/ DestroyNotify \/ WriterOpen \/ WriterSpurious \/ OutFails \/ Flushed
  PROVE  IInv'
<1>1. TypeOK /\ ProcInv
  BY DEF IInv
<1>2. /\ writer \in {"off", "open", "check", "waiting", "writing", "failed", "done"}
      /\ good \in BOOLEAN
  BY <1>1 DEF TypeOK
<1>3. CASE Signal
  <2>1. ProcInv'
    BY <1>1, <1>3 DEF ProcInv, Signal, logVars, Live, Running
  <2> QED BY <1>2, <1>3, <2>1, QuietStep DEF Signal, Live, Running
<1>4. CASE DestroyNotify
  <2>1. ProcInv'
    BY <1>1, <1>4 DEF ProcInv, DestroyNotify, Notified, logVars, Live, Running
  <2> QED BY <1>2, <1>4, <2>1, QuietStep DEF DestroyNotify, Notified, Live, Running
<1>5. CASE WriterOpen
  <2>1. ProcInv'
    BY <1>1, <1>5 DEF ProcInv, WriterOpen, logVars
  <2> QED BY <1>2, <1>5, <2>1, QuietStep DEF WriterOpen
<1>6. CASE WriterSpurious
  <2>1. ProcInv'
    BY <1>1, <1>6 DEF ProcInv, WriterSpurious, logVars
  <2> QED BY <1>2, <1>6, <2>1, QuietStep DEF WriterSpurious
<1>7. CASE OutFails
  <2>1. ProcInv'
    BY <1>1, <1>7 DEF ProcInv, OutFails, logVars
  <2> QED BY <1>2, <1>7, <2>1, QuietStep DEF OutFails
<1>8. CASE Flushed
  <2>1. ProcInv'
    BY <1>1, <1>8 DEF ProcInv, Flushed, logVars
  <2> QED BY <1>2, <1>8, <2>1, QuietStep DEF Flushed
<1> QED BY <1>3, <1>4, <1>5, <1>6, <1>7, <1>8

-----------------------------------------------------------------------------
(***************************************************************************)
(* The process starts and ends                                             *)
(***************************************************************************)

LEMMA EndedStep ==
  ASSUME IInv, NEW how \in {"closed", "crashed"}, Ended(how)
  PROVE  IInv'
<1>1. TypeOK /\ FileInv
  BY DEF IInv
<1>2. /\ proc' = how /\ next_seq' = 1 /\ buffer' = <<>> /\ pending' = <<>> /\ queue' = <<>>
      /\ stop' = FALSE /\ batches' = <<>> /\ good' = TRUE /\ writer' = "off" /\ csv' = FALSE
      /\ streams' = [s \in Streams |-> ClosedStream] /\ run' = run /\ file' = file
  BY DEF Ended
<1>3. /\ <<>> \in Seq(Event) /\ Len(<<>>) = 0 /\ 1 \in 1..(MaxEvents + 1)
      /\ Len(<<>>) <= Capacity /\ Len(<<>>) < BatchSize
  BY RequestLogAssumption
<1>4. streams' \in [Streams -> Stream]
  BY <1>2, ClosedIsFine
<1>5. TypeOK'
  BY <1>1, <1>2, <1>3, <1>4 DEF TypeOK
<1>6. ProcInv'
  BY <1>2 DEF ProcInv, Running, Live
<1>7. UnsavedInv'
  BY <1>2 DEF UnsavedInv
<1>8. FileInv'
  BY <1>1, <1>2 DEF FileInv, FileInSequence
<1>9. RingInv'
  BY <1>2, <1>3 DEF RingInv
<1>10. \A s \in Streams : StreamInv(streams[s])'
  <2> TAKE s \in Streams
  <2>1. streams'[s] = ClosedStream
    BY <1>2
  <2> QED BY <2>1, ClosedIsFine DEF StreamInv
<1> QED BY <1>5, <1>6, <1>7, <1>8, <1>9, <1>10 DEF IInv

LEMMA StartStep ==
  ASSUME IInv, Start
  PROVE  IInv'
<1>1. TypeOK /\ FileInv /\ ProcInv
  BY DEF IInv
<1>2. /\ proc' = "up" /\ next_seq' = 1 /\ buffer' = <<>> /\ pending' = <<>> /\ queue' = <<>>
      /\ stop' = FALSE /\ batches' = <<>> /\ good' = TRUE /\ csv' \in BOOLEAN
      /\ writer' = (IF csv' THEN "open" ELSE "off") /\ run' = run + 1
      /\ streams' = streams /\ file' = file /\ run < MaxRuns /\ proc \notin Running
  BY DEF Start, Running, Live
<1>3. /\ <<>> \in Seq(Event) /\ Len(<<>>) = 0 /\ 1 \in 1..(MaxEvents + 1)
      /\ Len(<<>>) <= Capacity /\ Len(<<>>) < BatchSize
  BY RequestLogAssumption
<1>4. run \in Nat /\ run' \in 0..MaxRuns
  BY <1>1, <1>2, RequestLogAssumption DEF TypeOK
<1>5. TypeOK'
  BY <1>1, <1>2, <1>3, <1>4 DEF TypeOK, Running, Live
<1>6. ProcInv'
  BY <1>2, <1>4 DEF ProcInv, Running, Live
<1>7. UnsavedInv'
  BY <1>2, <1>3 DEF UnsavedInv, Saved
<1>8. FileInv'
  <2>1. \A i \in DOMAIN file : file[i].run \in Nat
    BY <1>1, ElementsOf, EventFields DEF TypeOK
  <2>2. \A i \in DOMAIN file : file[i].run < run + 1
    BY <1>1, <1>4, <2>1 DEF FileInv
  <2>3. Saved' = 0
    <3>1. Len(batches') = 0 /\ Len(queue') = 0 /\ Len(pending') = 0 /\ next_seq' = 1
      BY <1>2, <1>3
    <3> QED BY <3>1 DEF Saved
  <2> QED BY <1>1, <1>2, <1>4, <2>1, <2>2, <2>3 DEF FileInv, FileInSequence
<1>9. RingInv'
  BY <1>2, <1>3 DEF RingInv
<1>10. \A s \in Streams : StreamInv(streams[s])'
  <2> TAKE s \in Streams
  <2>1. streams[s] = ClosedStream
    <3>1. StreamInv(streams[s]) /\ streams[s] \in Stream
      BY <1>1 DEF IInv, TypeOK
    <3>2. streams[s].at = "closed"
      BY <1>2, <3>1 DEF StreamInv, Stream, Running
    <3> QED BY <3>1, <3>2, ClosedIsFine DEF StreamInv, Stream
  <2> QED BY <1>2, <2>1, ClosedIsFine DEF StreamInv
<1> QED BY <1>5, <1>6, <1>7, <1>8, <1>9, <1>10 DEF IInv

LEMMA DestroyStep ==
  ASSUME IInv, Destroy
  PROVE  IInv'
<1>1. TypeOK /\ ProcInv /\ UnsavedInv /\ FileInv /\ RingInv
  BY DEF IInv
<1>2. /\ proc = "draining" /\ proc' = (IF csv THEN "closing" ELSE "joining")
      /\ pending' = <<>> /\ queue' = queue \o pending /\ stop' = csv
      /\ streams' = [s \in Streams |-> ClosedStream]
      /\ UNCHANGED <<run, csv, next_seq, buffer, writer, batches, good, file>>
  BY DEF Destroy
<1>3. /\ queue \in Seq(Event) /\ pending \in Seq(Event) /\ batches \in Seq(Event)
      /\ next_seq \in Nat /\ csv \in BOOLEAN
  BY <1>1, RequestLogAssumption DEF TypeOK
<1>4. /\ queue' \in Seq(Event) /\ Len(queue') = Len(queue) + Len(pending)
      /\ \A i \in 1..(Len(queue) + Len(pending)) :
           queue'[i] = IF i <= Len(queue) THEN queue[i] ELSE pending[i - Len(queue)]
      /\ DOMAIN queue' = 1..(Len(queue) + Len(pending))
  BY <1>2, <1>3, ConcatProperties, LenProperties
<1>5. <<>> \in Seq(Event) /\ Len(pending') = 0 /\ DOMAIN pending' = {} /\ Len(pending') < BatchSize
  BY <1>2, RequestLogAssumption
<1>6. /\ Len(queue) \in Nat /\ Len(pending) \in Nat /\ Len(batches) \in Nat
      /\ DOMAIN queue = 1..Len(queue) /\ DOMAIN pending = 1..Len(pending)
  BY <1>3, LenProperties
<1>7. Saved' = Saved /\ Saved \in Int
  BY <1>2, <1>3, <1>4, <1>5, <1>6 DEF Saved
<1>8. TypeOK'
  <2>1. streams' \in [Streams -> Stream]
    BY <1>2, ClosedIsFine
  <2>2. pending' \in Seq(Event) /\ proc' \in Running
    BY <1>2, <1>5 DEF Running
  <2> QED BY <1>1, <1>2, <1>3, <1>4, <1>5, <2>1, <2>2 DEF TypeOK
<1>9. ProcInv'
  <2>1. ~csv => queue \o pending = <<>>
    BY <1>1, <1>3, ConcatEmptySeq DEF ProcInv
  <2>2. writer # "done"
    BY <1>1, <1>2 DEF ProcInv, Live
  <2> QED BY <1>1, <1>2, <2>1, <2>2 DEF ProcInv, Live, Running
<1>10. UnsavedInv'
  <2> SUFFICES ASSUME csv PROVE UnsavedInv'
    BY <1>2 DEF UnsavedInv
  <2>1. \A n : Ev(n)' = Ev(n)
    BY <1>2 DEF Ev
  <2>2. Saved >= 0 /\ \A i \in DOMAIN batches : batches[i] = Ev(Saved + i)
    BY <1>1 DEF UnsavedInv
  <2>3. ASSUME NEW i \in DOMAIN queue'
        PROVE  queue'[i] = Ev(Saved + Len(batches) + i)
    <3>1. CASE i <= Len(queue)
      BY <1>1, <1>4, <1>6, <3>1 DEF UnsavedInv
    <3>2. CASE i > Len(queue)
      <4>1. i - Len(queue) \in DOMAIN pending /\ queue'[i] = pending[i - Len(queue)]
        BY <1>4, <1>6, <2>3, <3>2
      <4>2. pending[i - Len(queue)] = Ev(Saved + Len(batches) + Len(queue) + (i - Len(queue)))
        BY <1>1, <4>1 DEF UnsavedInv
      <4>3. Saved + Len(batches) + Len(queue) + (i - Len(queue)) = Saved + Len(batches) + i
        BY <1>4, <1>6, <1>7, <2>3
      <4> QED BY <4>1, <4>2, <4>3
    <3> QED BY <1>4, <1>6, <3>1, <3>2
  <2> QED BY <1>2, <1>5, <1>7, <2>1, <2>2, <2>3 DEF UnsavedInv
<1>11. FileInv'
  BY <1>1, <1>2, <1>7 DEF FileInv, FileInSequence, Ev
<1>12. RingInv'
  BY <1>1, <1>2, RingKept
<1>13. \A s \in Streams : StreamInv(streams[s])'
  <2> TAKE s \in Streams
  <2>1. streams'[s] = ClosedStream
    BY <1>2
  <2> QED BY <2>1, ClosedIsFine DEF StreamInv
<1> QED BY <1>8, <1>9, <1>10, <1>11, <1>12, <1>13 DEF IInv

-----------------------------------------------------------------------------
(***************************************************************************)
(* The writer                                                              *)
(***************************************************************************)

LEMMA CheckStep ==
  ASSUME IInv, WriterCheck
  PROVE  IInv'
<1>1. TypeOK /\ ProcInv /\ UnsavedInv /\ FileInv /\ RingInv
  BY DEF IInv
<1>2. UNCHANGED <<proc, run, csv, next_seq, buffer, pending, stop, good, file, streams>>
  BY DEF WriterCheck
<1>3. CASE UNCHANGED <<queue, batches>> /\ writer' \in {"done", "waiting"}
  <2>1. ProcInv'
    BY <1>1, <1>2, <1>3 DEF WriterCheck, ProcInv
  <2>2. good' \in BOOLEAN /\ proc' = proc /\ proc \in Running
    BY <1>1, <1>2 DEF TypeOK, WriterCheck
  <2> QED BY <1>2, <1>3, <2>1, <2>2, QuietStep DEF logVars
<1>4. CASE writer' = "writing" /\ batches' = queue /\ queue' = <<>>
  <2>1. batches = <<>> /\ csv
    BY <1>1 DEF ProcInv, WriterCheck
  <2>2. queue \in Seq(Event) /\ Len(queue) \in Nat /\ Len(pending) \in Nat /\ next_seq \in Nat
    BY <1>1, LenProperties, RequestLogAssumption DEF TypeOK
  <2>3. Len(queue') = 0 /\ DOMAIN queue' = {} /\ Len(batches) = 0 /\ Len(batches') = Len(queue)
    BY <1>4, <2>1
  <2>4. Saved' = Saved /\ Saved \in Int
    BY <1>2, <2>2, <2>3 DEF Saved
  <2>5. TypeOK'
    BY <1>1, <1>2, <1>4, <2>2 DEF TypeOK
  <2>6. ProcInv'
    BY <1>1, <1>2, <1>4 DEF WriterCheck, ProcInv
  <2>7. UnsavedInv'
    <3>1. \A i \in DOMAIN batches' : batches'[i] = Ev(Saved + i)
      <4> TAKE i \in DOMAIN batches'
      <4>1. i \in Int /\ batches'[i] = Ev(Saved + Len(batches) + i)
        BY <1>1, <1>4, <2>1, <2>2, LenProperties DEF UnsavedInv
      <4>2. Saved + Len(batches) + i = Saved + i
        BY <2>3, <2>4, <4>1
      <4> QED BY <4>1, <4>2
    <3>2. \A i \in DOMAIN pending : pending[i] = Ev(Saved + Len(batches') + Len(queue') + i)
      <4> TAKE i \in DOMAIN pending
      <4>1. i \in Int /\ pending[i] = Ev(Saved + Len(batches) + Len(queue) + i)
        BY <1>1, <2>1, LenProperties DEF UnsavedInv, TypeOK
      <4>2. Saved + Len(batches) + Len(queue) + i = Saved + Len(batches') + Len(queue') + i
        BY <2>2, <2>3, <2>4, <4>1
      <4> QED BY <4>1, <4>2
    <3>3. Saved >= 0
      BY <1>1, <2>1 DEF UnsavedInv
    <3> QED BY <1>2, <2>3, <2>4, <3>1, <3>2, <3>3 DEF UnsavedInv, Ev
  <2>8. FileInv'
    BY <1>1, <1>2, <2>4 DEF FileInv, FileInSequence, Ev
  <2>9. RingInv'
    BY <1>1, <1>2, RingKept
  <2>10. \A s \in Streams : StreamInv(streams[s])'
    BY <1>2, StreamKept DEF IInv
  <2> QED BY <2>5, <2>6, <2>7, <2>8, <2>9, <2>10 DEF IInv
<1> QED BY <1>3, <1>4 DEF WriterCheck

LEMMA WriteStep ==
  ASSUME IInv, WriteRow
  PROVE  IInv'
<1>1. TypeOK /\ ProcInv /\ UnsavedInv /\ FileInv /\ RingInv
  BY DEF IInv
<1>2. /\ writer = "writing" /\ batches # <<>> /\ batches' = Tail(batches)
      /\ file' = (IF good THEN Append(file, Head(batches)) ELSE file)
      /\ UNCHANGED <<proc, run, csv, logVars, stop, writer, good, streams>>
  BY DEF WriteRow
<1>3. csv /\ run \in Nat /\ next_seq \in Nat
  BY <1>1, <1>2, RequestLogAssumption DEF ProcInv, TypeOK
<1>4. /\ batches \in Seq(Event) /\ queue \in Seq(Event) /\ pending \in Seq(Event)
      /\ file \in Seq(Event)
  BY <1>1 DEF TypeOK
<1>5. /\ Len(batches) \in Nat /\ Len(batches) > 0 /\ DOMAIN batches = 1..Len(batches)
      /\ Len(queue) \in Nat /\ Len(pending) \in Nat /\ Len(file) \in Nat
      /\ DOMAIN file = 1..Len(file) /\ DOMAIN queue = 1..Len(queue)
      /\ DOMAIN pending = 1..Len(pending)
  BY <1>2, <1>4, LenProperties, EmptySeq
<1>6. /\ batches' \in Seq(Event) /\ Len(batches') = Len(batches) - 1
      /\ \A i \in 1..Len(batches') : batches'[i] = batches[i + 1]
      /\ DOMAIN batches' = 1..Len(batches')
  BY <1>2, <1>4, HeadTailProperties, LenProperties
<1>7. UNCHANGED <<queue, pending, next_seq, buffer>>
  BY <1>2 DEF logVars
<1>8. Saved' = Saved + 1 /\ Saved \in Int
  BY <1>3, <1>5, <1>6, <1>7 DEF Saved
<1>9. /\ Saved >= 0
      /\ \A i \in DOMAIN batches : batches[i] = Ev(Saved + i)
      /\ \A i \in DOMAIN queue : queue[i] = Ev(Saved + Len(batches) + i)
      /\ \A i \in DOMAIN pending : pending[i] = Ev(Saved + Len(batches) + Len(queue) + i)
  BY <1>1, <1>3 DEF UnsavedInv
<1>10. Head(batches) = Ev(Saved + 1) /\ Head(batches) \in Event
  <2>1. Head(batches) = batches[1] /\ 1 \in DOMAIN batches
    BY <1>5
  <2> QED BY <1>2, <1>4, <1>9, <2>1, HeadTailProperties
<1>11. \A n : Ev(n)' = Ev(n)
  BY <1>2 DEF Ev
<1>12. UnsavedInv'
  <2>1. \A i \in DOMAIN batches' : batches'[i] = Ev(Saved' + i)
    <3> TAKE i \in DOMAIN batches'
    <3>1. i \in Int /\ i + 1 \in DOMAIN batches /\ batches'[i] = batches[i + 1]
      BY <1>5, <1>6
    <3>2. batches[i + 1] = Ev(Saved + (i + 1))
      BY <1>9, <3>1
    <3>3. Saved + (i + 1) = Saved' + i
      BY <1>8, <3>1
    <3> QED BY <3>1, <3>2, <3>3
  <2>2. \A i \in DOMAIN queue' : queue'[i] = Ev(Saved' + Len(batches') + i)
    <3> TAKE i \in DOMAIN queue'
    <3>1. i \in Int /\ queue'[i] = Ev(Saved + Len(batches) + i)
      BY <1>5, <1>7, <1>9
    <3>2. Saved + Len(batches) + i = Saved' + Len(batches') + i
      BY <1>5, <1>6, <1>8, <3>1
    <3> QED BY <3>1, <3>2
  <2>3. \A i \in DOMAIN pending' : pending'[i] = Ev(Saved' + Len(batches') + Len(queue') + i)
    <3> TAKE i \in DOMAIN pending'
    <3>1. i \in Int /\ pending'[i] = Ev(Saved + Len(batches) + Len(queue) + i) /\ Len(queue') = Len(queue)
      BY <1>5, <1>7, <1>9
    <3>2. Saved + Len(batches) + Len(queue) + i = Saved' + Len(batches') + Len(queue') + i
      BY <1>5, <1>6, <1>8, <3>1
    <3> QED BY <3>1, <3>2
  <2>4. Saved' >= 0
    BY <1>8, <1>9
  <2> QED BY <1>11, <2>1, <2>2, <2>3, <2>4 DEF UnsavedInv
<1>13. FileInv' /\ file' \in Seq(Event)
  <2>1. CASE ~good
    BY <1>1, <1>2, <1>4, <2>1 DEF FileInv, FileInSequence
  <2>2. CASE good
    <3>1. PICK e \in Event : e = Head(batches)
      BY <1>10
    <3>2. e.run = run /\ e.seq = Saved + 1
      BY <1>10, <3>1 DEF Ev
    <3>3. /\ file' \in Seq(Event) /\ Len(file') = Len(file) + 1
          /\ \A i \in 1..Len(file) : file'[i] = file[i]
          /\ file'[Len(file) + 1] = e
      BY <1>2, <1>4, <2>2, <3>1, AppendProperties
    <3>4. DOMAIN file' = 1..(Len(file) + 1) /\ file' # <<>>
      BY <1>2, <1>4, <2>2, <3>1, <3>3, LenProperties, AppendProperties
    <3>5. \/ Saved = 0 /\ \A i \in DOMAIN file : file[i].run < run
          \/ file # <<>> /\ file[Len(file)] = Ev(Saved)
      BY <1>1, <1>3, <2>2 DEF FileInv
    <3>6. \/ /\ e.seq = 1 /\ \A i \in 1..Len(file) : file[i].run < e.run
          \/ /\ Len(file) >= 1 /\ file[Len(file)].run = e.run /\ file[Len(file)].seq = e.seq - 1
      <4>1. CASE Saved = 0 /\ \A i \in DOMAIN file : file[i].run < run
        BY <1>5, <3>2, <4>1
      <4>2. CASE file # <<>> /\ file[Len(file)] = Ev(Saved)
        <5>1. Len(file) >= 1
          BY <1>4, <1>5, <4>2, EmptySeq
        <5>2. file[Len(file)].run = run /\ file[Len(file)].seq = Saved
          BY <4>2 DEF Ev
        <5>3. e.seq - 1 = Saved
          BY <1>8, <3>2
        <5> QED BY <3>2, <5>1, <5>2, <5>3
      <4> QED BY <3>5, <4>1, <4>2
    <3>7. ASSUME NEW i \in DOMAIN file'
          PROVE  \/ /\ file'[i].seq = 1
                    /\ i > 1 => file'[i - 1].run < file'[i].run
                 \/ /\ i > 1
                    /\ file'[i - 1].run = file'[i].run /\ file'[i - 1].seq = file'[i].seq - 1
      <4>1. CASE i \in 1..Len(file)
        <5>1. file'[i] = file[i] /\ (i > 1 => file'[i - 1] = file[i - 1]) /\ i \in DOMAIN file
          BY <1>5, <3>3, <4>1
        <5> QED BY <1>1, <5>1 DEF FileInv, FileInSequence
      <4>2. CASE i = Len(file) + 1
        <5>1. file'[i] = e /\ i - 1 = Len(file)
          BY <1>5, <3>3, <4>2
        <5>2. i > 1 => Len(file) \in 1..Len(file) /\ file'[i - 1] = file[Len(file)]
          BY <1>5, <3>3, <4>2, <5>1
        <5>3. Len(file) >= 1 => i > 1
          BY <1>5, <4>2
        <5> QED BY <3>6, <5>1, <5>2, <5>3
      <4> QED BY <1>5, <3>4, <3>7, <4>1, <4>2
    <3>8. \A i \in DOMAIN file' : file'[i].run <= run
      <4>1. e.run <= run
        BY <1>3, <3>2
      <4>2. \A i \in 1..Len(file) : file'[i].run <= run
        BY <1>1, <1>5, <3>3 DEF FileInv
      <4> QED BY <1>5, <3>3, <3>4, <4>1, <4>2
    <3>9. file'[Len(file')] = Ev(Saved')
      BY <1>8, <1>10, <3>1, <3>3
    <3>10. FileInSequence'
      BY <3>7 DEF FileInSequence
    <3> QED BY <1>2, <1>11, <3>3, <3>4, <3>8, <3>9, <3>10 DEF FileInv
  <2> QED BY <1>1, <2>1, <2>2 DEF TypeOK
<1>14. TypeOK'
  BY <1>1, <1>2, <1>6, <1>7, <1>13 DEF TypeOK
<1>15. ProcInv'
  BY <1>1, <1>2, <1>7 DEF ProcInv
<1>16. RingInv'
  BY <1>1, <1>2, <1>7, RingKept
<1>17. \A s \in Streams : StreamInv(streams[s])'
  BY <1>2, <1>7, StreamKept DEF IInv
<1> QED BY <1>12, <1>13, <1>14, <1>15, <1>16, <1>17 DEF IInv

-----------------------------------------------------------------------------
(***************************************************************************)
(* record                                                                  *)
(***************************************************************************)

\* The event that record adds.
LEMMA NewEvent ==
  ASSUME IInv, Record
  PROVE  Ev(next_seq) \in Event /\ next_seq \in Nat /\ next_seq' = next_seq + 1 /\ run \in Nat
<1>1. run \in 1..MaxRuns /\ next_seq \in 1..MaxEvents
  BY RequestLogAssumption DEF IInv, TypeOK, ProcInv, Record, Live, Running
<1> QED BY <1>1, RequestLogAssumption DEF Ev, Event, Record

LEMMA PushKeepsRing ==
  ASSUME IInv, Record
  PROVE  /\ RingInv' /\ buffer' \in Seq(Event) /\ Len(buffer') <= Capacity
         /\ Len(buffer') = IF Len(buffer) = Capacity THEN Len(buffer) ELSE Len(buffer) + 1
<1>1. PICK e \in Event : e = Ev(next_seq)
  BY NewEvent
<1>2. buffer' = Pushed(e) /\ next_seq' = next_seq + 1 /\ next_seq \in Nat /\ run' = run
  BY <1>1, NewEvent DEF Record, Ev
<1>3. /\ buffer \in Seq(Event) /\ Len(buffer) \in Nat /\ Len(buffer) <= Capacity
      /\ DOMAIN buffer = 1..Len(buffer) /\ Capacity \in Nat
  BY RequestLogAssumption, LenProperties DEF IInv, TypeOK
<1>4. PICK all : all = Append(buffer, e)
  OBVIOUS
<1>5. /\ all \in Seq(Event) /\ Len(all) = Len(buffer) + 1
      /\ \A i \in 1..Len(buffer) : all[i] = buffer[i]
      /\ all[Len(buffer) + 1] = e /\ DOMAIN all = 1..(Len(buffer) + 1)
  BY <1>3, <1>4, AppendProperties, LenProperties
<1>a. Len(buffer) \in Nat /\ Capacity \in Nat /\ Len(buffer) <= Capacity
  BY <1>3
<1>b. Len(all) = Len(buffer) + 1
  BY <1>5
<1>6. PICK over \in {0, 1} : /\ over = IF Len(buffer) = Capacity THEN 1 ELSE 0
                             /\ buffer' = SubSeq(all, over + 1, Len(all))
  <2>1. buffer' = SubSeq(all, (IF Len(all) > Capacity THEN Len(all) - Capacity ELSE 0) + 1, Len(all))
    BY <1>2, <1>4 DEF Pushed
  <2>2. CASE Len(buffer) = Capacity
    <3>1. Len(all) > Capacity /\ Len(all) - Capacity = 1
      BY <1>a, <1>b, <2>2
    <3> QED BY <2>1, <2>2, <3>1
  <2>3. CASE Len(buffer) # Capacity
    <3>1. ~(Len(all) > Capacity)
      BY <1>a, <1>b, <2>3
    <3> QED BY <2>1, <2>3, <3>1
  <2> QED BY <2>2, <2>3
<1>7. \A i \in (over + 1)..Len(all) : all[i] \in Event
  BY <1>5, ElementsOf
<1>8. /\ buffer' \in Seq(Event) /\ Len(buffer') = Len(buffer) + 1 - over
      /\ \A i \in 1..(Len(buffer) + 1 - over) : buffer'[i] = all[over + i]
  <2>1. over + 1 \in Int /\ Len(all) \in Int
    BY <1>3, <1>5
  <2>2. /\ buffer' \in Seq(Event)
        /\ Len(buffer') = IF over + 1 <= Len(all) THEN Len(all) - (over + 1) + 1 ELSE 0
        /\ \A i \in 1..(Len(all) - (over + 1) + 1) : buffer'[i] = all[over + 1 + i - 1]
    BY <1>6, <1>7, <2>1, SubSeqProperties
  <2>3. Len(all) - (over + 1) + 1 = Len(buffer) + 1 - over /\ Len(buffer') = Len(buffer) + 1 - over
    <3>1. CASE over = 0
      BY <1>3, <1>5, <2>2, <3>1
    <3>2. CASE over = 1
      BY <1>3, <1>5, <2>2, <3>2
    <3> QED BY <1>6, <3>1, <3>2
  <2>4. \A i \in Int : over + 1 + i - 1 = over + i
    OBVIOUS
  <2>5. ASSUME NEW i \in 1..(Len(buffer) + 1 - over)
        PROVE  buffer'[i] = all[over + i]
    <3>1. buffer'[i] = all[over + 1 + i - 1] /\ i \in Int
      BY <2>2, <2>3
    <3> QED BY <2>4, <3>1
  <2> QED BY <2>2, <2>3, <2>5
<1>9. DOMAIN buffer' = 1..Len(buffer')
  BY <1>8, LenProperties
<1>10. /\ Len(buffer) < next_seq
       /\ \A i \in DOMAIN buffer : buffer[i] = Ev(next_seq - 1 - Len(buffer) + i)
  BY DEF IInv, RingInv
<1>11. ASSUME NEW i \in DOMAIN buffer'
       PROVE  buffer'[i] = Ev(next_seq' - 1 - Len(buffer') + i)
  <2>1. i \in 1..(Len(buffer) + 1 - over) /\ buffer'[i] = all[over + i]
    BY <1>8, <1>9
  <2>2. next_seq' - 1 - Len(buffer') + i = next_seq - 1 - Len(buffer) + (over + i)
    BY <1>2, <1>3, <1>8, <2>1
  <2>3. CASE over + i \in 1..Len(buffer)
    BY <1>3, <1>5, <1>10, <2>1, <2>2, <2>3
  <2>4. CASE over + i = Len(buffer) + 1
    <3>1. all[over + i] = Ev(next_seq)
      BY <1>1, <1>5, <2>4
    <3>2. next_seq - 1 - Len(buffer) + (over + i) = next_seq
      BY <1>2, <1>3, <2>4
    <3> QED BY <2>1, <2>2, <3>1, <3>2
  <2> QED BY <1>3, <2>1, <2>3, <2>4
<1>12. Len(buffer') < next_seq'
  BY <1>2, <1>3, <1>8, <1>10
<1>13. RingInv'
  BY <1>2, <1>11, <1>12 DEF RingInv, Ev
<1>14. Len(buffer') = IF Len(buffer) = Capacity THEN Len(buffer) ELSE Len(buffer) + 1
  <2>1. Len(buffer') = Len(buffer) + 1 - over
    BY <1>8
  <2>2. CASE Len(buffer) = Capacity
    <3>1. over = 1
      BY <1>6, <2>2
    <3> QED BY <1>a, <2>1, <2>2, <3>1
  <2>3. CASE Len(buffer) # Capacity
    <3>1. over = 0
      BY <1>6, <2>3
    <3> QED BY <1>a, <2>1, <2>3, <3>1
  <2> QED BY <2>2, <2>3
<1>15. Len(buffer') <= Capacity
  BY <1>a, <1>14
<1> QED BY <1>8, <1>13, <1>14, <1>15

\* The event joins the others of the run that are not in the file.
LEMMA RecordKeepsUnsaved ==
  ASSUME IInv, Record
  PROVE  /\ UnsavedInv' /\ FileInv'
         /\ queue' \in Seq(Event) /\ pending' \in Seq(Event) /\ Len(pending') < BatchSize
<1>1. PICK e \in Event : e = Ev(next_seq)
  BY NewEvent
<1>2. next_seq' = next_seq + 1 /\ next_seq \in Nat /\ UNCHANGED <<run, csv, batches, good, file>>
  BY NewEvent DEF Record
<1>3. TypeOK /\ ProcInv /\ UnsavedInv /\ FileInv
  BY DEF IInv
<1>4. queue \in Seq(Event) /\ pending \in Seq(Event) /\ batches \in Seq(Event) /\ csv \in BOOLEAN
      /\ Len(pending) < BatchSize /\ BatchSize \in Nat \ {0}
  BY <1>3, RequestLogAssumption DEF TypeOK
<1>5. /\ Len(queue) \in Nat /\ Len(pending) \in Nat /\ Len(batches) \in Nat
      /\ DOMAIN queue = 1..Len(queue) /\ DOMAIN pending = 1..Len(pending)
      /\ DOMAIN batches = 1..Len(batches)
  BY <1>4, LenProperties
<1>6. PICK batch : batch = Append(pending, e)
  OBVIOUS
<1>7. /\ batch \in Seq(Event) /\ Len(batch) = Len(pending) + 1
      /\ \A i \in 1..Len(pending) : batch[i] = pending[i]
      /\ batch[Len(pending) + 1] = e /\ DOMAIN batch = 1..(Len(pending) + 1)
  BY <1>4, <1>6, AppendProperties, LenProperties
<1>8. <<>> \in Seq(Event) /\ Len(<<>>) = 0 /\ Len(<<>>) < BatchSize
  BY <1>4
<1>9. CASE ~csv
  <2>1. queue' = queue /\ pending' = <<>>
    BY <1>9 DEF Record
  <2>2. UnsavedInv'
    BY <1>2, <1>9 DEF UnsavedInv
  <2>3. FileInv'
    BY <1>2, <1>3, <1>9 DEF FileInv, FileInSequence
  <2> QED BY <1>4, <1>8, <2>1, <2>2, <2>3
<1>10. CASE csv
  <2>1. /\ Saved >= 0 /\ \A i \in DOMAIN batches : batches[i] = Ev(Saved + i)
        /\ \A i \in DOMAIN queue : queue[i] = Ev(Saved + Len(batches) + i)
        /\ \A i \in DOMAIN pending : pending[i] = Ev(Saved + Len(batches) + Len(queue) + i)
    BY <1>3, <1>10 DEF UnsavedInv
  <2>2. Saved \in Int /\ next_seq = Saved + Len(batches) + Len(queue) + (Len(pending) + 1)
    BY <1>2, <1>5 DEF Saved
  <2>3. \A i \in DOMAIN batch : batch[i] = Ev(Saved + Len(batches) + Len(queue) + i)
    <3> TAKE i \in DOMAIN batch
    <3>1. CASE i \in 1..Len(pending)
      BY <1>5, <1>7, <2>1, <3>1
    <3>2. CASE i = Len(pending) + 1
      BY <1>1, <1>7, <2>2, <3>2
    <3> QED BY <1>5, <1>7, <3>1, <3>2
  <2>4. \A n : Ev(n)' = Ev(n)
    BY <1>2 DEF Ev
  <2>5. ASSUME Saved' = Saved PROVE FileInv'
    BY <1>2, <1>3, <2>4, <2>5 DEF FileInv, FileInSequence
  <2>6. CASE Len(batch) < BatchSize
    <3>0. ~(Len(batch) >= BatchSize)
      BY <1>4, <1>5, <1>7, <2>6
    <3>1. queue' = queue /\ pending' = batch
      BY <1>1, <1>6, <1>10, <3>0 DEF Record, Ev
    <3>2. Len(queue') = Len(queue) /\ Len(pending') = Len(pending) + 1 /\ Len(batches') = Len(batches)
      BY <1>2, <1>7, <3>1
    <3>3. Saved' = Saved
      BY <1>2, <1>5, <3>2 DEF Saved
    <3>4. UnsavedInv'
      BY <1>2, <2>1, <2>3, <2>4, <3>1, <3>2, <3>3 DEF UnsavedInv
    <3> QED BY <1>4, <1>7, <2>5, <2>6, <3>1, <3>3, <3>4
  <2>7. CASE Len(batch) >= BatchSize
    <3>1. queue' = queue \o batch /\ pending' = <<>>
      BY <1>1, <1>6, <1>10, <2>7 DEF Record, Ev
    <3>2. /\ queue' \in Seq(Event) /\ Len(queue') = Len(queue) + (Len(pending) + 1)
          /\ \A i \in 1..(Len(queue) + (Len(pending) + 1)) :
               queue'[i] = IF i <= Len(queue) THEN queue[i] ELSE batch[i - Len(queue)]
          /\ DOMAIN queue' = 1..(Len(queue) + (Len(pending) + 1))
      <4>1. /\ queue' \in Seq(Event) /\ Len(queue') = Len(queue) + Len(batch)
            /\ \A i \in 1..(Len(queue) + Len(batch)) :
                 queue'[i] = IF i <= Len(queue) THEN queue[i] ELSE batch[i - Len(queue)]
        BY <1>4, <1>7, <3>1, ConcatProperties
      <4> QED BY <1>7, <4>1, LenProperties
    <3>3. Len(pending') = 0 /\ DOMAIN pending' = {} /\ Len(batches') = Len(batches)
      BY <1>2, <3>1
    <3>4. Saved' = Saved
      BY <1>2, <1>5, <3>2, <3>3 DEF Saved
    <3>5. ASSUME NEW i \in DOMAIN queue'
          PROVE  queue'[i] = Ev(Saved + Len(batches) + i)
      <4>1. CASE i <= Len(queue)
        BY <1>5, <2>1, <3>2, <4>1
      <4>2. CASE i > Len(queue)
        <5>1. i - Len(queue) \in DOMAIN batch /\ queue'[i] = batch[i - Len(queue)]
          BY <1>5, <1>7, <3>2, <3>5, <4>2
        <5>2. batch[i - Len(queue)] = Ev(Saved + Len(batches) + Len(queue) + (i - Len(queue)))
          BY <2>3, <5>1
        <5>3. Saved + Len(batches) + Len(queue) + (i - Len(queue)) = Saved + Len(batches) + i
          BY <1>5, <2>2, <3>2, <3>5
        <5> QED BY <5>1, <5>2, <5>3
      <4> QED BY <1>5, <3>2, <4>1, <4>2
    <3>6. UnsavedInv'
      BY <1>2, <2>1, <2>4, <3>3, <3>4, <3>5 DEF UnsavedInv
    <3> QED BY <1>8, <2>5, <3>1, <3>2, <3>4, <3>6
  <2> QED BY <1>4, <1>5, <1>7, <2>6, <2>7
<1> QED BY <1>4, <1>9, <1>10

\* An event that leaves the ring before a stream could read it marks the stream.
LEMMA RecordKeepsStream ==
  ASSUME IInv, Record, NEW s \in Streams
  PROVE  streams'[s] \in Stream /\ StreamInv(streams[s])'
<1>1. PICK x : x = IF buffer = <<>> THEN Ev(next_seq) ELSE Head(buffer)
  OBVIOUS
<1>2. PICK st : st = streams[s]
  OBVIOUS
<1>3. PICK o : o = (st.overrun \/ (Len(buffer) = Capacity /\ Past(s, x)))
  OBVIOUS
<1>4. streams'[s] = [st EXCEPT !.overrun = o]
  BY <1>1, <1>2, <1>3 DEF Record, Ev
<1>5. st \in Stream /\ StreamInv(st)
  BY <1>2 DEF IInv, TypeOK
<1>6. /\ streams'[s] \in Stream /\ streams'[s].at = st.at /\ streams'[s].last = st.last
      /\ streams'[s].events = st.events /\ streams'[s].start = st.start
      /\ streams'[s].sent = st.sent /\ streams'[s].overrun = o
  <2>1. o \in BOOLEAN
    BY <1>3
  <2> QED BY <1>4, <1>5, <2>1 DEF Stream
<1>7. next_seq \in Nat /\ next_seq' = next_seq + 1 /\ UNCHANGED <<run, proc>> /\ proc \in Live
  BY NewEvent DEF Record
<1>8. CASE st.at \in {"closed", "header"}
  <2>1. ~Past(s, x)
    BY <1>2, <1>8 DEF Past
  <2>2. o = st.overrun
    BY <1>3, <1>5, <2>1 DEF Stream
  <2>3. streams'[s] = st
    BY <1>4, <1>5, <2>2 DEF Stream
  <2>4. st = [ClosedStream EXCEPT !.at = st.at]
    BY <1>5, <1>8 DEF StreamInv
  <2> QED BY <1>6, <1>7, <1>8, <2>3, <2>4 DEF StreamInv
<1>9. CASE st.at \in {"sleep", "send"}
  <2>1. SUFFICES ASSUME ~o
                 PROVE  /\ st.start <= st.last
                        /\ st.last + Len(st.events) < next_seq'
                        /\ next_seq' - 1 - Len(buffer') <= st.last + Len(st.events)
                        /\ \A i \in DOMAIN st.events : st.events[i] = Ev(st.last + i)
                        /\ st.sent = [i \in 1..(st.last - st.start) |-> Ev(st.start + i)]
    BY <1>5, <1>6, <1>7, <1>9 DEF StreamInv, Ev
  <2>2. ~st.overrun /\ (Len(buffer) = Capacity => ~Past(s, x))
    BY <1>3, <2>1
  <2>3. /\ st.start <= st.last
        /\ st.last + Len(st.events) < next_seq
        /\ next_seq - 1 - Len(buffer) <= st.last + Len(st.events)
        /\ \A i \in DOMAIN st.events : st.events[i] = Ev(st.last + i)
        /\ st.sent = [i \in 1..(st.last - st.start) |-> Ev(st.start + i)]
    BY <1>5, <1>9, <2>2 DEF StreamInv
  <2>4. /\ st.last \in Nat /\ st.events \in Seq(Event) /\ Len(st.events) \in Nat
        /\ DOMAIN st.events = 1..Len(st.events)
    BY <1>5, LenProperties, RequestLogAssumption DEF Stream
  <2>5. buffer \in Seq(Event) /\ Len(buffer) \in Nat /\ DOMAIN buffer = 1..Len(buffer)
    BY LenProperties DEF IInv, TypeOK
  <2>6. next_seq' - 1 - Len(buffer') <= st.last + Len(st.events)
    <3>1. CASE Len(buffer) # Capacity
      <4>1. Len(buffer') = Len(buffer) + 1
        BY <3>1, PushKeepsRing
      <4> QED BY <1>7, <2>3, <2>4, <2>5, <4>1
    <3>2. CASE Len(buffer) = Capacity
      <4>1. Len(buffer') = Len(buffer) /\ ~Past(s, x)
        BY <2>2, <3>2, PushKeepsRing
      <4>2. x.seq = next_seq - Len(buffer)
        <5>1. CASE buffer = <<>>
          <6>1. Len(buffer) = 0 /\ x.seq = next_seq
            BY <1>1, <5>1 DEF Ev
          <6> QED BY <1>7, <6>1
        <5>2. CASE buffer # <<>>
          <6>1. 1 \in DOMAIN buffer
            BY <2>5, <5>2, EmptySeq
          <6>2. x = buffer[1] /\ buffer[1] = Ev(next_seq - 1 - Len(buffer) + 1)
            BY <1>1, <5>2, <6>1 DEF IInv, RingInv
          <6>3. next_seq - 1 - Len(buffer) + 1 = next_seq - Len(buffer)
            BY <1>7, <2>5
          <6> QED BY <6>2, <6>3 DEF Ev
        <5> QED BY <5>1, <5>2
      <4>3. \/ ~(x.seq > st.last)
            \/ \E i \in DOMAIN st.events : st.events[i] = x
        BY <1>2, <1>9, <4>1 DEF Past
      <4>4. x.seq <= st.last + Len(st.events)
        <5>1. CASE ~(x.seq > st.last)
          BY <1>7, <2>4, <2>5, <4>2, <5>1
        <5>2. ASSUME NEW i \in DOMAIN st.events, st.events[i] = x
              PROVE  x.seq <= st.last + Len(st.events)
          <6>1. x = Ev(st.last + i)
            BY <2>3, <5>2
          <6>2. x.seq = st.last + i
            BY <6>1 DEF Ev
          <6> QED BY <2>4, <6>2
        <5> QED BY <4>3, <5>1, <5>2
      <4> QED BY <1>7, <2>4, <2>5, <4>1, <4>2, <4>4
    <3> QED BY <3>1, <3>2
  <2> QED BY <1>7, <2>3, <2>4, <2>6
<1> QED BY <1>5, <1>6, <1>8, <1>9 DEF Stream

LEMMA RecordStep ==
  ASSUME IInv, Record
  PROVE  IInv'
<1>1. TypeOK /\ ProcInv
  BY DEF IInv
<1>2. /\ proc \in Live /\ UNCHANGED <<proc, run, csv, stop, batches, good, file>>
      /\ writer' = writer \/ (writer = "waiting" /\ writer' = "check")
      /\ next_seq <= MaxEvents /\ next_seq' = next_seq + 1
      /\ streams' = [s \in Streams |-> streams'[s]]
  BY DEF Record, Notified
<1>3. /\ UnsavedInv' /\ FileInv' /\ queue' \in Seq(Event) /\ pending' \in Seq(Event)
      /\ Len(pending') < BatchSize
  BY RecordKeepsUnsaved
<1>4. RingInv' /\ buffer' \in Seq(Event) /\ Len(buffer') <= Capacity
  BY PushKeepsRing
<1>5. \A s \in Streams : streams'[s] \in Stream /\ StreamInv(streams[s])'
  BY RecordKeepsStream
<1>6. TypeOK'
  <2>1. next_seq' \in 1..(MaxEvents + 1)
    BY <1>1, <1>2, RequestLogAssumption DEF TypeOK
  <2>2. streams' \in [Streams -> Stream]
    BY <1>2, <1>5
  <2> QED BY <1>1, <1>2, <1>3, <1>4, <2>1, <2>2 DEF TypeOK
<1>7. ~csv => pending' = <<>> /\ queue' = queue
  BY DEF Record
<1>8. ~stop /\ writer # "done" /\ proc \in Running /\ proc \notin {"closing", "joining"}
  BY <1>1, <1>2 DEF ProcInv, Live, Running
<1>9. ProcInv'
  BY <1>1, <1>2, <1>7, <1>8 DEF ProcInv
<1> QED BY <1>3, <1>4, <1>5, <1>6, <1>9 DEF IInv

-----------------------------------------------------------------------------
(***************************************************************************)
(* The streams                                                             *)
(***************************************************************************)

LEMMA StreamStep ==
  ASSUME IInv, NEW s \in Streams, NEW st \in Stream, StreamMoves(s, st), StreamInv(st)
  PROVE  IInv'
<1>1. /\ proc \in Live /\ streams' = [streams EXCEPT ![s] = st]
      /\ UNCHANGED <<proc, run, csv, logVars, stop, writer, batches, good, file>>
  BY DEF StreamMoves
<1>2. UNCHANGED <<next_seq, buffer, pending, queue>>
  BY <1>1 DEF logVars
<1>3. streams \in [Streams -> Stream]
  BY DEF IInv, TypeOK
<1>4. TypeOK'
  BY <1>1, <1>2, <1>3 DEF IInv, TypeOK
<1>5. ProcInv'
  BY <1>1, <1>2 DEF IInv, ProcInv
<1>6. UnsavedInv' /\ FileInv' /\ RingInv'
  BY <1>1, <1>2, UnsavedKept, FileKept, RingKept DEF IInv
<1>7. ASSUME NEW q \in Streams
      PROVE  StreamInv(streams[q])'
  <2>1. PICK x : x = streams'[q]
    OBVIOUS
  <2>2. StreamInv(x)
    BY <1>1, <1>3, <2>1 DEF IInv
  <2>3. StreamInv(x)'
    BY <1>1, <1>2, <2>2, StreamKept
  <2> QED BY <2>1, <2>3 DEF StreamInv
<1> QED BY <1>4, <1>5, <1>6, <1>7 DEF IInv

\* The arithmetic of events_since: the ring holds `len` events after `base`, `skip`
\* of them are not newer than `since`, and `n` of the others are returned.
IsWindow(len, next, since, lim, base, skip, n) ==
  /\ base = next - 1 - len
  /\ skip <= len /\ \A i \in 1..len : base + i > since <=> i >= skip + 1
  /\ n = (IF len - skip > lim THEN lim ELSE len - skip) /\ n <= len - skip
  /\ base + skip = (IF base <= since THEN since ELSE base)
  /\ base + skip + n < next
  /\ n = 0 => base + skip = next - 1

LEMMA Window ==
  ASSUME NEW len \in Nat, NEW next \in Nat, NEW since \in Nat, NEW lim \in Nat \ {0},
         len < next, since < next
  PROVE  \E base \in Nat, skip \in Nat, n \in Nat :
           IsWindow(len, next, since, lim, base, skip, n)
<1>1. PICK base \in Nat : base = next - 1 - len
  OBVIOUS
<1>2. PICK skip \in Nat : skip = (IF base <= since THEN since - base ELSE 0)
  <2>1. CASE base <= since
    <3>1. since - base \in Nat
      BY <2>1
    <3> QED BY <2>1, <3>1
  <2>2. CASE ~(base <= since)
    BY <2>2
  <2> QED BY <2>1, <2>2
<1>3. skip <= len /\ base + skip = (IF base <= since THEN since ELSE base)
  BY <1>1, <1>2
<1>4. \A i \in 1..len : base + i > since <=> i >= skip + 1
  BY <1>1, <1>2
<1>5. PICK n \in Nat : n = (IF len - skip > lim THEN lim ELSE len - skip)
  <2>1. len - skip \in Nat /\ lim \in Nat
    BY <1>3
  <2> QED BY <2>1
<1>6. n <= len - skip /\ (n = 0 => len = skip)
  BY <1>3, <1>5
<1>7. base + skip + n < next /\ (n = 0 => base + skip = next - 1)
  BY <1>1, <1>3, <1>6
<1> QED BY <1>1, <1>3, <1>4, <1>5, <1>6, <1>7 DEF IsWindow

\* events_since over a ring that is in sequence: the events after `since`, from
\* the next one or the oldest in the ring on.
LEMMA EventsSinceInOrder ==
  ASSUME IInv, NEW since \in Nat, since < next_seq
  PROVE  \E n, first \in Nat :
           /\ EventsSince(since) = [k \in 1..n |-> Ev(first + k)]
           /\ first = IF next_seq - 1 - Len(buffer) <= since THEN since ELSE next_seq - 1 - Len(buffer)
           /\ first + n < next_seq
           /\ n = 0 => first = next_seq - 1
<1>1. buffer \in Seq(Event) /\ Len(buffer) \in Nat /\ DOMAIN buffer = 1..Len(buffer)
  BY LenProperties DEF IInv, TypeOK
<1>a. next_seq \in Nat /\ Len(buffer) < next_seq /\ Limit \in Nat \ {0}
  BY RequestLogAssumption DEF IInv, TypeOK, RingInv
<1>b. PICK len \in Nat, next \in Nat, lim \in Nat \ {0} :
        len = Len(buffer) /\ next = next_seq /\ lim = Limit
  BY <1>1, <1>a
<1>2. PICK base \in Nat, skip \in Nat, n \in Nat :
           IsWindow(len, next, since, lim, base, skip, n)
  <2>1. len < next /\ since < next
    BY <1>a, <1>b
  <2> QED BY <2>1, Window
<1>3. \A i \in 1..len : buffer[i] = Ev(base + i)
  BY <1>1, <1>2, <1>b DEF IInv, RingInv, IsWindow
<1>4. skip <= len /\ n <= len - skip
  BY <1>2 DEF IsWindow
<1>5. Newer(since) = (skip + 1)..len
  <2>1. \A i \in 1..len : buffer[i].seq = base + i
    <3> TAKE i \in 1..len
    <3>1. buffer[i] = Ev(base + i)
      BY <1>3
    <3> QED BY <3>1 DEF Ev
  <2>2. \A i \in 1..len : base + i > since <=> i >= skip + 1
    BY <1>2 DEF IsWindow
  <2>3. Newer(since) = {i \in 1..len : base + i > since}
    BY <1>1, <1>b, <2>1 DEF Newer
  <2>4. {i \in 1..len : base + i > since} = {i \in 1..len : i >= skip + 1}
    BY <2>2
  <2>5. {i \in 1..len : i >= skip + 1} = (skip + 1)..len
    OBVIOUS
  <2> QED BY <2>3, <2>4, <2>5
<1>6. Cardinality((skip + 1)..len) = len - skip
  <2>1. skip + 1 \in Int /\ len \in Int
    OBVIOUS
  <2>2. Cardinality((skip + 1)..len) = IF skip + 1 > len THEN 0 ELSE len - (skip + 1) + 1
    BY <2>1, FS_Interval
  <2> QED BY <1>4, <2>2
<1>7. ASSUME NEW k \in 1..(len - skip)
      PROVE  Nth((skip + 1)..len, k) = skip + k
  <2> DEFINE Rank(i) == Cardinality({j \in (skip + 1)..len : j <= i})
  <2>1. ASSUME NEW i \in (skip + 1)..len
        PROVE  Rank(i) = i - skip
    <3>1. {j \in (skip + 1)..len : j <= i} = (skip + 1)..i
      OBVIOUS
    <3>2. Cardinality((skip + 1)..i) = IF skip + 1 > i THEN 0 ELSE i - (skip + 1) + 1
      BY FS_Interval
    <3>3. (IF skip + 1 > i THEN 0 ELSE i - (skip + 1) + 1) = i - skip
      OBVIOUS
    <3> QED BY <3>1, <3>2, <3>3
  <2>2. skip + k \in (skip + 1)..len /\ skip + k - skip = k
    OBVIOUS
  <2>3. \A i \in (skip + 1)..len : i - skip = k <=> i = skip + k
    OBVIOUS
  <2>4. \A i \in (skip + 1)..len : Rank(i) = k <=> i = skip + k
    BY <2>1, <2>3
  <2>5. (CHOOSE i \in (skip + 1)..len : Rank(i) = k) = skip + k
    <3> HIDE DEF Rank
    <3> QED BY <2>2, <2>4
  <2> QED BY <2>5 DEF Nth
<1>8. EventsSince(since) = [k \in 1..n |-> buffer[Nth((skip + 1)..len, k)]]
  <2>1. n = (IF len - skip > Limit THEN Limit ELSE len - skip)
    BY <1>2, <1>b DEF IsWindow
  <2> QED BY <1>5, <1>6, <2>1 DEF EventsSince
<1>9. PICK first \in Nat : first = base + skip
  OBVIOUS
<1>10. \A k \in 1..n : buffer[Nth((skip + 1)..len, k)] = Ev(first + k)
  <2> TAKE k \in 1..n
  <2>1. k \in 1..(len - skip) /\ skip + k \in 1..len /\ base + (skip + k) = first + k
    BY <1>4, <1>9
  <2> QED BY <1>3, <1>7, <2>1
<1>11. EventsSince(since) = [k \in 1..n |-> Ev(first + k)]
  BY <1>8, <1>10
<1>12. /\ first = IF next_seq - 1 - Len(buffer) <= since THEN since ELSE next_seq - 1 - Len(buffer)
       /\ first + n < next_seq /\ (n = 0 => first = next_seq - 1)
  BY <1>2, <1>9, <1>b DEF IsWindow
<1> QED BY <1>11, <1>12

LEMMA StreamState ==
  ASSUME IInv, NEW s \in Streams
  PROVE  /\ streams[s] \in Stream /\ StreamInv(streams[s])
         /\ next_seq \in Nat /\ next_seq - 1 \in 0..MaxEvents /\ Len(buffer) \in Nat
         /\ next_seq > 0 /\ Len(buffer) < next_seq
<1>1. next_seq \in 1..(MaxEvents + 1) /\ MaxEvents \in Nat /\ buffer \in Seq(Event)
  BY RequestLogAssumption DEF IInv, TypeOK
<1>2. Len(buffer) \in Nat
  BY <1>1, LenProperties
<1> QED BY <1>1, <1>2 DEF IInv, TypeOK, RingInv

\* The events of a stream that sleeps and of one that sends.
LEMMA StreamFields ==
  ASSUME NEW st \in Stream
  PROVE  /\ st.at \in {"closed", "header", "sleep", "send"}
         /\ st.last \in Nat /\ st.start \in Nat /\ st.last \in 0..MaxEvents /\ st.start \in 0..MaxEvents
         /\ st.events \in Seq(Event) /\ st.sent \in Seq(Event) /\ st.overrun \in BOOLEAN
         /\ Len(st.events) \in Nat /\ DOMAIN st.events = 1..Len(st.events)
<1>1. /\ st.at \in {"closed", "header", "sleep", "send"}
      /\ st.last \in 0..MaxEvents /\ st.start \in 0..MaxEvents
      /\ st.events \in Seq(Event) /\ st.sent \in Seq(Event) /\ st.overrun \in BOOLEAN
  BY DEF Stream
<1>2. st.last \in Nat /\ st.start \in Nat
  BY <1>1, RequestLogAssumption
<1> QED BY <1>1, <1>2, LenProperties

LEMMA StreamOpenStep ==
  ASSUME IInv, NEW s \in Streams, StreamOpen(s)
  PROVE  IInv'
<1>1. PICK st : st = [ClosedStream EXCEPT !.at = "header"]
  OBVIOUS
<1>2. StreamMoves(s, st) /\ proc \in Live
  BY <1>1 DEF StreamOpen, StreamMoves
<1>3. st \in Stream /\ st.at = "header"
  BY <1>1, ClosedIsFine DEF Stream
<1>4. StreamInv(st)
  BY <1>1, <1>2, <1>3 DEF StreamInv
<1> QED BY <1>2, <1>3, <1>4, StreamStep

LEMMA StreamEndStep ==
  ASSUME IInv, NEW s \in Streams, StreamEnd(s)
  PROVE  IInv'
<1>1. StreamMoves(s, ClosedStream)
  BY DEF StreamEnd
<1> QED BY <1>1, ClosedIsFine, StreamStep

LEMMA StreamStartStep ==
  ASSUME IInv, NEW s \in Streams, StreamStart(s)
  PROVE  IInv'
<1>1. PICK old : old = streams[s]
  OBVIOUS
<1>2. PICK n : n = next_seq - 1
  OBVIOUS
<1>3. PICK st : st = [old EXCEPT !.at = "sleep", !.last = n, !.start = n]
  OBVIOUS
<1>4. StreamMoves(s, st) /\ old.at = "header"
  BY <1>1, <1>2, <1>3 DEF StreamStart, latest_seq
<1>5. old \in Stream /\ StreamInv(old) /\ n \in 0..MaxEvents /\ n \in Nat
  BY <1>1, <1>2, StreamState, RequestLogAssumption
<1>6. old = [ClosedStream EXCEPT !.at = "header"]
  BY <1>4, <1>5 DEF StreamInv
<1>7. old.events = <<>> /\ old.sent = <<>>
  BY <1>6, ClosedIsFine DEF ClosedStream
<1>8. st \in Stream
  BY <1>3, <1>5 DEF Stream
<1>9. st.at = "sleep" /\ st.last = n /\ st.start = n /\ st.events = <<>> /\ st.sent = <<>>
  BY <1>3, <1>5, <1>7 DEF Stream
<1>10. /\ n + 0 < next_seq /\ next_seq - 1 - Len(buffer) <= n + 0 /\ n <= n
  BY <1>2, <1>5, StreamState
<1>11. <<>> = [i \in 1..(n - n) |-> Ev(n + i)]
  <2>1. 1..(n - n) = {}
    BY <1>5
  <2> QED BY <2>1
<1>12. Len(st.events) = 0 /\ DOMAIN st.events = {} /\ proc \in Live
  BY <1>4, <1>9 DEF StreamMoves
<1>13. StreamInv(st)
  BY <1>9, <1>10, <1>11, <1>12 DEF StreamInv
<1> QED BY <1>4, <1>8, <1>13, StreamStep

\* A stream that is past the last event is given nothing.
LEMMA NothingNewer ==
  ASSUME IInv, NEW since \in Nat, ~(since < next_seq)
  PROVE  EventsSince(since) = <<>>
<1>1. buffer \in Seq(Event) /\ Len(buffer) \in Nat /\ DOMAIN buffer = 1..Len(buffer)
  BY LenProperties DEF IInv, TypeOK
<1>2. next_seq \in Nat /\ Limit \in Nat \ {0}
  BY RequestLogAssumption DEF IInv, TypeOK
<1>3. Newer(since) = {}
  <2> SUFFICES ASSUME NEW i \in DOMAIN buffer
               PROVE  ~(buffer[i].seq > since)
    BY DEF Newer
  <2>1. buffer[i] = Ev(next_seq - 1 - Len(buffer) + i)
    BY DEF IInv, RingInv
  <2>2. buffer[i].seq = next_seq - 1 - Len(buffer) + i
    BY <2>1 DEF Ev
  <2>3. i \in Nat /\ i <= Len(buffer)
    BY <1>1
  <2> QED BY <1>1, <1>2, <2>2, <2>3
<1>4. Cardinality(Newer(since)) = 0
  BY <1>3, FS_EmptySet
<1>5. (IF 0 > Limit THEN Limit ELSE 0) = 0
  BY <1>2
<1>6. EventsSince(since) = [k \in 1..0 |-> buffer[Nth(Newer(since), k)]]
  BY <1>4, <1>5 DEF EventsSince
<1> QED BY <1>6

LEMMA StreamPollStep ==
  ASSUME IInv, NEW s \in Streams, StreamPoll(s)
  PROVE  IInv'
<1>1. PICK old : old = streams[s]
  OBVIOUS
<1>2. PICK new : new = EventsSince(old.last)
  OBVIOUS
<1>3. old \in Stream /\ StreamInv(old) /\ old.at = "sleep" /\ proc \in Live
  BY <1>1, StreamState DEF StreamPoll, StreamMoves
<1>4. CASE new = <<>>
  <2>1. StreamMoves(s, old)
    BY <1>1, <1>2, <1>4 DEF StreamPoll
  <2> QED BY <1>3, <2>1, StreamStep
<1>5. CASE new # <<>>
  <2>1. PICK st : st = [old EXCEPT !.at = "send", !.events = new]
    OBVIOUS
  <2>2. StreamMoves(s, st)
    BY <1>1, <1>2, <1>5, <2>1 DEF StreamPoll
  <2>3. old.last \in Nat /\ old.last < next_seq
    BY <1>2, <1>3, <1>5, StreamFields, NothingNewer
  <2>4. PICK n \in Nat, first \in Nat :
           /\ new = [k \in 1..n |-> Ev(first + k)]
           /\ first = IF next_seq - 1 - Len(buffer) <= old.last THEN old.last ELSE next_seq - 1 - Len(buffer)
           /\ first + n < next_seq
    BY <1>2, <2>3, EventsSinceInOrder
  <2>5. \A k \in 1..n : Ev(first + k) \in Event
    <3> TAKE k \in 1..n
    <3>1. run \in 1..MaxRuns
      BY <1>3, RequestLogAssumption DEF IInv, TypeOK, ProcInv, Running
    <3>2. next_seq \in Nat /\ next_seq <= MaxEvents + 1 /\ MaxEvents \in Nat
      BY RequestLogAssumption DEF IInv, TypeOK
    <3>3. first + k \in 1..MaxEvents
      BY <2>4, <3>2
    <3> QED BY <3>1, <3>3 DEF Ev, Event
  <2>6. new \in [1..n -> Event]
    BY <2>4, <2>5
  <2>7. new \in Seq(Event) /\ Len(new) = n /\ DOMAIN new = 1..n
    BY <2>6, FunctionIsSeq
  <2>8. st \in Stream
    BY <1>3, <2>1, <2>7 DEF Stream
  <2>9. /\ st.at = "send" /\ st.events = new /\ st.last = old.last /\ st.start = old.start
        /\ st.sent = old.sent /\ st.overrun = old.overrun
    BY <1>3, <2>1 DEF Stream
  <2>10. ASSUME ~old.overrun
         PROVE  /\ old.start <= old.last
                /\ old.last + n < next_seq
                /\ next_seq - 1 - Len(buffer) <= old.last + n
                /\ \A i \in 1..n : new[i] = Ev(old.last + i)
                /\ old.sent = [i \in 1..(old.last - old.start) |-> Ev(old.start + i)]
    <3>1. /\ old.start <= old.last /\ old.last + Len(old.events) < next_seq
          /\ next_seq - 1 - Len(buffer) <= old.last + Len(old.events)
          /\ old.sent = [i \in 1..(old.last - old.start) |-> Ev(old.start + i)]
          /\ Len(old.events) = 0
      BY <1>3, <2>10 DEF StreamInv
    <3>2. next_seq - 1 - Len(buffer) <= old.last
      BY <2>3, <3>1
    <3>3. first = old.last
      BY <2>4, <3>2
    <3>4. next_seq \in Nat /\ Len(buffer) \in Nat
      BY StreamState
    <3>5. next_seq - 1 - Len(buffer) <= old.last + n
      BY <2>3, <3>2, <3>4
    <3> QED BY <2>4, <3>1, <3>3, <3>5
  <2>11. StreamInv(st)
    BY <1>3, <1>5, <2>7, <2>9, <2>10 DEF StreamInv
  <2> QED BY <2>2, <2>8, <2>11, StreamStep
<1> QED BY <1>4, <1>5

LEMMA StreamSendStep ==
  ASSUME IInv, NEW s \in Streams, StreamSend(s)
  PROVE  IInv'
<1>1. PICK old : old = streams[s]
  OBVIOUS
<1>2. PICK e : e = Head(old.events)
  OBVIOUS
<1>3. PICK rest : rest = Tail(old.events)
  OBVIOUS
<1>4. PICK to : to = IF rest = <<>> THEN "sleep" ELSE "send"
  OBVIOUS
<1>5. PICK st : st = [old EXCEPT !.last = e.seq, !.sent = Append(@, e), !.events = rest, !.at = to]
  OBVIOUS
<1>6. StreamMoves(s, st) /\ old.at = "send" /\ proc \in Live
  BY <1>1, <1>2, <1>3, <1>4, <1>5 DEF StreamSend, StreamMoves
<1>7. old \in Stream /\ StreamInv(old)
  BY <1>1, StreamState
<1>8. /\ old.events \in Seq(Event) /\ old.events # <<>> /\ old.sent \in Seq(Event)
      /\ Len(old.events) \in Nat /\ DOMAIN old.events = 1..Len(old.events)
      /\ old.last \in Nat /\ old.start \in Nat
  BY <1>6, <1>7, StreamFields DEF StreamInv
<1>9. /\ e \in Event /\ rest \in Seq(Event) /\ Len(rest) = Len(old.events) - 1
      /\ \A i \in 1..Len(rest) : rest[i] = old.events[i + 1]
  BY <1>2, <1>3, <1>8, HeadTailProperties
<1>10. Len(rest) \in Nat /\ DOMAIN rest = 1..Len(rest) /\ e = old.events[1] /\ 1 \in DOMAIN old.events
  BY <1>2, <1>8, <1>9, LenProperties, EmptySeq
<1>11. e.seq \in 0..MaxEvents /\ Append(old.sent, e) \in Seq(Event)
  BY <1>8, <1>9, AppendProperties, RequestLogAssumption DEF Event
<1>12. st \in Stream
  BY <1>4, <1>5, <1>7, <1>9, <1>11 DEF Stream
<1>13. /\ st.at = to /\ st.events = rest /\ st.last = e.seq /\ st.start = old.start
       /\ st.sent = Append(old.sent, e) /\ st.overrun = old.overrun
  BY <1>5, <1>7 DEF Stream
<1>14. ASSUME ~old.overrun
       PROVE  /\ old.start <= e.seq
              /\ e.seq + Len(rest) < next_seq
              /\ next_seq - 1 - Len(buffer) <= e.seq + Len(rest)
              /\ \A i \in DOMAIN rest : rest[i] = Ev(e.seq + i)
              /\ Append(old.sent, e) = [i \in 1..(e.seq - old.start) |-> Ev(old.start + i)]
  <2>1. /\ old.start <= old.last /\ old.last + Len(old.events) < next_seq
        /\ next_seq - 1 - Len(buffer) <= old.last + Len(old.events)
    BY <1>6, <1>7, <1>14 DEF StreamInv
  <2>2. \A i \in DOMAIN old.events : old.events[i] = Ev(old.last + i)
    BY <1>6, <1>7, <1>14 DEF StreamInv
  <2>3. e = Ev(old.last + 1) /\ e.seq = old.last + 1
    BY <1>10, <2>2 DEF Ev
  <2>4. e.seq + Len(rest) = old.last + Len(old.events)
    <3>1. old.last \in Nat /\ Len(old.events) \in Nat
      BY <1>8
    <3>2. e.seq = old.last + 1
      BY <2>3
    <3>3. Len(rest) = Len(old.events) - 1
      BY <1>9
    <3>4. old.last + 1 + (Len(old.events) - 1) = old.last + Len(old.events)
      BY <3>1
    <3> QED BY <3>2, <3>3, <3>4
  <2>5. \A i \in DOMAIN rest : rest[i] = Ev(e.seq + i)
    <3> TAKE i \in DOMAIN rest
    <3>1. rest[i] = old.events[i + 1] /\ i + 1 \in DOMAIN old.events
      BY <1>8, <1>9, <1>10
    <3>2. old.last + (i + 1) = e.seq + i
      <4>1. i \in Int /\ old.last \in Int
        BY <1>8, <1>10
      <4>2. e.seq = old.last + 1
        BY <2>3
      <4> QED BY <4>1, <4>2
    <3> QED BY <2>2, <3>1, <3>2
  <2>6. Append(old.sent, e) = [i \in 1..(e.seq - old.start) |-> Ev(old.start + i)]
    <3>1. PICK m \in Nat : m = old.last - old.start
      BY <1>8, <2>1
    <3>2. e.seq - old.start = m + 1 /\ old.start + (m + 1) = old.last + 1
      BY <1>8, <2>3, <3>1
    <3>3. old.sent = [i \in 1..m |-> Ev(old.start + i)]
      BY <1>6, <1>7, <1>14, <3>1 DEF StreamInv
    <3>4. Len(old.sent) = m
      <4>1. DOMAIN old.sent = 1..m /\ Len(old.sent) \in Nat /\ DOMAIN old.sent = 1..Len(old.sent)
        BY <1>8, <3>3, LenProperties
      <4> QED BY <4>1
    <3>5. Append(old.sent, e) = [i \in 1..(m + 1) |-> IF i = m + 1 THEN e ELSE old.sent[i]]
      <4>1. /\ Append(old.sent, e) \in Seq(Event) /\ Len(Append(old.sent, e)) = m + 1
            /\ \A i \in 1..m : Append(old.sent, e)[i] = old.sent[i]
            /\ Append(old.sent, e)[m + 1] = e
        BY <1>8, <1>9, <3>4, AppendProperties
      <4>2. Append(old.sent, e) = [i \in 1..(m + 1) |-> Append(old.sent, e)[i]]
        BY <4>1, SeqDef, LenProperties
      <4> QED BY <4>1, <4>2
    <3>6. \A i \in 1..(m + 1) : (IF i = m + 1 THEN e ELSE old.sent[i]) = Ev(old.start + i)
      <4> TAKE i \in 1..(m + 1)
      <4>1. CASE i = m + 1
        BY <2>3, <3>2, <4>1
      <4>2. CASE i # m + 1
        <5>1. i \in 1..m
          BY <4>2
        <5> QED BY <3>3, <4>2, <5>1
      <4> QED BY <4>1, <4>2
    <3> QED BY <3>2, <3>5, <3>6
  <2>7. old.start <= e.seq
    BY <1>8, <2>1, <2>3
  <2> QED BY <2>1, <2>4, <2>5, <2>6, <2>7
<1>15. to = "sleep" => rest = <<>>
  BY <1>4
<1>16. to = "send" => rest # <<>>
  BY <1>4
<1>17. to \in {"sleep", "send"}
  BY <1>4
<1>18. StreamInv(st)
  BY <1>6, <1>13, <1>14, <1>15, <1>16, <1>17 DEF StreamInv
<1> QED BY <1>6, <1>12, <1>18, StreamStep

-----------------------------------------------------------------------------
(***************************************************************************)
(* The invariant                                                           *)
(***************************************************************************)

LEMMA InitHolds ==
  ASSUME Init
  PROVE  IInv
<1>1. /\ proc = "closed" /\ run = 0 /\ csv = FALSE /\ next_seq = 1 /\ buffer = <<>>
      /\ pending = <<>> /\ queue = <<>> /\ stop = FALSE /\ writer = "off" /\ batches = <<>>
      /\ good = TRUE /\ file = <<>> /\ streams = [s \in Streams |-> ClosedStream]
  BY DEF Init
<1>2. /\ <<>> \in Seq(Event) /\ Len(<<>>) = 0 /\ DOMAIN <<>> = {} /\ 1 \in 1..(MaxEvents + 1)
      /\ Len(<<>>) <= Capacity /\ Len(<<>>) < BatchSize /\ 0 \in 0..MaxRuns
  BY RequestLogAssumption
<1>3. streams \in [Streams -> Stream]
  BY <1>1, ClosedIsFine
<1>4. TypeOK
  BY <1>1, <1>2, <1>3 DEF TypeOK
<1>5. ProcInv /\ UnsavedInv
  BY <1>1 DEF ProcInv, UnsavedInv, Running, Live
<1>6. FileInv /\ RingInv
  BY <1>1, <1>2 DEF FileInv, FileInSequence, RingInv
<1>7. \A s \in Streams : StreamInv(streams[s])
  BY <1>1, ClosedIsFine
<1> QED BY <1>4, <1>5, <1>6, <1>7 DEF IInv

LEMMA StutterHolds ==
  ASSUME IInv, UNCHANGED vars
  PROVE  IInv'
<1>1. UNCHANGED <<proc, run, csv, next_seq, buffer, pending, queue, stop, writer, batches, good,
                  file, streams>>
  BY DEF vars, logVars
<1>2. TypeOK' /\ ProcInv'
  BY <1>1 DEF IInv, TypeOK, ProcInv
<1>3. UnsavedInv' /\ FileInv' /\ RingInv'
  BY <1>1, UnsavedKept, FileKept, RingKept DEF IInv, logVars
<1>4. \A s \in Streams : StreamInv(streams[s])'
  BY <1>1, StreamKept DEF IInv
<1> QED BY <1>2, <1>3, <1>4 DEF IInv

LEMMA NextHolds ==
  ASSUME IInv, Next
  PROVE  IInv'
<1>1. CASE Start
  BY <1>1, StartStep
<1>2. CASE Crash
  BY <1>2, EndedStep DEF Crash
<1>3. CASE Signal \/ WriterSpurious \/ OutFails
  BY <1>3, QuietSteps
<1>4. CASE Destructor
  <2>1. CASE Destroy
    BY <2>1, DestroyStep
  <2>2. CASE DestroyNotify
    BY <2>2, QuietSteps
  <2>3. CASE DestroyJoin
    BY <2>3, EndedStep DEF DestroyJoin
  <2> QED BY <1>4, <2>1, <2>2, <2>3 DEF Destructor
<1>5. CASE Record
  BY <1>5, RecordStep
<1>6. CASE Writer
  <2>1. CASE WriterOpen \/ Flushed
    BY <2>1, QuietSteps
  <2>2. CASE WriterCheck
    BY <2>2, CheckStep
  <2>3. CASE WriteRow
    BY <2>3, WriteStep
  <2> QED BY <1>6, <2>1, <2>2, <2>3 DEF Writer
<1>7. CASE \E s \in Streams : StreamOpen(s) \/ StreamRuns(s) \/ StreamEnd(s)
  BY <1>7, StreamOpenStep, StreamStartStep, StreamPollStep, StreamSendStep, StreamEndStep
     DEF StreamRuns
<1> QED BY <1>1, <1>2, <1>3, <1>4, <1>5, <1>6, <1>7 DEF Next

\* What record() was given is in the file, with the writer, queued or pending,
\* exactly once and in order; the ring holds the newest events without a gap; and
\* a stream that is not overrun goes on where it stopped.
THEOREM LogInvariant == Spec => []IInv
<1>1. Init => IInv
  BY InitHolds
<1>2. IInv /\ [Next]_vars => IInv'
  BY NextHolds, StutterHolds
<1> QED BY <1>1, <1>2, PTL DEF Spec

-----------------------------------------------------------------------------
(***************************************************************************)
(* Rows that were cut short                                                *)
(***************************************************************************)

LEMMA CutKept ==
  ASSUME CutInv, UNCHANGED <<run, csv, file, cut, spoilt>>, good' => good
  PROVE  CutInv'
  BY DEF CutInv, OnlyFirstRowsSpoilt

LEMMA CutAtStart ==
  ASSUME IInv, CutInv, Start
  PROVE  CutInv'
<1>1. /\ run' = run + 1 /\ UNCHANGED <<file, cut, spoilt>>
      /\ run \in Nat /\ file \in Seq(Event)
      /\ \A i \in DOMAIN file : file[i].run <= run
  BY RequestLogAssumption DEF Start, IInv, TypeOK, FileInv
<1>2. \A i \in DOMAIN file : file[i].run \in Nat
  BY <1>1, ElementsOf, EventFields
<1>3. \A i \in DOMAIN file : file[i].run < run'
  BY <1>1, <1>2
<1> QED BY <1>1, <1>3 DEF CutInv, OnlyFirstRowsSpoilt

\* Where the output stops, nothing more is written by the run.
LEMMA CutAtStop ==
  ASSUME CutInv, UNCHANGED <<run, file, spoilt>>, OutputStops, ~csv' \/ ~good'
  PROVE  CutInv'
<1>1. cut' \in BOOLEAN
  BY DEF OutputStops, CutInv, OnlyFirstRowsSpoilt
<1> QED BY <1>1 DEF CutInv, OnlyFirstRowsSpoilt

\* The row that spoils itself is the first of its run: the file's order leaves no
\* other for it.
LEMMA CutAtWrite ==
  ASSUME IInv, IInv', CutInv, WriteRow
  PROVE  CutInv'
<1>1. CASE ~good
  <2>1. UNCHANGED <<run, csv, good, file, spoilt>> /\ cut' = cut
    BY <1>1 DEF WriteRow, CutInv, OnlyFirstRowsSpoilt
  <2> QED BY <2>1, CutKept
<1>2. CASE good
  <2> DEFINE n == Len(file)
             e == Head(batches)
  <2>1. /\ batches \in Seq(Event) /\ batches # <<>> /\ file \in Seq(Event)
        /\ file' = Append(file, e) /\ cut' = FALSE
        /\ spoilt' = IF cut THEN spoilt \cup {n + 1} ELSE spoilt
        /\ writer = "writing" /\ run' = run
    BY <1>2 DEF WriteRow, IInv, TypeOK
  <2>2. n \in Nat /\ DOMAIN file = 1..n /\ e \in Event
    BY <2>1, LenProperties, HeadTailProperties
  <2>3. /\ DOMAIN file' = 1..(n + 1) /\ file'[n + 1] = e
        /\ \A i \in 1..n : file'[i] = file[i]
    BY <2>1, <2>2, AppendProperties
  <2>4. spoilt \subseteq {i \in DOMAIN file' : file'[i].seq = 1}
    BY <2>2, <2>3 DEF CutInv, OnlyFirstRowsSpoilt
  <2>5. CASE ~cut
    BY <2>1, <2>4, <2>5 DEF CutInv, OnlyFirstRowsSpoilt
  <2>6. CASE cut
    <3>1. csv
      BY <2>1 DEF IInv, ProcInv
    <3>2. \A i \in 1..n : file[i].run < run
      BY <1>2, <2>2, <2>6, <3>1 DEF CutInv
    <3>3. e.run = run
      BY <2>1, <3>1 DEF IInv, UnsavedInv, Ev
    <3>4. run \in Nat /\ \A i \in 1..n : file[i].run \in Nat
      BY <2>1, <2>2, ElementsOf, EventFields, RequestLogAssumption DEF IInv, TypeOK
    <3>5. \/ file'[n + 1].seq = 1
          \/ n + 1 > 1 /\ file'[n + 1 - 1].run = file'[n + 1].run
      BY <2>2, <2>3 DEF IInv, FileInv, FileInSequence
    <3>6. n + 1 - 1 = n /\ (n + 1 > 1 => n \in 1..n)
      BY <2>2
    <3>7. e.seq = 1
      BY <2>3, <3>2, <3>3, <3>4, <3>5, <3>6
    <3>8. n + 1 \in {i \in DOMAIN file' : file'[i].seq = 1}
      BY <2>2, <2>3, <3>7
    <3> QED BY <2>1, <2>4, <2>6, <3>8 DEF CutInv, OnlyFirstRowsSpoilt
  <2> QED BY <2>5, <2>6, <2>1 DEF CutInv, OnlyFirstRowsSpoilt
<1> QED BY <1>1, <1>2 DEF IInv, TypeOK

LEMMA CutHolds ==
  ASSUME IInv, IInv', CutInv, [Next]_vars
  PROVE  CutInv'
<1>1. CASE Start
  BY <1>1, CutAtStart
<1>2. CASE Crash
  <2>1. UNCHANGED <<run, file, spoilt>> /\ OutputStops /\ ~csv'
    BY <1>2 DEF Crash, Ended
  <2> QED BY <2>1, CutAtStop
<1>3. CASE OutFails
  <2>1. UNCHANGED <<run, file, spoilt>> /\ OutputStops /\ ~good'
    BY <1>3 DEF OutFails
  <2> QED BY <2>1, CutAtStop
<1>4. CASE DestroyJoin
  <2>1. UNCHANGED <<run, file, cut, spoilt>> /\ ~csv'
    BY <1>4 DEF DestroyJoin, Ended
  <2> QED BY <2>1 DEF CutInv, OnlyFirstRowsSpoilt
<1>5. CASE WriteRow
  BY <1>5, CutAtWrite
<1>6. CASE Signal \/ Destroy \/ DestroyNotify \/ Record \/ WriterOpen \/ WriterCheck
           \/ Flushed \/ WriterSpurious
  <2>1. UNCHANGED <<run, csv, file, cut, spoilt, good>>
    BY <1>6 DEF Signal, Destroy, DestroyNotify, Record, WriterOpen, WriterCheck, Flushed,
                WriterSpurious
  <2> QED BY <2>1, CutKept
<1>7. CASE \E s \in Streams : StreamOpen(s) \/ StreamRuns(s) \/ StreamEnd(s)
  <2>1. UNCHANGED <<run, csv, file, cut, spoilt, good>>
    BY <1>7 DEF StreamOpen, StreamRuns, StreamStart, StreamPoll, StreamSend, StreamEnd, StreamMoves
  <2> QED BY <2>1, CutKept
<1>8. CASE UNCHANGED vars
  <2>1. UNCHANGED <<run, csv, file, cut, spoilt, good>>
    BY <1>8 DEF vars
  <2> QED BY <2>1, CutKept
<1> QED BY <1>1, <1>2, <1>3, <1>4, <1>5, <1>6, <1>7, <1>8 DEF Next, Writer, Destructor

\* A part of a row, which a full disk or a crash left at the end of the file, is
\* followed by none of its run, so that it costs the next run's first row at most.
THEOREM CutRowsSpoilOne == Spec => []CutInv
<1>1. Init => CutInv
  BY DEF Init, CutInv, OnlyFirstRowsSpoilt
<1>2. IInv /\ IInv' /\ CutInv /\ [Next]_vars => CutInv'
  BY CutHolds
<1> QED BY <1>1, <1>2, LogInvariant, PTL DEF Spec

LEMMA ReadersSeeSequence ==
  ASSUME IInv, CutInv
  PROVE  InSequence
<1>1. TypeOK /\ FileInSequence
  BY DEF IInv, FileInv
<1>2. ASSUME NEW s \in Streams, ~streams[s].overrun
      PROVE  streams[s].sent = [i \in 1..(streams[s].last - streams[s].start) |->
                                  [run |-> run, seq |-> streams[s].start + i]]
  <2>1. PICK st : st = streams[s]
    OBVIOUS
  <2>2. st \in Stream /\ StreamInv(st) /\ ~st.overrun
    BY <1>2, <2>1, StreamState
  <2>3. CASE st.at \in {"sleep", "send"}
    BY <2>1, <2>2, <2>3 DEF StreamInv, Ev
  <2>4. CASE st.at \in {"closed", "header"}
    <3>1. st = [ClosedStream EXCEPT !.at = st.at]
      BY <2>2, <2>4 DEF StreamInv
    <3>2. st.sent = <<>> /\ st.last = 0 /\ st.start = 0
      BY <3>1 DEF ClosedStream
    <3>3. <<>> = [i \in 1..(0 - 0) |-> [run |-> run, seq |-> 0 + i]]
      OBVIOUS
    <3> QED BY <2>1, <3>2, <3>3
  <2> QED BY <2>2, <2>3, <2>4, StreamFields
<1> QED BY <1>1, <1>2 DEF InSequence, StreamMissesNothing, CutInv

\* Readers of the CSV file see, for each run, the events from the first one on, in
\* order, once and without a gap, across crashes, restarts and failing disks, but
\* for first ones that were appended to a part of a row; and
\* readers of an event stream that the ring did not overrun see every event since
\* they began (record, writer_loop, ~RequestLog, run_sse_session, events_since).
THEOREM ReadInSequence == Spec => []InSequence
<1>1. IInv /\ CutInv => InSequence
  BY ReadersSeeSequence
<1> QED BY <1>1, LogInvariant, CutRowsSpoilOne, PTL

-----------------------------------------------------------------------------
(***************************************************************************)
(* The log implements the journal                                          *)
(***************************************************************************)
Unsaved == batches \o queue \o pending
Sound == good /\ writer # "failed"

LEMMA LogSeqs ==
  ASSUME IInv
  PROVE  /\ batches \in Seq(Event) /\ queue \in Seq(Event) /\ pending \in Seq(Event)
         /\ batches \o queue \in Seq(Event) /\ Unsaved \in Seq(Event)
         /\ batches \o queue \o pending = batches \o (queue \o pending)
         /\ queue \o pending \in Seq(Event)
<1>1. batches \in Seq(Event) /\ queue \in Seq(Event) /\ pending \in Seq(Event)
  BY DEF IInv, TypeOK
<1>2. batches \o queue \in Seq(Event) /\ queue \o pending \in Seq(Event)
  BY <1>1, ConcatProperties
<1>3. Unsaved \in Seq(Event)
  BY <1>1, <1>2, ConcatProperties DEF Unsaved
<1>4. batches \o queue \o pending = batches \o (queue \o pending)
  BY <1>1, ConcatAssociative
<1> QED BY <1>1, <1>2, <1>3, <1>4

LEMMA NoneUnsaved ==
  ASSUME batches = <<>>, queue = <<>>, pending = <<>>
  PROVE  Unsaved = <<>>
<1>1. <<>> \o <<>> = <<>>
  OBVIOUS
<1> QED BY <1>1 DEF Unsaved

\* A step that the journal does not see.
LEMMA Unseen ==
  ASSUME UNCHANGED <<batches, queue, pending, file>>, PhaseOf' = PhaseOf, Sound' = Sound
  PROVE  UNCHANGED J!vars
<1>1. Unsaved' = Unsaved
  BY DEF Unsaved
<1> QED BY <1>1 DEF Unsaved, Sound, J!vars

LEMMA StartIsStart ==
  ASSUME IInv, Start
  PROVE  J!Start
<1>1. /\ proc \in {"closed", "crashed"} /\ proc \notin Running /\ proc' = "up"
      /\ writer' \in {"open", "off"} /\ good' = TRUE
  BY DEF Start, Running, Live
<1>2. ~csv /\ good /\ writer = "off"
  BY <1>1 DEF IInv, ProcInv
<1>3. batches = <<>> /\ queue = <<>> /\ pending = <<>>
  BY <1>2 DEF IInv, ProcInv
<1>4. batches' = <<>> /\ queue' = <<>> /\ pending' = <<>> /\ file' = file
  BY DEF Start
<1>5. Unsaved' = Unsaved
  BY <1>3, <1>4 DEF Unsaved
<1>6. PhaseOf # "open" /\ PhaseOf' = "open"
  BY <1>1 DEF PhaseOf, Running, Live
<1>7. Sound /\ Sound'
  BY <1>1, <1>2 DEF Sound
<1> QED BY <1>4, <1>5, <1>6, <1>7 DEF J!Start, Sound, Unsaved

LEMMA EndedShows ==
  ASSUME NEW how, Ended(how), how \in {"closed", "crashed"}
  PROVE  PhaseOf' = how /\ Unsaved' = <<>> /\ Sound' /\ file' = file
<1>1. /\ proc' = how /\ batches' = <<>> /\ queue' = <<>> /\ pending' = <<>> /\ good' = TRUE
      /\ writer' = "off" /\ file' = file
  BY DEF Ended
<1>2. Unsaved' = <<>>
  <2>1. <<>> \o <<>> = <<>>
    OBVIOUS
  <2> QED BY <1>1, <2>1 DEF Unsaved
<1> QED BY <1>1, <1>2 DEF PhaseOf, Sound, Running, Live

LEMMA CrashIsCrash ==
  ASSUME Crash
  PROVE  J!Crash
<1>1. PhaseOf = "open"
  BY DEF Crash, PhaseOf
<1>2. PhaseOf' = "crashed" /\ Unsaved' = <<>> /\ Sound' /\ file' = file
  BY EndedShows DEF Crash
<1> QED BY <1>1, <1>2 DEF J!Crash, Sound, Unsaved

\* The destructor has queued the pending batch before the writer, which leaves only
\* when the queue is empty, can be joined.
LEMMA JoinIsClose ==
  ASSUME IInv, DestroyJoin
  PROVE  J!Close
<1>1. proc = "joining" /\ writer \in {"off", "failed", "done"} /\ Ended("closed")
  BY DEF DestroyJoin
<1>2. PhaseOf' = "closed" /\ Unsaved' = <<>> /\ Sound' /\ file' = file
  BY <1>1, EndedShows
<1>3. PhaseOf = "open"
  BY <1>1 DEF PhaseOf, Running
<1>4. Sound => batches = <<>> /\ queue = <<>> /\ pending = <<>>
  BY <1>1 DEF IInv, ProcInv, Sound
<1>5. Sound => Unsaved = <<>>
  BY <1>4, NoneUnsaved
<1> QED BY <1>2, <1>3, <1>5 DEF J!Close, Sound, Unsaved

LEMMA DestroyIsUnseen ==
  ASSUME IInv, Destroy
  PROVE  UNCHANGED J!vars
<1>1. /\ pending' = <<>> /\ queue' = queue \o pending /\ batches' = batches /\ file' = file
      /\ good' = good /\ writer' = writer /\ proc \in Running /\ proc' \in Running
  BY DEF Destroy, Running, Live
<1>2. batches \o (queue \o pending) \in Seq(Event)
  BY LogSeqs, ConcatProperties
<1>3. Unsaved' = (batches \o (queue \o pending)) \o <<>>
  BY <1>1 DEF Unsaved
<1>4. (batches \o (queue \o pending)) \o <<>> = batches \o (queue \o pending)
  BY <1>2, ConcatEmptySeq
<1>5. Unsaved' = Unsaved
  BY <1>3, <1>4, LogSeqs DEF Unsaved
<1>6. PhaseOf' = PhaseOf /\ Sound' = Sound
  BY <1>1 DEF PhaseOf, Sound
<1> QED BY <1>1, <1>5, <1>6 DEF J!vars, Unsaved, Sound

LEMMA RecordIsRecord ==
  ASSUME IInv, Record
  PROVE  J!Record \/ UNCHANGED J!vars
<1>1. PICK e : e = [run |-> run, seq |-> next_seq]
  OBVIOUS
<1>2. e \in Event
  BY <1>1, RequestLogAssumption DEF Record, IInv, TypeOK, ProcInv, Live, Running, Event
<1>3. /\ proc \in Running /\ proc' = proc /\ batches' = batches /\ good' = good /\ file' = file
  BY DEF Record, Running
<1>4. (writer' = "failed") = (writer = "failed")
  BY DEF Record, Notified
<1>5. PhaseOf = "open" /\ PhaseOf' = "open" /\ Sound' = Sound
  BY <1>3, <1>4 DEF PhaseOf, Sound
<1>6. CASE ~csv
  <2>1. pending' = pending /\ queue' = queue
    BY <1>6 DEF Record, IInv, ProcInv
  <2> QED BY <1>3, <1>5, <2>1, Unseen
<1>7. CASE csv /\ ~(Len(Append(pending, e)) >= BatchSize)
  <2>1. queue' = queue /\ pending' = Append(pending, e)
    BY <1>1, <1>7 DEF Record
  <2>2. Unsaved' = (batches \o queue) \o Append(pending, e)
    BY <1>3, <2>1 DEF Unsaved
  <2>3. (batches \o queue) \o Append(pending, e) = Append((batches \o queue) \o pending, e)
    BY <1>2, LogSeqs, AppendToConcat
  <2>4. Unsaved' = Append(Unsaved, e)
    BY <2>2, <2>3 DEF Unsaved
  <2> QED BY <1>2, <1>3, <1>5, <2>4 DEF J!Record, Unsaved, Sound
<1>8. CASE csv /\ Len(Append(pending, e)) >= BatchSize
  <2>1. queue' = queue \o Append(pending, e) /\ pending' = <<>>
    BY <1>1, <1>8 DEF Record
  <2>2. Append(pending, e) \in Seq(Event)
    BY <1>2, LogSeqs, AppendProperties
  <2>3. queue \o Append(pending, e) = Append(queue \o pending, e)
    BY <1>2, LogSeqs, AppendToConcat
  <2>4. batches \o Append(queue \o pending, e) = Append(batches \o (queue \o pending), e)
    BY <1>2, LogSeqs, AppendToConcat
  <2>5. batches \o (queue \o Append(pending, e)) \in Seq(Event)
    BY <2>2, LogSeqs, ConcatProperties
  <2>6. (batches \o (queue \o Append(pending, e))) \o <<>> = batches \o (queue \o Append(pending, e))
    BY <2>5, ConcatEmptySeq
  <2>7. Unsaved' = (batches \o (queue \o Append(pending, e))) \o <<>>
    BY <1>3, <2>1 DEF Unsaved
  <2>8. Unsaved' = Append(Unsaved, e)
    BY <2>3, <2>4, <2>6, <2>7, LogSeqs DEF Unsaved
  <2> QED BY <1>2, <1>3, <1>5, <2>8 DEF J!Record, Unsaved, Sound
<1> QED BY <1>6, <1>7, <1>8

LEMMA CheckIsUnseen ==
  ASSUME IInv, WriterCheck
  PROVE  UNCHANGED J!vars
<1>1. /\ writer = "check" /\ proc' = proc /\ good' = good /\ file' = file /\ pending' = pending
      /\ writer' \in {"done", "writing", "waiting"} /\ batches = <<>>
  BY DEF WriterCheck, IInv, ProcInv
<1>2. PhaseOf' = PhaseOf /\ Sound' = Sound
  BY <1>1 DEF PhaseOf, Sound
<1>3. CASE UNCHANGED <<queue, batches>>
  BY <1>1, <1>2, <1>3, Unseen
<1>4. CASE batches' = queue /\ queue' = <<>>
  <2>1. queue \o <<>> = queue /\ <<>> \o queue = queue
    BY LogSeqs, ConcatEmptySeq
  <2>2. Unsaved' = (queue \o <<>>) \o pending
    BY <1>1, <1>4 DEF Unsaved
  <2>3. Unsaved = (<<>> \o queue) \o pending
    BY <1>1 DEF Unsaved
  <2>4. Unsaved' = Unsaved
    BY <2>1, <2>2, <2>3
  <2> QED BY <1>1, <1>2, <2>4 DEF J!vars, Unsaved, Sound
<1> QED BY <1>3, <1>4 DEF WriterCheck

LEMMA WriteIsSave ==
  ASSUME IInv, WriteRow
  PROVE  J!Save
<1>1. /\ proc \in Running /\ proc' = proc /\ writer = "writing" /\ batches # <<>> /\ good' = good
      /\ writer' = writer /\ batches' = Tail(batches) /\ queue' = queue /\ pending' = pending
      /\ file' = IF good THEN Append(file, Head(batches)) ELSE file
  BY DEF WriteRow, logVars
<1>2. /\ batches \o queue # <<>> /\ Head(batches \o queue) = Head(batches)
      /\ Tail(batches \o queue) = Tail(batches) \o queue
  BY <1>1, LogSeqs, TailOfConcat
<1>3. /\ Unsaved # <<>> /\ Head(Unsaved) = Head(batches \o queue)
      /\ Tail(Unsaved) = Tail(batches \o queue) \o pending
  BY <1>2, LogSeqs, TailOfConcat DEF Unsaved
<1>4. Unsaved' = Tail(Unsaved) /\ Head(Unsaved) = Head(batches)
  BY <1>1, <1>2, <1>3 DEF Unsaved
<1>5. PhaseOf = "open" /\ PhaseOf' = PhaseOf /\ Sound' = Sound /\ Sound = good
  BY <1>1 DEF PhaseOf, Sound, IInv, TypeOK
<1> QED BY <1>1, <1>3, <1>4, <1>5 DEF J!Save, Unsaved, Sound

LEMMA OutputFails ==
  ASSUME WriterOpen \/ OutFails
  PROVE  J!Fail \/ UNCHANGED J!vars
<1>1. /\ proc \in Running /\ proc' = proc /\ UNCHANGED <<batches, queue, pending, file>>
  BY DEF WriterOpen, OutFails, logVars
<1>2. PhaseOf = "open" /\ PhaseOf' = PhaseOf
  BY <1>1 DEF PhaseOf
<1>3. ~Sound' \/ Sound' = Sound
  BY DEF WriterOpen, OutFails, Sound
<1>4. CASE ~Sound'
  <2>1. Unsaved' = Unsaved
    BY <1>1 DEF Unsaved
  <2> QED BY <1>1, <1>2, <1>4, <2>1 DEF J!Fail, Unsaved, Sound
<1>5. CASE Sound' = Sound
  BY <1>1, <1>2, <1>5, Unseen
<1> QED BY <1>3, <1>4, <1>5

LEMMA OthersAreUnseen ==
  ASSUME \/ Signal \/ DestroyNotify \/ WriterSpurious \/ Flushed
         \/ \E s \in Streams : StreamOpen(s) \/ StreamRuns(s) \/ StreamEnd(s)
         \/ UNCHANGED vars
  PROVE  UNCHANGED J!vars
<1>1. CASE Signal \/ DestroyNotify \/ WriterSpurious \/ Flushed
  <2>1. /\ proc \in Running /\ proc' \in Running /\ good' = good
        /\ UNCHANGED <<batches, queue, pending, file>>
    BY <1>1 DEF Signal, DestroyNotify, WriterSpurious, Flushed, logVars, Running, Live
  <2>2. (writer' = "failed") = (writer = "failed")
    BY <1>1 DEF Signal, DestroyNotify, WriterSpurious, Flushed, Notified
  <2>3. PhaseOf' = PhaseOf /\ Sound' = Sound
    BY <2>1, <2>2 DEF PhaseOf, Sound
  <2> QED BY <2>1, <2>3, Unseen
<1>2. CASE \E s \in Streams : StreamOpen(s) \/ StreamRuns(s) \/ StreamEnd(s)
  <2>1. UNCHANGED <<proc, logVars, writer, batches, good, file>>
    BY <1>2 DEF StreamOpen, StreamRuns, StreamStart, StreamPoll, StreamSend, StreamEnd, StreamMoves
  <2>2. PhaseOf' = PhaseOf /\ Sound' = Sound
    BY <2>1 DEF PhaseOf, Sound
  <2> QED BY <2>1, <2>2, Unseen DEF logVars
<1>3. CASE UNCHANGED vars
  <2>1. PhaseOf' = PhaseOf /\ Sound' = Sound
    BY <1>3 DEF PhaseOf, Sound, vars
  <2> QED BY <1>3, <2>1, Unseen DEF vars, logVars
<1> QED BY <1>1, <1>2, <1>3

\* The log implements the journal: an event that record() took is in the file or on
\* its way, in order, and an orderly shutdown leaves none behind unless the output
\* failed (~RequestLog queues the pending batch and joins a writer that leaves only
\* when its queue is empty).
THEOREM LogRefinement == Spec => ImplementsJournal
<1>1. Init => J!Init
  <2> SUFFICES ASSUME Init PROVE J!Init
    OBVIOUS
  <2>1. Unsaved = <<>>
    BY NoneUnsaved DEF Init
  <2>2. PhaseOf = "closed" /\ Sound /\ file = <<>>
    BY DEF Init, PhaseOf, Sound, Running, Live
  <2> QED BY <2>1, <2>2 DEF J!Init, Unsaved, Sound
<1>2. IInv /\ [Next]_vars => [J!Next]_(J!vars)
  <2> SUFFICES ASSUME IInv, [Next]_vars PROVE J!Next \/ UNCHANGED J!vars
    OBVIOUS
  <2>1. CASE Start
    BY <2>1, StartIsStart DEF J!Next
  <2>2. CASE Crash
    BY <2>2, CrashIsCrash DEF J!Next
  <2>3. CASE Destroy
    BY <2>3, DestroyIsUnseen
  <2>4. CASE DestroyJoin
    BY <2>4, JoinIsClose DEF J!Next
  <2>5. CASE Record
    BY <2>5, RecordIsRecord DEF J!Next
  <2>6. CASE WriterCheck
    BY <2>6, CheckIsUnseen
  <2>7. CASE WriteRow
    BY <2>7, WriteIsSave DEF J!Next
  <2>8. CASE WriterOpen \/ OutFails
    BY <2>8, OutputFails DEF J!Next
  <2>9. CASE \/ Signal \/ DestroyNotify \/ WriterSpurious \/ Flushed
             \/ \E s \in Streams : StreamOpen(s) \/ StreamRuns(s) \/ StreamEnd(s)
             \/ UNCHANGED vars
    BY <2>9, OthersAreUnseen
  <2> QED BY <2>1, <2>2, <2>3, <2>4, <2>5, <2>6, <2>7, <2>8, <2>9 DEF Next, Destructor, Writer
<1> QED BY <1>1, <1>2, LogInvariant, PTL DEF Spec, ImplementsJournal
=============================================================================
