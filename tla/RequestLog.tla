------------------------------ MODULE RequestLog -----------------------------
(***************************************************************************)
(* history/request_log.cpp and history/sse_stream.hpp: the ring of recent  *)
(* events that record() fills, the CSV file its writer thread appends      *)
(* batches to, and the event streams that poll the ring.  The ring of      *)
(* history/globe_event_log.cpp is the same code without the file (csv off) *)
(* and its stream is the same template.  A process starts, is stopped by a *)
(* signal or crashes, and starts again over the same file, whose last row  *)
(* may have been cut short.  The header line is left out.                  *)
(***************************************************************************)
EXTENDS Integers, Sequences, FiniteSets

CONSTANTS
  Streams,     \* event streams
  Capacity,    \* capacity_, 5000 (or globe.history_size)
  BatchSize,   \* kCsvBatchSize, 100
  Limit,       \* default limit of events_since, 500
  MaxEvents,   \* bound on the events of a run
  MaxRuns      \* bound on starts of the process

ASSUME RequestLogAssumption ==
  /\ Capacity \in Nat /\ BatchSize \in Nat \ {0} /\ Limit \in Nat \ {0}
  /\ MaxEvents \in Nat /\ MaxRuns \in Nat

VARIABLES
  proc,     \* where main() is, or how the last run ended
  run,      \* number of the current run
  csv,      \* csv_path_ is not empty
  next_seq, \* next_seq_
  buffer,   \* buffer_
  pending,  \* pending_batch_
  queue,    \* write_queue_, its batches joined
  stop,     \* stop_
  writer,   \* where writer_loop is
  batches,  \* rows of the writer's local batches still to be written
  good,     \* the writer's ofstream has not failed
  file,     \* lines of the CSV file, by the events whose rows end them; it and
            \* the next two are the only things that outlive the process
  cut,      \* the file ends in a part of a row
  spoilt,   \* the lines, by number, that begin with such a part: no row is there
  streams   \* one run_sse_session each

logVars == <<next_seq, buffer, pending, queue>>
vars == <<proc, run, csv, logVars, stop, writer, batches, good, file, cut, spoilt, streams>>

Event == [run : 1..MaxRuns, seq : 1..MaxEvents]

\* A stream: `events` is what its last poll returned and it has not written,
\* `last` is last_seq.  `start`, `sent` and `overrun` are for the properties:
\* last_seq when it began, the frames written, and whether the ring dropped
\* an event before a poll of the stream could return it.
Stream == [at : {"closed", "header", "sleep", "send"}, last : 0..MaxEvents,
           events : Seq(Event), start : 0..MaxEvents, sent : Seq(Event),
           overrun : BOOLEAN]

ClosedStream == [at |-> "closed", last |-> 0, events |-> <<>>, start |-> 0,
                 sent |-> <<>>, overrun |-> FALSE]

Live == {"up", "draining"}
Running == Live \cup {"closing", "joining"}

TypeOK ==
  /\ proc \in Running \cup {"closed", "crashed"}
  /\ run \in 0..MaxRuns /\ csv \in BOOLEAN
  /\ next_seq \in 1..(MaxEvents + 1)
  /\ buffer \in Seq(Event) /\ Len(buffer) <= Capacity
  /\ pending \in Seq(Event) /\ Len(pending) < BatchSize
  /\ queue \in Seq(Event) /\ batches \in Seq(Event) /\ file \in Seq(Event)
  /\ stop \in BOOLEAN /\ good \in BOOLEAN
  /\ writer \in {"off", "open", "check", "waiting", "writing", "failed", "done"}
  /\ streams \in [Streams -> Stream]

Init ==
  /\ proc = "closed" /\ run = 0 /\ csv = FALSE
  /\ next_seq = 1 /\ buffer = <<>> /\ pending = <<>> /\ queue = <<>>
  /\ stop = FALSE /\ writer = "off" /\ batches = <<>> /\ good = TRUE
  /\ file = <<>> /\ cut = FALSE /\ spoilt = {}
  /\ streams = [s \in Streams |-> ClosedStream]

-----------------------------------------------------------------------------
\* The process.  main() builds the log, with a writer if the file is enabled.
Start ==
  /\ proc \in {"closed", "crashed"} /\ run < MaxRuns
  /\ proc' = "up" /\ run' = run + 1
  /\ csv' \in BOOLEAN
  /\ next_seq' = 1 /\ buffer' = <<>> /\ pending' = <<>> /\ queue' = <<>>
  /\ stop' = FALSE /\ batches' = <<>> /\ good' = TRUE
  /\ writer' = IF csv' THEN "open" ELSE "off"
  /\ UNCHANGED <<file, cut, spoilt, streams>>

\* The process is gone: nothing is left but the file.
Ended(how) ==
  /\ proc' = how
  /\ next_seq' = 1 /\ buffer' = <<>> /\ pending' = <<>> /\ queue' = <<>>
  /\ stop' = FALSE /\ batches' = <<>> /\ good' = TRUE /\ writer' = "off"
  /\ csv' = FALSE
  /\ streams' = [s \in Streams |-> ClosedStream]
  /\ UNCHANGED <<run, file, spoilt>>

\* The output stops while batches are being written: between two rows, or in the
\* middle of one.  The stream's buffer fills, and is written, where it likes.
OutputStops ==
  \/ UNCHANGED cut
  \/ writer = "writing" /\ good /\ batches # <<>> /\ cut' = TRUE

\* A crash, or fatal_on_error's std::exit(1), which runs no destructor of main.
Crash == proc \in Running /\ Ended("crashed") /\ OutputStops

\* SIGINT, SIGTERM: the io_context stops; handlers that already run finish.
Signal ==
  /\ proc = "up" /\ proc' = "draining"
  /\ UNCHANGED <<run, csv, logVars, stop, writer, batches, good, file, cut, spoilt, streams>>

\* The workers are joined and the coroutines destroyed; then ~RequestLog:
\* the critical section, the notification after it, and the join.
Destroy ==
  /\ proc = "draining"
  /\ proc' = IF csv THEN "closing" ELSE "joining"
  /\ pending' = <<>> /\ queue' = queue \o pending
  /\ stop' = csv
  /\ streams' = [s \in Streams |-> ClosedStream]
  /\ UNCHANGED <<run, csv, next_seq, buffer, writer, batches, good, file, cut, spoilt>>

\* notify_one wakes the writer if it sleeps in cv_.wait.
Notified == IF writer = "waiting" THEN "check" ELSE writer

\* mutant: stop_ is set, but the writer is not woken
DestroyNotifyMutant ==
  /\ proc = "closing" /\ proc' = "joining"
  /\ UNCHANGED <<run, csv, logVars, stop, writer, batches, good, file, cut, spoilt, streams>>

DestroyNotify ==
  /\ proc = "closing" /\ proc' = "joining"
  /\ writer' = Notified
  /\ UNCHANGED <<run, csv, logVars, stop, batches, good, file, cut, spoilt, streams>>

DestroyJoin ==
  /\ proc = "joining" /\ writer \in {"off", "failed", "done"}
  /\ Ended("closed") /\ UNCHANGED cut

-----------------------------------------------------------------------------
Past(s, e) == /\ streams[s].at \in {"sleep", "send"}
              /\ e.seq > streams[s].last
              /\ \A i \in DOMAIN streams[s].events : streams[s].events[i] # e

\* The ring after pushing e: the oldest entries leave while it is too long.
Pushed(e) == LET all == Append(buffer, e)
                 over == IF Len(all) > Capacity THEN Len(all) - Capacity ELSE 0
             IN  SubSeq(all, over + 1, Len(all))

\* record: one critical section.
Record ==
  /\ proc \in Live /\ next_seq <= MaxEvents
  /\ LET e == [run |-> run, seq |-> next_seq]
         batch == Append(pending, e)
         full == csv /\ Len(batch) >= BatchSize
         out == Len(buffer) = Capacity
     IN  /\ next_seq' = next_seq + 1
         /\ queue' = IF full THEN queue \o batch ELSE queue
         /\ pending' = IF full \/ ~csv THEN <<>> ELSE batch
         /\ writer' = IF full THEN Notified ELSE writer
         /\ buffer' = Pushed(e)
         /\ streams' = [s \in Streams |-> [streams[s] EXCEPT !.overrun =
              @ \/ (out /\ Past(s, IF buffer = <<>> THEN e ELSE Head(buffer)))]]
  /\ UNCHANGED <<proc, run, csv, stop, batches, good, file, cut, spoilt>>

latest_seq == next_seq - 1

Newer(since) == {i \in DOMAIN buffer : buffer[i].seq > since}

Nth(S, k) == CHOOSE i \in S : Cardinality({j \in S : j <= i}) = k

\* mutant: the newest `limit` events instead of the oldest ones after since
EventsSinceMutant(since) ==
  LET n == Cardinality(Newer(since))
      skipped == IF n > Limit THEN n - Limit ELSE 0
  IN  [k \in 1..(n - skipped) |-> buffer[Nth(Newer(since), skipped + k)]]

\* events_since: the oldest events after `since` the ring holds, at most Limit.
EventsSince(since) ==
  LET n == Cardinality(Newer(since))
  IN  [k \in 1..(IF n > Limit THEN Limit ELSE n) |-> buffer[Nth(Newer(since), k)]]

-----------------------------------------------------------------------------
\* writer_loop.
WriterOpen ==
  /\ proc \in Running /\ writer = "open"
  /\ writer' \in {"check", "failed"}
  /\ UNCHANGED <<proc, run, csv, logVars, stop, batches, good, file, cut, spoilt, streams>>

\* mutant: leaves as soon as stop_ is set, whatever is queued
WriterCheckMutant ==
  /\ proc \in Running /\ writer = "check"
  /\ \/ /\ stop /\ writer' = "done" /\ UNCHANGED <<queue, batches>>
     \/ /\ ~stop /\ queue # <<>>
        /\ writer' = "writing" /\ batches' = queue /\ queue' = <<>>
     \/ /\ ~stop /\ queue = <<>>
        /\ writer' = "waiting" /\ UNCHANGED <<queue, batches>>
  /\ UNCHANGED <<proc, run, csv, next_seq, buffer, pending, stop, good, file, cut, spoilt, streams>>

\* The predicate of cv_.wait and, when it holds, the rest of the critical
\* section: leave, or take the whole queue.
WriterCheck ==
  /\ proc \in Running /\ writer = "check"
  /\ \/ /\ queue = <<>> /\ stop
        /\ writer' = "done" /\ UNCHANGED <<queue, batches>>
     \/ /\ queue # <<>>
        /\ writer' = "writing" /\ batches' = queue /\ queue' = <<>>
     \/ /\ queue = <<>> /\ ~stop
        /\ writer' = "waiting" /\ UNCHANGED <<queue, batches>>
  /\ UNCHANGED <<proc, run, csv, next_seq, buffer, pending, stop, good, file, cut, spoilt, streams>>

\* A condition variable may wake without a notification.
WriterSpurious ==
  /\ proc \in Running /\ writer = "waiting" /\ writer' = "check"
  /\ UNCHANGED <<proc, run, csv, logVars, stop, batches, good, file, cut, spoilt, streams>>

\* A row reaches the file, at the flush at the latest; a failed stream drops it.
\* After a part of a row it is no row of its own.
WriteRow ==
  /\ proc \in Running /\ writer = "writing" /\ batches # <<>>
  /\ file' = IF good THEN Append(file, Head(batches)) ELSE file
  /\ spoilt' = IF good /\ cut THEN spoilt \cup {Len(file) + 1} ELSE spoilt
  /\ cut' = (cut /\ ~good)
  /\ batches' = Tail(batches)
  /\ UNCHANGED <<proc, run, csv, logVars, stop, writer, good, streams>>

\* The disk is full, say: the ofstream stays failed for the rest of the run.
OutFails ==
  /\ proc \in Running /\ writer = "writing" /\ good
  /\ good' = FALSE /\ OutputStops
  /\ UNCHANGED <<proc, run, csv, logVars, stop, writer, batches, file, spoilt, streams>>

Flushed ==
  /\ proc \in Running /\ writer = "writing" /\ batches = <<>>
  /\ writer' = "check"
  /\ UNCHANGED <<proc, run, csv, logVars, stop, batches, good, file, cut, spoilt, streams>>

-----------------------------------------------------------------------------
\* run_sse_session.
StreamMoves(s, to) ==
  /\ proc \in Live
  /\ streams' = [streams EXCEPT ![s] = to]
  /\ UNCHANGED <<proc, run, csv, logVars, stop, writer, batches, good, file, cut, spoilt>>

StreamOpen(s) ==
  /\ proc = "up" /\ streams[s].at = "closed"
  /\ StreamMoves(s, [ClosedStream EXCEPT !.at = "header"])

\* The header is written, and only then last_seq is read.
StreamStart(s) ==
  /\ streams[s].at = "header"
  /\ StreamMoves(s, [streams[s] EXCEPT !.at = "sleep", !.last = latest_seq,
                                       !.start = latest_seq])

\* The timer fires: poll; a ping if there is nothing new.
StreamPoll(s) ==
  /\ streams[s].at = "sleep"
  /\ LET new == EventsSince(streams[s].last)
     IN  StreamMoves(s, IF new = <<>> THEN streams[s]
                        ELSE [streams[s] EXCEPT !.at = "send", !.events = new])

\* mutant: last_seq is not advanced
StreamSendMutant(s) ==
  /\ streams[s].at = "send"
  /\ LET e == Head(streams[s].events)
         rest == Tail(streams[s].events)
     IN  StreamMoves(s, [streams[s] EXCEPT
           !.events = rest, !.at = IF rest = <<>> THEN "sleep" ELSE "send"])

\* A frame is written and last_seq follows it.
StreamSend(s) ==
  /\ streams[s].at = "send"
  /\ LET e == Head(streams[s].events)
         rest == Tail(streams[s].events)
     IN  StreamMoves(s, [streams[s] EXCEPT
           !.last = e.seq, !.sent = Append(@, e),
           !.events = rest, !.at = IF rest = <<>> THEN "sleep" ELSE "send"])

\* A write fails or the connection idles out: the coroutine ends.
StreamEnd(s) ==
  /\ streams[s].at # "closed"
  /\ StreamMoves(s, ClosedStream)

-----------------------------------------------------------------------------
Writer == WriterOpen \/ WriterCheck \/ WriteRow \/ Flushed
Destructor == Destroy \/ DestroyNotify \/ DestroyJoin
StreamRuns(s) == StreamStart(s) \/ StreamPoll(s) \/ StreamSend(s)

Next ==
  \/ Start \/ Crash \/ Signal \/ Destructor
  \/ Record
  \/ Writer \/ WriterSpurious \/ OutFails
  \/ \E s \in Streams : StreamOpen(s) \/ StreamRuns(s) \/ StreamEnd(s)

\* The writer thread and main's thread run; the io_context keeps serving a
\* stream whose client reads.
Fairness ==
  /\ WF_vars(Writer) /\ WF_vars(Destructor)
  /\ \A s \in Streams : WF_vars(StreamRuns(s))

Spec == Init /\ [][Next]_vars /\ Fairness

-----------------------------------------------------------------------------
\* The file has a line for the events of each run from the first one on, in order,
\* once and without a gap, whatever crashed, failed or was still being written
\* (record, ~RequestLog and writer_loop hand every event on exactly once).
FileInSequence ==
  \A i \in DOMAIN file :
    \/ /\ file[i].seq = 1
       /\ i > 1 => file[i - 1].run < file[i].run
    \/ /\ i > 1
       /\ file[i - 1].run = file[i].run /\ file[i - 1].seq = file[i].seq - 1

\* All that a row cut short costs, by a full disk or a crash, is itself and the
\* first row of the next run that writes one, which goes onto the same line.
OnlyFirstRowsSpoilt ==
  cut \in BOOLEAN /\ spoilt \subseteq {i \in DOMAIN file : file[i].seq = 1}

\* A stream that the ring did not overrun has written every event since it
\* began, in order and once (run_sse_session advances last_seq frame by frame,
\* events_since returns the oldest first).
StreamMissesNothing ==
  \A s \in Streams :
    LET st == streams[s]
    IN  ~st.overrun => st.sent = [i \in 1..(st.last - st.start) |->
                                    [run |-> run, seq |-> st.start + i]]

\* Whoever reads events, from the file or from a stream, reads them in sequence.
InSequence ==
  TypeOK /\ FileInSequence /\ OnlyFirstRowsSpoilt /\ StreamMissesNothing

\* The log implements the journal: what record() was given and the file does
\* not hold is batches, queue and pending, in this order, and a shutdown by
\* signal leaves none of it behind unless the output failed.
PhaseOf == IF proc \in Running THEN "open" ELSE proc
J == INSTANCE Journal WITH
       Events <- Event, phase <- PhaseOf,
       sound <- good /\ writer # "failed",
       unsaved <- batches \o queue \o pending
ImplementsJournal == J!Init /\ [][J!Next]_J!vars

\* A signal ends the process: the destructor never waits for a writer that
\* sleeps (stop_ is set under the lock, before the notification).
ShutdownEnds == proc = "draining" ~> proc \notin Running

\* A batch that was queued reaches the writer's file unless the output fails
\* or the process dies (record's notify_one is not lost).
QueueIsWritten ==
  queue # <<>> ~> \/ queue = <<>> /\ batches = <<>>
                  \/ writer = "failed" \/ proc \notin Running

\* No wakeup of the writer is lost, neither record's nor the destructor's.
NoLostWakeup == ShutdownEnds /\ QueueIsWritten

\* An event in the ring that a stream has not sent is sent to it, or evicted,
\* unless the stream or the process ends.
StreamCatchesUp ==
  \A s \in Streams : \A n \in 1..MaxEvents :
    (/\ streams[s].at = "sleep" /\ streams[s].last < n
     /\ \E i \in DOMAIN buffer : buffer[i].seq = n)
    ~> (streams[s].last >= n \/ streams[s].overrun
         \/ streams[s].at \notin {"sleep", "send"} \/ proc # "up")

-----------------------------------------------------------------------------
(***************************************************************************)
(* The inductive invariant behind InSequence and ImplementsJournal.        *)
(***************************************************************************)
Ev(n) == [run |-> run, seq |-> n]

\* A process that is gone has left nothing, the file is off exactly when there is
\* no writer, and only the destructor tells it to leave.
ProcInv ==
  /\ proc \in Running => run >= 1
  /\ proc \notin Running => /\ ~csv /\ good /\ ~stop
                            /\ next_seq = 1 /\ buffer = <<>>
  /\ csv <=> writer # "off"
  /\ ~csv => pending = <<>> /\ queue = <<>>
  /\ writer # "writing" => batches = <<>>
  /\ proc \in Live => ~stop
  /\ proc \in {"closing", "joining"} => pending = <<>>
  /\ writer = "done" => stop /\ queue = <<>>

\* The events of this run that the writer has written or dropped.
Saved == next_seq - 1 - Len(batches) - Len(queue) - Len(pending)

\* The others are in batches, queue and pending, in this order.
UnsavedInv ==
  csv => /\ Saved >= 0
         /\ \A i \in DOMAIN batches : batches[i] = Ev(Saved + i)
         /\ \A i \in DOMAIN queue : queue[i] = Ev(Saved + Len(batches) + i)
         /\ \A i \in DOMAIN pending : pending[i] = Ev(Saved + Len(batches) + Len(queue) + i)

\* Those of them that are in the file come last in it.
FileInv ==
  /\ FileInSequence
  /\ \A i \in DOMAIN file : file[i].run <= run
  /\ csv /\ good => \/ Saved = 0 /\ \A i \in DOMAIN file : file[i].run < run
                    \/ file # <<>> /\ file[Len(file)] = Ev(Saved)

\* After a part of a row there is none of this run, whose first row is to come.
CutInv ==
  /\ OnlyFirstRowsSpoilt
  /\ cut /\ csv /\ good => \A i \in DOMAIN file : file[i].run < run

RingInv ==
  /\ Len(buffer) < next_seq
  /\ \A i \in DOMAIN buffer : buffer[i] = Ev(next_seq - 1 - Len(buffer) + i)

\* A stream that is not overrun holds the events after the last one it sent, and
\* those after them are still in the ring.
StreamInv(st) ==
  /\ st.at # "closed" => proc \in Live
  /\ st.at \in {"closed", "header"} => st = [ClosedStream EXCEPT !.at = st.at]
  /\ st.at = "sleep" => st.events = <<>>
  /\ st.at = "send" => st.events # <<>>
  /\ st.at \in {"sleep", "send"} /\ ~st.overrun =>
       /\ st.start <= st.last
       /\ st.last + Len(st.events) < next_seq
       /\ next_seq - 1 - Len(buffer) <= st.last + Len(st.events)
       /\ \A i \in DOMAIN st.events : st.events[i] = Ev(st.last + i)
       /\ st.sent = [i \in 1..(st.last - st.start) |-> Ev(st.start + i)]

IInv ==
  /\ TypeOK /\ ProcInv /\ UnsavedInv /\ FileInv /\ RingInv
  /\ \A s \in Streams : StreamInv(streams[s])
=============================================================================
