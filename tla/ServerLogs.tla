------------------------------ MODULE ServerLogs ------------------------------
(***************************************************************************)
(* The way of a log line of the server to the page that shows it: streams  *)
(* cut into frames (main/services/server-log-transport.ts), the buffer and *)
(* the delivery queue of the manager (server-manager.ts), and the page,    *)
(* which asks for the buffer, then for the settings, and only then listens *)
(* (views/ServerView.svelte).                                              *)
(*                                                                         *)
(* Text is a sequence of characters, Bytes the length of one in UTF-8; log *)
(* entries are numbered in the order they were written.                    *)
(***************************************************************************)
EXTENDS Integers, Sequences, SequencesExt

CONSTANTS LogCapacity, BatchSize, PageCapacity, MaxPending

-------------------------------------------------------------------------------
(* Framing                                                                 *)

Ends == {"LF", "CR"}
Bytes(c) == IF c = "e-acute" THEN 2 ELSE 1
Size(text) == FoldLeft(LAMBDA n, c : n + Bytes(c), 0, text)
Blank(text) == \A i \in DOMAIN text : text[i] = "space"
Framed(frames, text) == IF Blank(text) THEN frames ELSE Append(frames, text)

\* A framer is [pending, frames]: the unfinished line and what it has emitted.
NoText == [pending |-> <<>>, frames |-> <<>>]
Consume(f, c) ==
    IF c \in Ends THEN [pending |-> <<>>, frames |-> Framed(f.frames, f.pending)]
    ELSE [f EXCEPT !.pending = Append(@, c)]

\* takeUtf8Prefix: the longest prefix that fits.
Fitting(text) == CHOOSE n \in 0..Len(text) :
    /\ Size(SubSeq(text, 1, n)) <= MaxPending
    /\ n = Len(text) \/ Size(SubSeq(text, 1, n + 1)) > MaxPending
Split(f, i) ==
    IF Size(f.pending) <= MaxPending THEN f
    ELSE LET n == Fitting(f.pending)
         IN  [pending |-> SubSeq(f.pending, n + 1, Len(f.pending)),
              frames |-> Framed(f.frames, SubSeq(f.pending, 1, n))]

Push(f, chunk) ==
    LET consumed == FoldLeft(Consume, f, chunk)
    IN  FoldLeft(Split, consumed, [i \in 1..Len(consumed.pending) |-> i])
Flush(f) == [pending |-> <<>>, frames |-> Framed(f.frames, f.pending)]

-------------------------------------------------------------------------------
(* Delivery.  l is [logs, queue, next, page, shown, batch, missed, doubled]: *)
(* the buffer, the entries to deliver, the next entry, where the page is,  *)
(* what it shows and will show with its next frame, and (a history) the    *)
(* entries sent while it did not listen and those it was to get twice.     *)

NoLogs == [logs |-> <<>>, queue |-> <<>>, next |-> 1, page |-> "away", shown |-> <<>>,
           batch |-> <<>>, missed |-> {}, doubled |-> {}]
Newest(seq, n) == SubSeq(seq, Len(seq) - (IF Len(seq) < n THEN Len(seq) ELSE n) + 1, Len(seq))

AddLog(l) ==
    [l EXCEPT !.logs = Newest(Append(@, l.next), LogCapacity),
              !.queue = Newest(Append(@, l.next), LogCapacity), !.next = @ + 1]

\* flushLogDelivery, every 50 ms: what is sent before the page listens is lost.
FlushLogDelivery(l) ==
    LET n == IF Len(l.queue) < BatchSize THEN Len(l.queue) ELSE BatchSize
        sent == SubSeq(l.queue, 1, n)
        rest == [l EXCEPT !.queue = SubSeq(@, n + 1, Len(@))]
    IN  IF l.page = "listening" THEN [rest EXCEPT !.batch = Newest(@ \o sent, PageCapacity)]
        ELSE [rest EXCEPT !.missed = @ \cup {sent[i] : i \in 1..n}]
\* clearPendingLogDelivery and the cleared buffer, when a server is started.
NewServer(l) == [l EXCEPT !.logs = <<>>, !.queue = <<>>]

\* loadLogs: the buffer holds also what is still to be delivered.
LoadLogs(l) ==
    [l EXCEPT !.page = "loaded", !.shown = Newest(l.logs, PageCapacity), !.missed = {},
              !.doubled = {l.queue[i] : i \in DOMAIN l.queue}]
Listen(l) == [l EXCEPT !.page = "listening"]
\* queueLog's animation frame
ShowBatch(l) == [l EXCEPT !.shown = Newest(@ \o l.batch, PageCapacity), !.batch = <<>>]
Leave(l) == [l EXCEPT !.page = "away", !.shown = <<>>, !.batch = <<>>, !.missed = {}, !.doubled = {}]
===============================================================================
