------------------------------ MODULE ByteQueue ------------------------------
(***************************************************************************)
(* The byte queue of src/src/io.js, which carries standard input and the   *)
(* input side of a terminal (src/src/pty.js).  Data is kept in the chunks  *)
(* it arrived in; a reader that finds nothing is suspended on a promise    *)
(* that a later push or close resolves.  Every method runs to its end      *)
(* without an await, so a method is one step.                              *)
(***************************************************************************)
EXTENDS Integers, Sequences, SequencesExt

CONSTANTS Byte,       \* byte values
          Reader,     \* callers of read
          MaxPush,    \* bound: longest chunk pushed at once
          MaxRead,    \* bound: largest count asked for
          MaxLength,  \* bound: push is not called with this many bytes queued
          Waiting     \* stands for a promise that is pending

\* A promise is no array of bytes.
ASSUME QueueAssumption == /\ MaxPush \in Nat /\ MaxRead \in Nat /\ MaxLength \in Nat
                          /\ Waiting \notin Seq(Byte)

VARIABLES chunks,     \* this.chunks
          length,     \* this.length
          readers,    \* this.waiters: reader (its promise) and count
          closed,     \* this.closed
          result      \* what each reader's last read resolved to, or Waiting

queueVars == <<chunks, length, readers, closed, result>>

Chunk == UNION {[1 .. n -> Byte] : n \in 1 .. MaxPush}

\* Chunks of bytes, their cached length, waiters that asked for something, and
\* answers.
QueueTypeOK ==
    /\ chunks \in Seq(Seq(Byte)) /\ length = Len(FlattenSeq(chunks))
    /\ readers \in Seq([reader : Reader, count : 1 .. MaxRead])
    /\ closed \in BOOLEAN
    /\ result \in [Reader -> Seq(Byte) \cup {Waiting}]

QueueInit == /\ chunks = <<>> /\ length = 0 /\ readers = <<>> /\ closed = FALSE
             /\ result = [r \in Reader |-> <<>>]

-----------------------------------------------------------------------------
\* The part of the object the loops of _take and _flush work on.
Queue(c, l, w, g) == [chunks |-> c, length |-> l, readers |-> w, result |-> g]

Smaller(m, n) == IF m < n THEN m ELSE n

\* Mutant: a chunk that is used up only in part goes to the end of the queue.
TakeOnceToEnd(t) ==
    IF t.left = 0 \/ t.chunks = <<>> THEN t
    ELSE LET first == Head(t.chunks)
             take  == Smaller(Len(first), t.left)
         IN  [left   |-> t.left - take,
              out    |-> t.out \o SubSeq(first, 1, take),
              chunks |-> IF take = Len(first) THEN Tail(t.chunks)
                         ELSE Append(Tail(t.chunks), SubSeq(first, take + 1, Len(first)))]

\* A round of the loop of _take: out has been copied, left are still to be.
TakeOnce(t) ==
    IF t.left = 0 \/ t.chunks = <<>> THEN t
    ELSE LET first == Head(t.chunks)
             take  == Smaller(Len(first), t.left)
         IN  [left   |-> t.left - take,
              out    |-> t.out \o SubSeq(first, 1, take),
              chunks |-> (IF take = Len(first) THEN <<>>
                          ELSE <<SubSeq(first, take + 1, Len(first))>>) \o Tail(t.chunks)]

\* The loop of _take has a round for each chunk at most.
TakeLoop(cs, n) ==
    LET round[k \in 0 .. Len(cs)] ==
            IF k = 0 THEN [left |-> n, out |-> <<>>, chunks |-> cs] ELSE TakeOnce(round[k - 1])
    IN  round[Len(cs)]

\* _take: reader r gets up to count bytes.
Take(q, r, count) ==
    LET n == Smaller(count, q.length)
        t == TakeLoop(q.chunks, n)
    IN  Queue(t.chunks, q.length - n, q.readers, [q.result EXCEPT ![r] = t.out])

\* A round of the loop of _flush: the first waiter is served while there is
\* data, or gets nothing once the queue is closed.  It is the mutant, too: _flush
\* serves one waiter per call.
FlushOnce(q, isClosed) ==
    IF q.readers = <<>> \/ (q.length = 0 /\ ~isClosed) THEN q
    ELSE LET w    == Head(q.readers)
             rest == Queue(q.chunks, q.length, Tail(q.readers), q.result)
         IN  IF q.length > 0 THEN Take(rest, w.reader, w.count)
             ELSE Queue(q.chunks, q.length, Tail(q.readers), [q.result EXCEPT ![w.reader] = <<>>])

\* The loop of _flush has a round for each waiter at most.
Flush(q, isClosed) ==
    LET round[k \in 0 .. Len(q.readers)] ==
            IF k = 0 THEN q ELSE FlushOnce(round[k - 1], isClosed)
    IN  round[Len(q.readers)]

Becomes(q) == /\ chunks' = q.chunks /\ length' = q.length
              /\ readers' = q.readers /\ result' = q.result

\* push of a chunk that is not empty; a closed queue ignores it.
push(bytes) ==
    /\ ~closed /\ length < MaxLength
    /\ Becomes(Flush(Queue(Append(chunks, bytes), length + Len(bytes), readers, result), closed))
    /\ UNCHANGED closed

close ==
    /\ closed' = TRUE
    /\ Becomes(Flush(Queue(chunks, length, readers, result), TRUE))

\* read: nothing asked, nothing given; data; the end; or the caller waits.  The
\* caller of a read that waits calls again only when it has its answer.
read(r, count) ==
    /\ result[r] # Waiting
    /\ \/ /\ count = 0
          /\ Becomes(Queue(chunks, length, readers, [result EXCEPT ![r] = <<>>]))
       \/ /\ count > 0 /\ length > 0
          /\ Becomes(Take(Queue(chunks, length, readers, result), r, count))
       \/ /\ count > 0 /\ length = 0 /\ closed
          /\ Becomes(Queue(chunks, length, readers, [result EXCEPT ![r] = <<>>]))
       \/ /\ count > 0 /\ length = 0 /\ ~closed
          /\ Becomes(Queue(chunks, length, Append(readers, [reader |-> r, count |-> count]),
                           [result EXCEPT ![r] = Waiting]))
    /\ UNCHANGED closed

-----------------------------------------------------------------------------
QueueNext == \/ \E bytes \in Chunk : push(bytes)
             \/ close
             \/ \E r \in Reader, n \in 0 .. MaxRead : read(r, n)

QueueSpec == QueueInit /\ [][QueueNext]_queueVars

-----------------------------------------------------------------------------
\* No reader of standard input or of a terminal waits while there is data, or
\* after the end: a suspended reader has been overlooked by no push and no close.
NobodyWaitsInVain == readers # <<>> => length = 0 /\ ~closed

\* The chunked queue implements a stream of bytes.
Stream == INSTANCE ByteStream WITH buffer <- FlattenSeq(chunks), queue <- readers,
                                   got <- result

\* The chunks of the queue, cut by reads and emptied by pushes, implement a
\* stream of bytes (see ByteStream).
IsAStream == Stream!Spec
==============================================================================
