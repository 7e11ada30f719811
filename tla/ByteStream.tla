----------------------------- MODULE ByteStream -----------------------------
(***************************************************************************)
(* What the input side of a terminal or a standard input promises: a       *)
(* stream of bytes.  Readers get the bytes in the order they were written, *)
(* every byte once, and a reader only gets nothing after the end of the    *)
(* stream (or if it asked for nothing).  A reader that finds no bytes      *)
(* waits, and the readers that wait are served in their order.             *)
(***************************************************************************)
EXTENDS Integers, Sequences

CONSTANTS Byte, Reader, MaxPush, MaxRead, Waiting

VARIABLES buffer,     \* bytes written and not yet read
          queue,      \* readers that wait, with the number of bytes they want
          closed,     \* the end of the stream was written
          got         \* the answer to each reader's last read, or Waiting

vars == <<buffer, queue, closed, got>>

Least(m, n) == IF m < n THEN m ELSE n
Prefix(s, n) == SubSeq(s, 1, Least(n, Len(s)))
After(s, n)  == SubSeq(s, Least(n, Len(s)) + 1, Len(s))
Strings == UNION {[1 .. n -> Byte] : n \in 1 .. MaxPush}

Init == /\ buffer = <<>> /\ queue = <<>> /\ closed = FALSE
        /\ got = [r \in Reader |-> <<>>]

\* New bytes come after those that are there.  They are dealt out to the readers
\* that wait, in their order, as long as there are any: reader i gets those
\* between two cuts, as many as it wants.  What nobody wants stays.
Write(bytes) ==
    LET all == buffer \o bytes
    IN  /\ ~closed
        /\ \E served \in 0 .. Len(queue) : \E cut \in [0 .. served -> 0 .. Len(all)] :
              /\ cut[0] = 0
              /\ \A i \in 1 .. served :
                    cut[i - 1] < Len(all) /\ cut[i] = Least(cut[i - 1] + queue[i].count, Len(all))
              /\ served = Len(queue) \/ cut[served] = Len(all)
              /\ got' = [r \in Reader |->
                            IF \E i \in 1 .. served : queue[i].reader = r
                            THEN LET i == CHOOSE i \in 1 .. served : queue[i].reader = r
                                 IN  SubSeq(all, cut[i - 1] + 1, cut[i])
                            ELSE got[r]]
              /\ queue' = After(queue, served)
              /\ buffer' = After(all, cut[served])
        /\ UNCHANGED closed

\* At the end of the stream readers that still wait get nothing.
End == /\ closed' = TRUE
       /\ got' = [r \in Reader |-> IF \E k \in 1 .. Len(queue) : queue[k].reader = r
                                   THEN <<>> ELSE got[r]]
       /\ queue' = <<>>
       /\ UNCHANGED buffer

ReadNow(r, n) ==
    /\ got[r] # Waiting
    /\ n = 0 \/ buffer # <<>> \/ closed
    /\ got' = [got EXCEPT ![r] = Prefix(buffer, n)]
    /\ buffer' = After(buffer, n)
    /\ UNCHANGED <<queue, closed>>

ReadLater(r, n) ==
    /\ got[r] # Waiting /\ n > 0 /\ buffer = <<>> /\ ~closed
    /\ got' = [got EXCEPT ![r] = Waiting]
    /\ queue' = Append(queue, [reader |-> r, count |-> n])
    /\ UNCHANGED <<buffer, closed>>

Next == \/ \E b \in Strings : Write(b)
        \/ End
        \/ \E r \in Reader, n \in 0 .. MaxRead : ReadNow(r, n) \/ ReadLater(r, n)

Spec == Init /\ [][Next]_vars
=============================================================================
