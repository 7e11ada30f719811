---------------------------- MODULE Descriptors ----------------------------
(***************************************************************************)
(* File descriptors of src/src/syscalls.js: the tables of a process and of *)
(* the child it forks, the handles they share (standard streams, pipes,    *)
(* open files of src/src/vfs.js, event counters, epoll sets) and the calls *)
(* on them.  A call that only fails changes nothing and is   *)
(* left out; pread and pwrite fail with an effect and are not.             *)
(*                                                                         *)
(* Calls are synchronous, and the child runs while its parent waits for it *)
(* (src/src/runtime.js), so one process acts at a time.  A read or write   *)
(* through a vector of buffers is the sequence of its reads or writes, in  *)
(* one step.  A guest program is known by the calls it makes: Init chooses *)
(* one of the sets in Program.                                             *)
(***************************************************************************)
EXTENDS Integers, Sequences, FiniteSets, SequencesExt, FiniteSetsExt

CONSTANTS Program,     \* sets of calls a guest program may consist of
          Input,       \* bytes on standard input
          Byte,        \* bytes a program writes
          Source,      \* bound: descriptors that programs duplicate
          Target,      \* bound: descriptors they name to dup2 and epoll_ctl
          MaxFd,       \* bound: largest descriptor
          MaxHandles,  \* bound: handles created
          MaxBytes     \* bound: bytes in a file, in a pipe or on a stream

ASSUME DescAssumption ==
    /\ MaxFd \in Nat /\ MaxFd >= 2 /\ MaxHandles \in Nat /\ MaxBytes \in Nat
    /\ Input \in Seq(Nat) /\ Byte \subseteq Nat
    /\ Source \subseteq 0 .. MaxFd /\ Target \subseteq 0 .. MaxFd

VARIABLES calls,       \* the calls of this program
          turn,        \* the process that runs
          child,       \* "none" | "forked" | "done"
          fd,          \* process -> descriptor -> handle
          nextFd,      \* process -> nextFd
          handles,     \* sequence of handles, in order of creation
          streams,     \* stdin, stdout and the pipe: bytes not taken yet
          data,        \* bytes of the file
          put, got,    \* history: bytes given to and taken from a stream
          log,         \* history: bytes the file should hold
          moved,       \* history: a position was moved by other than read or write
          seen         \* process -> descriptors last reported readable, not read since

descVars == <<calls, turn, child, fd, nextFd, handles, streams, data, put, got, log, moved, seen>>

Proc   == {"parent", "child"}
Fd     == 0 .. MaxFd
Stream == {"stdin", "stdout", "pipe", "event"}
NoHandle == 0

Handle(kind) == [kind |-> kind, pos |-> 0, acc |-> "rdwr", app |-> FALSE, want |-> {}, sys |-> turn]

DescInit ==
    /\ calls \in Program
    /\ turn = "parent" /\ child = "none"
    /\ handles = << [kind |-> "stdin", pos |-> 0, acc |-> "rd", app |-> FALSE, want |-> {}, sys |-> "parent"],
                    [kind |-> "stdout", pos |-> 0, acc |-> "wr", app |-> FALSE, want |-> {}, sys |-> "parent"] >>
    /\ fd = [p \in Proc |-> [f \in Fd |-> IF p = "child" THEN NoHandle
                                          ELSE CASE f = 0 -> 1 [] f \in {1, 2} -> 2 [] OTHER -> NoHandle]]
    /\ nextFd = [p \in Proc |-> 3]
    /\ streams = [s \in Stream |-> IF s = "stdin" THEN Input ELSE <<>>]
    /\ put = streams /\ got = [s \in Stream |-> <<>>]
    /\ data = <<>> /\ log = <<>> /\ moved = FALSE
    /\ seen = [p \in Proc |-> {}]

-----------------------------------------------------------------------------
Calls(c)   == c \in calls
Open(f)    == fd[turn][f] # NoHandle
HandleOf(f) == handles[fd[turn][f]]
Table(f, h) == fd' = [fd EXCEPT ![turn][f] = h]

\* Mutant: the search starts at the descriptor that was handed out last.
firstFreeHint(table, hint) == hint

\* allocFd: the first free number from nextFd on; nextFd never goes back.
firstFree(table, hint) ==
    IF \E f \in hint .. MaxFd : table[f] = NoHandle
    THEN Min({f \in hint .. MaxFd : table[f] = NoHandle}) ELSE MaxFd + 1

allocFd(h) ==
    LET n == firstFree(fd[turn], nextFd[turn])
    IN  /\ n <= MaxFd
        /\ fd' = [fd EXCEPT ![turn][n] = h]
        /\ nextFd' = [nextFd EXCEPT ![turn] = n + 1]

\* A call that creates one handle.
create(h) == /\ Len(handles) < MaxHandles
             /\ handles' = Append(handles, h)
             /\ allocFd(Len(handles) + 1)

UNCH_io == UNCHANGED <<streams, data, put, got, log, moved, seen>>
UNCH_tables == UNCHANGED <<calls, turn, child, fd, nextFd>>

\* The descriptors that stand for handle h no longer have a fresh report.
Unseen(h) == seen' = [p \in Proc |-> {f \in seen[p] : fd[p][f] # h}]

-----------------------------------------------------------------------------
\* The stream a handle reads from or writes to.
StreamOf(kind) == CASE kind = "stdin" -> "stdin" [] kind = "stdout" -> "stdout" [] OTHER -> "pipe"

\* Mutant: a read leaves its last byte in the buffer.
takeAllButOne(buffer, n) == SubSeq(buffer, IF n = 0 THEN 1 ELSE n, Len(buffer))

takeOff(buffer, n) == SubSeq(buffer, n + 1, Len(buffer))

\* read of standard input or of a pipe: what is there, up to count; nothing
\* also when the pipe still has writers.
readStream(f, count) ==
    LET s == StreamOf(HandleOf(f).kind)
        n == Min({count, Len(streams[s])})
    IN  /\ Calls("stream") /\ HandleOf(f).kind \in {"stdin", "pipeR"}
        /\ streams' = [streams EXCEPT ![s] = takeOff(@, n)]
        /\ got' = [got EXCEPT ![s] = @ \o SubSeq(streams[s], 1, n)]
        /\ UNCHANGED <<handles, data, put, log, moved, seen>>

writeStream(f, bytes) ==
    LET s == StreamOf(HandleOf(f).kind)
    IN  /\ Calls("stream") /\ HandleOf(f).kind \in {"stdout", "pipeW"}
        /\ Len(put[s]) + Len(bytes) <= MaxBytes
        /\ streams' = [streams EXCEPT ![s] = @ \o bytes]
        /\ put' = [put EXCEPT ![s] = @ \o bytes]
        /\ UNCHANGED <<handles, data, got, log, moved, seen>>

\* Reading past the end moves the position back to the end.
readFile(f, count) ==
    /\ HandleOf(f).kind = "file" /\ HandleOf(f).acc # "wr"
    /\ handles' = [handles EXCEPT ![fd[turn][f]].pos = Min({Len(data), @ + count})]
    /\ moved' = (moved \/ HandleOf(f).acc = "rdwr")
    /\ UNCHANGED <<streams, data, put, got, log, seen>>

\* The bytes with others laid over them from position pos on, 0 in between.
Overlay(bytes, pos, more) ==
    [i \in 1 .. Max({Len(bytes), pos + Len(more)}) |->
        IF i > pos /\ i <= pos + Len(more) THEN more[i - pos]
        ELSE IF i <= Len(bytes) THEN bytes[i] ELSE 0]

FileHandles == {i \in DOMAIN handles : handles[i].kind = "file"}

\* Only appends, or all through the one handle there is.
Sequential == \/ \A i \in FileHandles : handles[i].app
              \/ Cardinality(FileHandles) = 1 /\ ~moved

\* Mutant: an appending handle goes to the end only when it is opened.
writeAtPosition(h) == h.pos

\* Where a write goes: an appending handle is first moved to the end.
writeAt(h) == IF h.app THEN Len(data) ELSE h.pos

\* The history follows the calls: what is appended, or written by the only
\* handle there is, comes after what was written before.
writeFile(f, bytes) ==
    LET h  == HandleOf(f)
        at == writeAt(h)
    IN  /\ h.kind = "file" /\ h.acc # "rd"
        /\ at + Len(bytes) <= MaxBytes
        /\ data' = Overlay(data, at, bytes)
        /\ handles' = [handles EXCEPT ![fd[turn][f]].pos = at + Len(bytes)]
        /\ log' = IF Sequential THEN log \o bytes ELSE data'
        /\ UNCHANGED <<streams, put, got, moved, seen>>

\* An event counter: read takes the value, write adds to it.
readEvent(f) ==
    /\ HandleOf(f).kind = "event"
    /\ handles' = [handles EXCEPT ![fd[turn][f]].pos = 0]
    /\ got' = [got EXCEPT !["event"] = @ \o [i \in 1 .. HandleOf(f).pos |-> 1]]
    /\ Unseen(fd[turn][f])
    /\ UNCHANGED <<streams, data, put, log, moved>>

writeEvent(f, n) ==
    /\ HandleOf(f).kind = "event"
    /\ Len(put["event"]) + n <= MaxBytes
    /\ handles' = [handles EXCEPT ![fd[turn][f]].pos = @ + n]
    /\ put' = [put EXCEPT !["event"] = @ \o [i \in 1 .. n |-> 1]]
    /\ UNCHANGED <<streams, data, got, log, moved, seen>>

\* read and readv; count is the sum of the lengths, since a buffer that is not
\* filled ends the loop.
read(f, count) == /\ Calls("read") /\ Open(f)
                  /\ readStream(f, count) \/ readFile(f, count) \/ readEvent(f)
                  /\ UNCH_tables

\* write and writev; bytes are those of all buffers.
write(f, bytes) == /\ Calls("write") /\ Open(f)
                   /\ writeStream(f, bytes) \/ writeFile(f, bytes) \/ writeEvent(f, Len(bytes))
                   /\ UNCH_tables

\* pread and pwrite of a file set the position, read or write, and set it back,
\* unless the handle refuses and the error passes by the line that does.
preadFile(f, at) ==
    /\ HandleOf(f).kind = "file"
    /\ IF HandleOf(f).acc = "wr"
       THEN handles' = [handles EXCEPT ![fd[turn][f]].pos = at] /\ moved' = TRUE
       ELSE UNCHANGED <<handles, moved>>
    /\ UNCHANGED <<streams, data, put, got, log, seen>>

pwriteFile(f, at, bytes) ==
    LET h     == HandleOf(f)
        start == IF h.app THEN Len(data) ELSE at
    IN  /\ h.kind = "file"
        /\ start + Len(bytes) <= MaxBytes
        /\ IF h.acc = "rd"
           THEN /\ handles' = [handles EXCEPT ![fd[turn][f]].pos = at]
                /\ moved' = TRUE /\ UNCHANGED <<data, log>>
           ELSE /\ data' = Overlay(data, start, bytes)
                /\ log' = Overlay(log, start, bytes)
                /\ moved' = (moved \/ start + Len(bytes) > Len(log))
                /\ UNCHANGED handles
        /\ UNCHANGED <<streams, put, got, seen>>

\* Handles without a position take them as read and write.
pread(f, count, at) ==
    /\ Calls("pread") /\ Open(f)
    /\ preadFile(f, at) \/ readStream(f, count) \/ readEvent(f)
    /\ UNCH_tables

pwrite(f, bytes, at) ==
    /\ Calls("pwrite") /\ Open(f)
    /\ pwriteFile(f, at, bytes) \/ writeStream(f, bytes) \/ writeEvent(f, Len(bytes))
    /\ UNCH_tables

\* lseek and _llseek, from the start, from the position or from the end.
lseek(f, base) ==
    /\ Calls("lseek") /\ Open(f) /\ HandleOf(f).kind = "file"
    /\ handles' = [handles EXCEPT ![fd[turn][f]].pos =
                     CASE base = "set" -> 0 [] base = "cur" -> Min({@ + 1, MaxBytes}) [] base = "end" -> Len(data)]
    /\ moved' = TRUE
    /\ UNCH_tables /\ UNCHANGED <<streams, data, put, got, log, seen>>

ftruncate(f, len) ==
    /\ Calls("ftruncate") /\ Open(f) /\ HandleOf(f).kind = "file"
    /\ data' = [i \in 1 .. len |-> IF i <= Len(data) THEN data[i] ELSE 0]
    /\ log' = data' /\ moved' = TRUE
    /\ UNCH_tables /\ UNCHANGED <<handles, streams, put, got, seen>>

-----------------------------------------------------------------------------
\* open and creat; TRUNC empties the file unless it is opened for reading only.
open(acc, app, trunc) ==
    /\ Calls("open")
    /\ create([Handle("file") EXCEPT !.acc = acc, !.app = app,
                 !.pos = IF app THEN Len(IF trunc /\ acc # "rd" THEN <<>> ELSE data) ELSE 0])
    /\ data' = IF trunc /\ acc # "rd" THEN <<>> ELSE data
    /\ log' = data'
    /\ moved' = (moved \/ FileHandles # {})
    /\ UNCHANGED <<calls, turn, child, streams, put, got, seen>>

\* pipe and pipe2: two handles and two descriptors.
pipe ==
    LET r == firstFree(fd[turn], nextFd[turn])
        w == firstFree([fd[turn] EXCEPT ![r] = 1], r + 1)
    IN  /\ Calls("pipe") /\ ~ \E i \in DOMAIN handles : handles[i].kind = "pipeR"
        /\ Len(handles) + 2 <= MaxHandles /\ r <= MaxFd /\ w <= MaxFd
        /\ handles' = handles \o << Handle("pipeR"), Handle("pipeW") >>
        /\ fd' = [fd EXCEPT ![turn][r] = Len(handles) + 1, ![turn][w] = Len(handles) + 2]
        /\ nextFd' = [nextFd EXCEPT ![turn] = w + 1]
        /\ UNCHANGED <<calls, turn, child>> /\ UNCH_io

\* eventfd, with its counter at 0; epoll_create.
newHandle(kind) == /\ Calls(kind) /\ ~ \E i \in DOMAIN handles : handles[i].kind = kind
                   /\ create(Handle(kind))
                   /\ UNCHANGED <<calls, turn, child>> /\ UNCH_io

\* dup, and fcntl F_DUPFD whose lower bound is not looked at.
dup(f) == /\ Calls("dup") /\ Open(f) /\ allocFd(fd[turn][f])
          /\ UNCHANGED <<calls, turn, child, handles>> /\ UNCH_io

\* dup2 and dup3: the descriptor is set; a handle it stood for is not closed.
dup2(f, g) == /\ Calls("dup2") /\ Open(f)
              /\ Table(g, fd[turn][f])
              /\ seen' = [seen EXCEPT ![turn] = @ \ {g}]
              /\ UNCHANGED <<calls, turn, child, nextFd, handles, streams, data, put, got, log, moved>>

\* close of a standard descriptor does nothing.
closeFd(f) == /\ Calls("close") /\ Open(f) /\ f > 2
              /\ Table(f, NoHandle)
              /\ seen' = [seen EXCEPT ![turn] = @ \ {f}]
              /\ UNCHANGED <<calls, turn, child, nextFd, handles, streams, data, put, got, log, moved>>

-----------------------------------------------------------------------------
\* Readiness: only event counters (and sockets) have hasData; descriptor 0 is
\* always readable.
hasData(h) == h # NoHandle /\ handles[h].kind = "event" /\ handles[h].pos > 0

\* poll and select look at the caller's table.  (Descriptor 0 is not kept in
\* seen: the report says nothing about it.)
poll == /\ Calls("poll")
        /\ seen' = [seen EXCEPT ![turn] = {f \in Fd : hasData(fd[turn][f])}]
        /\ UNCH_tables /\ UNCHANGED <<handles, streams, data, put, got, log, moved>>

epollCtl(e, f, add) ==
    /\ Calls("epoll") /\ Open(e) /\ HandleOf(e).kind = "epoll"
    /\ handles' = [handles EXCEPT ![fd[turn][e]].want = IF add THEN @ \cup {f} ELSE @ \ {f}]
    /\ UNCH_tables /\ UNCH_io

\* Mutant: descriptors are looked up in the table of the caller.
epollTableOfCaller(h) == fd[turn]

\* Whoever calls, descriptors are looked up in the table of the process that
\* created the set, and the events are written into that process's memory.
epollTable(h) == fd[h.sys]

epollReady(h) == {f \in h.want : hasData(epollTable(h)[f])}

epollWait(e) ==
    /\ Calls("epoll") /\ Open(e) /\ HandleOf(e).kind = "epoll"
    /\ seen' = [seen EXCEPT ![HandleOf(e).sys] = @ \cup epollReady(HandleOf(e))]
    /\ UNCH_tables /\ UNCHANGED <<handles, streams, data, put, got, log, moved>>

-----------------------------------------------------------------------------
\* fork copies the table; the handles are shared.
fork == /\ Calls("fork") /\ turn = "parent" /\ child = "none"
        /\ child' = "forked"
        /\ fd' = [fd EXCEPT !["child"] = fd["parent"]]
        /\ nextFd' = [nextFd EXCEPT !["child"] = nextFd["parent"]]
        /\ UNCHANGED <<calls, turn, handles>> /\ UNCH_io

\* wait4 runs the child, and goes on when it has exited.
wait4 == /\ turn = "parent" /\ child = "forked" /\ turn' = "child"
         /\ UNCHANGED <<calls, child, fd, nextFd, handles>> /\ UNCH_io

\* The child's table goes with it; no handle is closed.
exit == /\ turn = "child" /\ turn' = "parent" /\ child' = "done"
        /\ fd' = [fd EXCEPT !["child"] = [f \in Fd |-> NoHandle]]
        /\ nextFd' = [nextFd EXCEPT !["child"] = 3]
        /\ seen' = [seen EXCEPT !["child"] = {}]
        /\ UNCHANGED <<calls, handles, streams, data, put, got, log, moved>>

\* One buffer with one byte, or two buffers.
Bytes == {<<b>> : b \in Byte} \cup {<<1, 2>>}

DescNext ==
    \/ \E f \in Fd :
          \/ \E n \in 1 .. 2 : read(f, n)
          \/ \E bytes \in Bytes : write(f, bytes)
          \/ pread(f, 1, 0)
          \/ \E b \in Byte : pwrite(f, <<b>>, 0)
          \/ \E base \in {"set", "cur", "end"} : lseek(f, base)
          \/ \E len \in 0 .. 2 : ftruncate(f, len)
          \/ closeFd(f) \/ epollWait(f)
          \/ \E g \in Target, add \in BOOLEAN : epollCtl(f, g, add)
    \/ \E f \in Source : dup(f) \/ \E g \in Target : dup2(f, g)
    \/ \E acc \in {"rd", "wr", "rdwr"}, app, trunc \in BOOLEAN : open(acc, app, trunc)
    \/ \E kind \in {"event", "epoll"} : newHandle(kind)
    \/ pipe \/ poll \/ fork \/ wait4 \/ exit

DescSpec == DescInit /\ [][DescNext]_descVars

-----------------------------------------------------------------------------
\* Nothing sent through a stream is lost, repeated or reordered, whichever
\* processes and copies of descriptors it is written and read through: what was
\* taken from standard input or a pipe, followed by what is left, is what was
\* put in, and an event counter holds what was added and not taken.
StreamsKeepBytes ==
    /\ \A s \in {"stdin", "stdout", "pipe"} : put[s] = got[s] \o streams[s]
    /\ \A i \in DOMAIN handles : handles[i].kind = "event" =>
          Len(put["event"]) = Len(got["event"]) + handles[i].pos

\* A file written by appending handles only, however many and in whichever
\* process, holds all that was written, in order; so does a file opened once
\* and written through copies of the descriptor made by dup, dup2 and fork,
\* with pwrite in between, as long as nothing else moves the shared position.
FileKeepsWrites == Sequential => data = log

\* A call changes the table of the process that makes it, and no descriptor in
\* use but the one that close or dup2 names: a number that allocFd hands out
\* was free, also after dup2 has put a handle at or beyond nextFd.
TablesStayApart ==
    [][/\ \A p \in Proc \ {turn} : fd'[p] # fd[p] => child = "none" /\ child' = "forked"
       /\ \A f \in Fd : fd[turn][f] \notin {NoHandle, fd'[turn][f]} =>
             exit \/ closeFd(f) \/ \E g \in Fd : dup2(g, f)]_descVars

\* A descriptor that poll, select or epoll_wait has reported readable to a
\* process stays readable until somebody reads it or the process closes or
\* replaces it, although epoll sets remember numbers and not handles.
ReportedIsReadable ==
    \A p \in Proc : \A f \in seen[p] : hasData(fd[p][f])
=============================================================================
