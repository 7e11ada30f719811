------------------------------ MODULE Sockets ------------------------------
(***************************************************************************)
(* The sockets of a guest: the SocketHandle of src/src/network.js, behind  *)
(* it either the HTTP exchanger (BrowserFetchNetwork) or a WebSocket to a  *)
(* gateway (WebSocketTcpNetwork), and the name server that invents         *)
(* addresses (VirtualDNS).  A guest has a datagram socket to ask names     *)
(* with and a stream socket.  It makes one call at a time and is suspended *)
(* in it; the events of the network come whenever they like.               *)
(*                                                                         *)
(* Bytes are the numbers of their arrival, or for what is sent the number  *)
(* of the call, so that a loss, a repetition or a change of order shows.   *)
(* An address is its last number.                                          *)
(***************************************************************************)
EXTENDS Integers, Sequences, SequencesExt

CONSTANTS Host,        \* names the guest looks up
          FirstHost,   \* options.firstHost: the first number given out
          Octet,       \* numbers a byte can hold: 0 .. Octet - 1
          Preset,      \* configurations: functions from some hosts to numbers
          MaxArrive,   \* bound: bytes that arrive
          MaxSend,     \* bound: calls of send
          MaxRecv,     \* bound: the largest count asked for
          Nothing

ASSUME BoundAssumption == MaxArrive \in Nat /\ MaxSend \in Nat /\ MaxRecv \in Nat

VARIABLES net,         \* "fetch" or "tcp": which network the system has
          dns,         \* VirtualDNS: next, hostToIp, ipToHost
          answers,     \* recvQueue of the datagram socket
          known,       \* what the guest was told: the number of a host's address
          sock,        \* the stream socket
          ws,          \* the WebSocket and its queue
          call,        \* the call the guest is suspended in, or "none"
          asked,       \* the host the guest means to reach
          arrived, got,        \* bytes from the network; bytes given to the guest
          sent, out            \* calls of send; those whose data left, in order

sockVars == <<net, dns, answers, known, sock, ws, call, asked, arrived, got, sent, out>>

SockInit ==
    /\ net \in {"fetch", "tcp"}
    /\ \E hosts \in Preset :
          dns = [next |-> FirstHost, hostToIp |-> hosts,
                 ipToHost |-> [i \in {hosts[h] : h \in DOMAIN hosts} |->
                                  CHOOSE h \in DOMAIN hosts : hosts[h] = i]]
    /\ answers = <<>> /\ known = [h \in Host |-> Nothing] /\ asked = Nothing
    /\ sock = [peer |-> Nothing, host |-> Nothing, conn |-> FALSE, closed |-> FALSE,
               recvQueue |-> <<>>, waiter |-> 0, httpBuffer |-> <<>>]
    /\ ws = [state |-> "none", queue |-> <<>>, closed |-> FALSE, waiter |-> 0]
    /\ call = "none" /\ arrived = 0 /\ got = <<>> /\ sent = 0 /\ out = <<>>

Idle == call = "none"

-----------------------------------------------------------------------------
\* Mutant: the number is not used up.
resolveStays(h) ==
    [dns EXCEPT !.hostToIp = [g \in DOMAIN dns.hostToIp \cup {h} |->
                                 IF g \in DOMAIN dns.hostToIp THEN dns.hostToIp[g] ELSE dns.next],
                !.ipToHost = [i \in DOMAIN dns.ipToHost \cup {dns.next} |->
                                 IF i = dns.next THEN h ELSE dns.ipToHost[i]]]

\* VirtualDNS.resolve: a host that is not known gets the next number.
resolve(h) ==
    IF h \in DOMAIN dns.hostToIp THEN dns
    ELSE [next     |-> dns.next + 1,
          hostToIp |-> [g \in DOMAIN dns.hostToIp \cup {h} |->
                           IF g = h THEN dns.next ELSE dns.hostToIp[g]],
          ipToHost |-> [i \in DOMAIN dns.ipToHost \cup {dns.next} |->
                           IF i = dns.next THEN h ELSE dns.ipToHost[i]]]

\* VirtualDNS.reverse: an address that was not given out stands for itself.
reverse(ip) == IF ip \in DOMAIN dns.ipToHost THEN dns.ipToHost[ip] ELSE ip

\* VirtualDNS.buildResponse: the answer has room for a byte of the number.
buildResponse(h) == [host |-> h, ip |-> resolve(h).hostToIp[h] % Octet]

\* sendto to port 53.  Bound: two questions before the guest reads.
sendto(h) ==
    /\ Idle /\ Len(answers) < 2
    /\ dns' = resolve(h) /\ answers' = Append(answers, buildResponse(h))
    /\ UNCHANGED <<net, known, sock, ws, call, asked, arrived, got, sent, out>>

\* recvfrom: all datagrams in one, of which the guest reads the first.
recvfrom ==
    /\ Idle /\ answers # <<>>
    /\ known' = [known EXCEPT ![Head(answers).host] = Head(answers).ip]
    /\ answers' = <<>>
    /\ UNCHANGED <<net, dns, sock, ws, call, asked, arrived, got, sent, out>>

-----------------------------------------------------------------------------
\* SocketHandle.connect: the peer is set before the connection is there.  A
\* socket may be connected again, also after shutdown; until the new connection
\* is open the old one stays in conn and receives.
connect(h) ==
    /\ Idle /\ known[h] # Nothing /\ asked' = h
    /\ \/ net = "tcp" /\ call' = "connect"
          /\ sock' = [sock EXCEPT !.peer = known[h], !.host = reverse(known[h])]
       \/ net = "fetch" /\ sock' = [sock EXCEPT !.peer = known[h]] /\ UNCHANGED call
    /\ UNCHANGED <<net, dns, answers, known, ws, arrived, got, sent, out>>

\* onopen: conn is the new connection.  What an earlier one had queued, or still
\* receives, is out of reach: arrived and got start again with the new one.
onopen ==
    /\ call = "connect" /\ call' = "none"
    /\ ws' = [state |-> "open", queue |-> <<>>, closed |-> FALSE, waiter |-> 0]
    /\ sock' = [sock EXCEPT !.conn = TRUE] /\ arrived' = 0 /\ got' = <<>>
    /\ UNCHANGED <<net, dns, answers, known, asked, sent, out>>

\* onerror before the connection is open: connect fails, an earlier one stays.
onerror ==
    /\ call = "connect" /\ call' = "none"
    /\ UNCHANGED <<net, dns, answers, known, sock, ws, asked, arrived, got, sent, out>>

\* The first n bytes of the chunks, and the chunks without them.
First(n, s) == SubSeq(s, 1, IF n < Len(s) THEN n ELSE Len(s))
After(n, s) == SubSeq(s, n + 1, Len(s))

\* Mutant: the chunk that is used in part is dropped.
takeBytesWhole(queue, n) ==
    [out |-> First(n, FlattenSeq(queue)),
     queue |-> LET cut == CHOOSE k \in 1 .. Len(queue) :
                       /\ Len(FlattenSeq(SubSeq(queue, 1, k - 1))) < n
                       /\ k = Len(queue) \/ Len(FlattenSeq(SubSeq(queue, 1, k))) >= n
               IN  After(cut, queue)]

\* takeBytes: whole chunks as long as they fit, then a part of the next.
takeBytes(queue, n) ==
    LET Upto(k) == Len(FlattenSeq(SubSeq(queue, 1, k)))
        cut  == CHOOSE k \in 1 .. Len(queue) : Upto(k - 1) < n /\ (k = Len(queue) \/ Upto(k) >= n)
        rest == After(n - Upto(cut - 1), queue[cut])
    IN  [out |-> First(n, FlattenSeq(queue)),
         queue |-> (IF rest = <<>> THEN <<>> ELSE <<rest>>) \o After(cut, queue)]

NewBytes(n) == [i \in 1 .. n |-> arrived + i]

\* onmessage: to the receiver, whose rest goes back to the head, or to the queue.
onmessage(n) ==
    /\ ws.state = "open" /\ arrived + n <= MaxArrive
    /\ arrived' = arrived + n
    /\ \/ /\ ws.waiter > 0
          /\ got' = got \o First(ws.waiter, NewBytes(n))
          /\ ws' = [ws EXCEPT !.waiter = 0, !.queue =
                       IF n > ws.waiter THEN <<After(ws.waiter, NewBytes(n))>> \o @ ELSE @]
          /\ call' = "none"
       \/ /\ ws.waiter = 0
          /\ ws' = [ws EXCEPT !.queue = Append(@, NewBytes(n))]
          /\ UNCHANGED <<got, call>>
    /\ UNCHANGED <<net, dns, answers, known, sock, asked, sent, out>>

\* Mutant: the end of the connection is noted, whoever waits is not told.
oncloseSilent ==
    /\ ws.state \in {"open", "closing"}
    /\ ws' = [ws EXCEPT !.state = "closed", !.closed = TRUE]
    /\ UNCHANGED <<net, dns, answers, known, sock, call, asked, arrived, got, sent, out>>

\* onclose: whoever waits gets nothing.
onclose ==
    /\ ws.state \in {"open", "closing"}
    /\ ws' = [ws EXCEPT !.state = "closed", !.closed = TRUE, !.waiter = 0]
    /\ call' = IF ws.waiter > 0 THEN "none" ELSE call
    /\ UNCHANGED <<net, dns, answers, known, sock, asked, arrived, got, sent, out>>

-----------------------------------------------------------------------------
\* SocketHandle.recv: what is queued, the connection's data, or a wait; after the
\* end it returns nothing and changes nothing.
recv(n) ==
    /\ Idle
    /\ \/ /\ sock.recvQueue # <<>>
          /\ LET t == takeBytes(sock.recvQueue, n)
             IN  got' = got \o t.out /\ sock' = [sock EXCEPT !.recvQueue = t.queue]
          /\ UNCHANGED <<ws, call>>
       \/ /\ sock.recvQueue = <<>> /\ sock.conn /\ ws.queue # <<>>
          /\ LET t == takeBytes(ws.queue, n)
             IN  got' = got \o t.out /\ ws' = [ws EXCEPT !.queue = t.queue]
          /\ UNCHANGED <<sock, call>>
       \/ /\ sock.recvQueue = <<>> /\ sock.conn /\ ws.queue = <<>> /\ ~ws.closed
          /\ ws' = [ws EXCEPT !.waiter = n] /\ call' = "recv"
          /\ UNCHANGED <<sock, got>>
       \/ /\ sock.recvQueue = <<>> /\ ~sock.conn /\ ~sock.closed
          /\ sock' = [sock EXCEPT !.waiter = n] /\ call' = "recv"
          /\ UNCHANGED <<ws, got>>
    /\ UNCHANGED <<net, dns, answers, known, asked, arrived, sent, out>>

\* The buffer has a blank line in it: the pieces that have one are negative.
Complete(buffer) == \E i \in DOMAIN buffer : buffer[i] < 0

\* SocketHandle.send of a connected socket.  blank: the data ends the headers.
\* Without a connection and without the exchanger the data is gone.
send(blank) ==
    LET piece  == IF blank THEN -(sent + 1) ELSE sent + 1
        buffer == Append(sock.httpBuffer, piece)
    IN  /\ Idle /\ sock.peer # Nothing /\ sent < MaxSend
        /\ sent' = sent + 1
        /\ \/ /\ sock.conn
              /\ out' = IF ws.state = "open" THEN Append(out, piece) ELSE out
              /\ UNCHANGED <<sock, call>>
           \/ /\ ~sock.conn /\ net = "fetch"
              /\ sock' = [sock EXCEPT !.httpBuffer = buffer]
              /\ call' = IF Complete(buffer) THEN "send" ELSE call
              /\ UNCHANGED out
           \/ ~sock.conn /\ net = "tcp" /\ UNCHANGED <<sock, call, out>>
        /\ UNCHANGED <<net, dns, answers, known, ws, asked, arrived, got>>

\* The fetch ends.  ok: the buffer is emptied and a response of n bytes is
\* queued; otherwise send fails and the buffer stays.
exchangeHttp(ok, n) ==
    /\ call = "send" /\ arrived + n <= MaxArrive
    /\ call' = "none"
    /\ \/ /\ ok
          /\ sock' = [sock EXCEPT !.httpBuffer = <<>>, !.recvQueue = Append(@, NewBytes(n))]
          /\ out' = out \o sock.httpBuffer /\ arrived' = arrived + n
       \/ ~ok /\ UNCHANGED <<sock, out, arrived>>
    /\ UNCHANGED <<net, dns, answers, known, ws, asked, got, sent>>

\* shutdown, or close of the descriptor.
closeSocket ==
    /\ Idle
    /\ sock' = [sock EXCEPT !.closed = TRUE]
    /\ ws' = IF sock.conn THEN [ws EXCEPT !.closed = TRUE, !.state = IF @ = "open" THEN "closing" ELSE @]
             ELSE ws
    /\ UNCHANGED <<net, dns, answers, known, call, asked, arrived, got, sent, out>>

SockNext ==
    \/ \E h \in Host : sendto(h) \/ connect(h)
    \/ recvfrom \/ onopen \/ onerror \/ onclose \/ closeSocket
    \/ \E n \in 1 .. MaxRecv : onmessage(n) \/ recv(n)
    \/ \E blank \in BOOLEAN : send(blank)
    \/ \E ok \in BOOLEAN, n \in 1 .. MaxRecv : exchangeHttp(ok, n)

SockSpec == SockInit /\ [][SockNext]_sockVars

-----------------------------------------------------------------------------
\* The number of the call of send that a piece is from.
Ordinal(piece) == IF piece < 0 THEN -piece ELSE piece

\* The guest reads the bytes of its present connection in the order they arrived,
\* none lost and none twice, however chunks and counts fall, and whatever further
\* connects of the socket fail meanwhile; and what it gave to the HTTP exchanger
\* is fetched once, in order, or still in the buffer, failed fetches included.
SocketKeepsBytes ==
    /\ got \o FlattenSeq(sock.recvQueue) \o FlattenSeq(ws.queue) = [i \in 1 .. arrived |-> i]
    /\ net = "fetch" =>
          [i \in DOMAIN (out \o sock.httpBuffer) |-> Ordinal((out \o sock.httpBuffer)[i])]
             = [i \in 1 .. sent |-> i]

\* A guest is suspended in recv only while nothing is queued for it and what it
\* reads from, the connection or else the socket, has not ended: no message, no
\* end of a connection and no response that came before or during the call has
\* passed it by, connects that replaced the connection included.
ReceiverNotForgotten ==
    call = "recv" =>
        /\ sock.recvQueue = <<>>
        /\ sock.conn => ws.queue = <<>> /\ ~ws.closed /\ ws.waiter > 0
        /\ ~sock.conn => ~sock.closed

\* The host a connection or a request is made to: openTcp has the name of the
\* call of connect, exchangeHttp looks the address up when the request is whole.
Reached == IF net = "tcp" THEN sock.host ELSE reverse(sock.peer)

\* The host reached is the one whose name the guest looked up: name to invented
\* address, a byte of it in the answer, and address back to name.
\* It is not when the number needs more than a byte (known deviation).
NameRoundTrip == asked # Nothing => Reached = asked

\* A name whose number fits in the byte of an answer is reached, whatever other
\* lookups come in between, those included whose numbers no longer fit and are
\* answered with the address of somebody else.
ReachesNamedHost == asked # Nothing /\ dns.hostToIp[asked] < Octet => Reached = asked
=============================================================================
