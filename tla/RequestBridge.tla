--------------------------- MODULE RequestBridge ---------------------------
(***************************************************************************)
(* The service worker of src/sw.js, which passes requests for virtual      *)
(* ports on to the windows of the page and their answers back, by numbers. *)
(* What the windows do is outside of the repository: one that is sent a    *)
(* request answers it once, at any time later, or never.                   *)
(*                                                                         *)
(* The browser may stop a worker that has no request left to answer, and   *)
(* starts it again, with its variables as at first, when it is needed.     *)
(***************************************************************************)
EXTENDS Integers, FiniteSets

CONSTANTS Fetch,      \* requests that are made
          Window,     \* windows of the page
          MaxLife     \* bound: times the worker is started

VARIABLES fetch,      \* fetch[f]: state, id, clients, the life it was made in, answer
          nextId, pending,     \* the variables of the worker
          life,       \* how often the worker was started
          windows,    \* windows that are open
          posted,     \* messages on their way to a window
          replies     \* answers on their way to the worker

bridgeVars == <<fetch, nextId, pending, life, windows, posted, replies>>

NoAnswer == "none"
Error    == {"503", "504", "failed"}

ASSUME AnswerAssumption == Fetch \cap (Error \cup {NoAnswer}) = {}

BridgeInit ==
    /\ fetch = [f \in Fetch |-> [state |-> "new", id |-> 0, clients |-> {}, life |-> 0, answer |-> NoAnswer]]
    /\ nextId = 1 /\ pending = {} /\ life = 1
    /\ windows \in SUBSET Window /\ posted = {} /\ replies = {}

Becoming(f, s)  == [fetch EXCEPT ![f].state = s]
Answered(f, a)  == [fetch EXCEPT ![f].state = "done", ![f].answer = a]

\* The fetch event; the worker asks for its clients.
fetchEvent(f) ==
    /\ fetch[f].state = "new"
    /\ fetch' = [fetch EXCEPT ![f].state = "matching", ![f].life = life]
    /\ UNCHANGED <<nextId, pending, life, windows, posted, replies>>

\* Mutant: the number is not counted up.
routeToClientsSame(f) ==
    /\ fetch[f].state = "matching"
    /\ fetch' = IF windows = {} THEN Answered(f, "503")
                ELSE [fetch EXCEPT ![f].state = "reading", ![f].id = nextId, ![f].clients = windows]
    /\ UNCHANGED <<nextId, pending, life, windows, posted, replies>>

\* matchAll has ended: 503 without a client, else a number and the body is read.
routeToClients(f) ==
    /\ fetch[f].state = "matching"
    /\ \/ windows = {} /\ fetch' = Answered(f, "503") /\ UNCHANGED nextId
       \/ /\ windows # {}
          /\ fetch' = [fetch EXCEPT ![f].state = "reading", ![f].id = nextId, ![f].clients = windows]
          /\ nextId' = nextId + 1
    /\ UNCHANGED <<pending, life, windows, posted, replies>>

\* The body has been read: the request goes to every client.  The body's buffer
\* is transferred with the first message, so that the second throws and the
\* request fails.
postToClients(f) ==
    /\ fetch[f].state = "reading"
    /\ pending' = pending \cup {fetch[f].id}
    /\ \E first \in fetch[f].clients :
          posted' = posted \cup [id : {fetch[f].id}, window : {first}, for : {f}]
    /\ fetch' = IF Cardinality(fetch[f].clients) > 1 THEN Answered(f, "failed") ELSE Becoming(f, "waiting")
    /\ UNCHANGED <<nextId, life, windows, replies>>

\* A window answers.
windowAnswers(m) ==
    /\ m \in posted /\ m.window \in windows
    /\ posted' = posted \ {m} /\ replies' = replies \cup {[id |-> m.id, for |-> m.for]}
    /\ UNCHANGED <<fetch, nextId, pending, life, windows>>

\* The message event: the first answer with a pending number resolves its
\* promise, which nobody may be waiting for any more.
message(m) ==
    /\ m \in replies /\ replies' = replies \ {m}
    /\ \/ /\ m.id \in pending /\ pending' = pending \ {m.id}
          /\ fetch' = [f \in Fetch |->
                IF fetch[f].state = "waiting" /\ fetch[f].id = m.id
                THEN [fetch[f] EXCEPT !.state = "done", !.answer = m.for] ELSE fetch[f]]
       \/ m.id \notin pending /\ UNCHANGED <<fetch, pending>>
    /\ UNCHANGED <<nextId, life, windows, posted>>

\* Mutant: the timer is only set when a window has gone.
timeoutGone(f) ==
    /\ fetch[f].state = "waiting" /\ windows \cap fetch[f].clients = {}
    /\ fetch' = Answered(f, "504")
    /\ UNCHANGED <<nextId, pending, life, windows, posted, replies>>

\* The 30 s are over; the number stays pending.
timeout504(f) ==
    /\ fetch[f].state = "waiting"
    /\ fetch' = Answered(f, "504")
    /\ UNCHANGED <<nextId, pending, life, windows, posted, replies>>

\* A window is opened or closed.
windowChanges(w) ==
    /\ windows' = IF w \in windows THEN windows \ {w} ELSE windows \cup {w}
    /\ UNCHANGED <<fetch, nextId, pending, life, posted, replies>>

\* The browser stops the idle worker.
workerStops ==
    /\ life < MaxLife /\ \A f \in Fetch : fetch[f].state \in {"new", "done"}
    /\ life' = life + 1 /\ nextId' = 1 /\ pending' = {}
    /\ UNCHANGED <<fetch, windows, posted, replies>>

BridgeNext ==
    \/ \E f \in Fetch : fetchEvent(f) \/ routeToClients(f) \/ postToClients(f) \/ timeout504(f)
    \/ \E m \in posted : windowAnswers(m)
    \/ \E m \in replies : message(m)
    \/ \E w \in Window : windowChanges(w)
    \/ workerStops

BridgeSpec == BridgeInit /\ [][BridgeNext]_bridgeVars

\* What the worker has begun it goes on with; its timers fire.
WorkerStep(f) == routeToClients(f) \/ postToClients(f) \/ timeout504(f)

-----------------------------------------------------------------------------
\* A request is given the answer that was made for it, whatever requests are
\* open together, however late answers are and whatever has timed out; only an
\* answer to a request of an earlier life of the worker, whose numbers are used
\* again, can be taken for another.
OwnReply ==
    \A f, g \in Fetch : fetch[f].answer = g => g = f \/ fetch[g].life < fetch[f].life

\* Every request is answered, with an answer or an error, though windows close
\* and do not answer.
EveryFetchAnswered == \A f \in Fetch : fetch[f].state = "matching" ~> fetch[f].state = "done"
=============================================================================
