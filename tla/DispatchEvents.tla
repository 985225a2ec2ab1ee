--------------------------- MODULE DispatchEvents ---------------------------
(***************************************************************************)
(* The event stream of one dispatch run: EventEmitter of                   *)
(* agent/dispatch/events.py, the registry entry that serve.py keeps for a  *)
(* live run, and the _dispatch_sse handlers of its clients.                *)
(*                                                                         *)
(* Events are numbered in the order of emit().  emit() holds the lock      *)
(* while it appends the line and fans out; replay() reads the file without *)
(* the lock, so it may meet a line of which only a part is written, which  *)
(* it skips.                                                               *)
(***************************************************************************)
EXTENDS Naturals, Sequences, FiniteSets

CONSTANTS Client,
          MaxEvents,   \* bound on the events of the run
          QueueMax     \* maxsize of a subscriber queue (512 in the code)

ASSUME EventsAssumption == MaxEvents \in Nat /\ QueueMax \in Nat \ {0}

VARIABLES
    written,     \* complete lines of events.jsonl
    emitting,    \* emit() holds the lock, its line partly written
    run,         \* "live", "over" (no more emits), "gone" (registry entry popped)
    at,          \* where the handler of each client is
    subscribed,  \* _subscribers
    queue,       \* their queues
    got,         \* what the client received
    caughtUp,    \* events on file when it read the file ...
    joined,      \* ... and when it subscribed
    dropped      \* events that met its queue full

fileVars == <<written, emitting, run>>
streamVars == <<fileVars, at, subscribed, queue, got, caughtUp, joined, dropped>>

Places == {"start", "replayed", "found", "streaming", "closed"}

StreamTypeOK == /\ written \in 0..MaxEvents
                /\ emitting \in BOOLEAN
                /\ run \in {"live", "over", "gone"}
                /\ at \in [Client -> Places]
                /\ subscribed \subseteq Client
                /\ queue \in [Client -> Seq(1..MaxEvents)]
                /\ \A c \in Client : Len(queue[c]) <= QueueMax
                /\ got \in [Client -> Seq(1..MaxEvents)]
                /\ caughtUp \in [Client -> 0..MaxEvents]
                /\ joined \in [Client -> 0..MaxEvents]
                /\ dropped \in [Client -> SUBSET (1..MaxEvents)]

StreamInit == /\ written = 0
              /\ emitting = FALSE
              /\ run = "live"
              /\ at = [c \in Client |-> "start"]
              /\ subscribed = {}
              /\ queue = [c \in Client |-> <<>>]
              /\ got = [c \in Client |-> <<>>]
              /\ caughtUp = [c \in Client |-> 0]
              /\ joined = [c \in Client |-> 0]
              /\ dropped = [c \in Client |-> {}]

-----------------------------------------------------------------------------
(* The run.                                                                *)

EmitBegins == /\ run = "live"
              /\ ~emitting
              /\ written < MaxEvents
              /\ emitting' = TRUE
              /\ UNCHANGED <<written, run, at, subscribed, queue, got, caughtUp, joined, dropped>>

Full(c) == Len(queue[c]) = QueueMax

\* put_nowait for every subscriber; queue.Full is suppressed.
FanOut(event) ==
    /\ queue' = [c \in Client |-> IF c \in subscribed /\ ~Full(c)
                                  THEN Append(queue[c], event) ELSE queue[c]]
    /\ dropped' = [c \in Client |-> IF c \in subscribed /\ Full(c)
                                    THEN dropped[c] \cup {event} ELSE dropped[c]]

\* Faulty: the suppression is around the loop, so the first full queue ends it.
EmitStopsAtFull ==
    /\ emitting
    /\ emitting' = FALSE
    /\ written' = written + 1
    /\ IF \E c \in subscribed : Full(c)
       THEN /\ dropped' = [c \in Client |-> IF c \in subscribed /\ Full(c)
                                            THEN dropped[c] \cup {written'} ELSE dropped[c]]
            /\ UNCHANGED queue
       ELSE FanOut(written')
    /\ UNCHANGED <<run, at, subscribed, got, caughtUp, joined>>

EmitEnds == /\ emitting
            /\ emitting' = FALSE
            /\ written' = written + 1
            /\ FanOut(written')
            /\ UNCHANGED <<run, at, subscribed, got, caughtUp, joined>>

\* run() returns or raises, ...
RunEnds == /\ run = "live"
           /\ ~emitting
           /\ run' = "over"
           /\ UNCHANGED <<written, emitting, at, subscribed, queue, got, caughtUp, joined, dropped>>

\* ... and _bg pops the emitter from the registry; nobody tells the subscribers.
Unregister == /\ run = "over"
              /\ run' = "gone"
              /\ UNCHANGED <<written, emitting, at, subscribed, queue, got, caughtUp, joined, dropped>>

-----------------------------------------------------------------------------
(* _dispatch_sse of client c.                                              *)

OnFile == [i \in 1..written |-> i]

\* replay() and its write loop.
Replay(c) == /\ at[c] = "start"
             /\ at' = [at EXCEPT ![c] = "replayed"]
             /\ got' = [got EXCEPT ![c] = OnFile]
             /\ caughtUp' = [caughtUp EXCEPT ![c] = written]
             /\ UNCHANGED <<fileVars, subscribed, queue, joined, dropped>>

\* _dispatch_emitters.get(dag_id): without a live run the response ends.
Lookup(c) == /\ at[c] = "replayed"
             /\ at' = [at EXCEPT ![c] = IF run = "gone" THEN "closed" ELSE "found"]
             /\ UNCHANGED <<fileVars, subscribed, queue, got, caughtUp, joined, dropped>>

\* Faulty: the new queue starts with the events already on file.
SubscribeWithPast(c) ==
    /\ at[c] = "found"
    /\ ~emitting
    /\ at' = [at EXCEPT ![c] = "streaming"]
    /\ subscribed' = subscribed \cup {c}
    /\ queue' = [queue EXCEPT ![c] = [e \in {f \in 1..QueueMax : f <= written} |-> e]]
    /\ joined' = [joined EXCEPT ![c] = written]
    /\ UNCHANGED <<fileVars, got, caughtUp, dropped>>

\* subscribe() takes the emitter's lock.
Subscribe(c) == /\ at[c] = "found"
                /\ ~emitting
                /\ at' = [at EXCEPT ![c] = "streaming"]
                /\ subscribed' = subscribed \cup {c}
                /\ joined' = [joined EXCEPT ![c] = written]
                /\ UNCHANGED <<fileVars, queue, got, caughtUp, dropped>>

\* Faulty: the handler drains the queue and writes the last event only.
DeliverLatest(c) ==
    /\ at[c] = "streaming"
    /\ queue[c] # <<>>
    /\ queue' = [queue EXCEPT ![c] = <<>>]
    /\ got' = [got EXCEPT ![c] = Append(@, queue[c][Len(queue[c])])]
    /\ UNCHANGED <<fileVars, at, subscribed, caughtUp, joined, dropped>>

\* q.get and the write to the socket.
Deliver(c) == /\ at[c] = "streaming"
              /\ queue[c] # <<>>
              /\ queue' = [queue EXCEPT ![c] = Tail(@)]
              /\ got' = [got EXCEPT ![c] = Append(@, Head(queue[c]))]
              /\ UNCHANGED <<fileVars, at, subscribed, caughtUp, joined, dropped>>

\* A write fails: while replaying, the handler returns; while streaming, it
\* unsubscribes, taking the lock.  What was taken from the queue is lost.
Disconnect(c) ==
    /\ \/ at[c] = "replayed" /\ UNCHANGED <<subscribed, queue>>
       \/ /\ at[c] = "streaming"
          /\ ~emitting
          /\ subscribed' = subscribed \ {c}
          /\ queue' = [queue EXCEPT ![c] = <<>>]
    /\ at' = [at EXCEPT ![c] = "closed"]
    /\ UNCHANGED <<fileVars, got, caughtUp, joined, dropped>>

-----------------------------------------------------------------------------
EmitterStep == EmitBegins \/ EmitEnds \/ RunEnds \/ Unregister

Handler(c) == Replay(c) \/ Lookup(c) \/ Subscribe(c) \/ Deliver(c)

StreamNext == EmitterStep \/ \E c \in Client : Handler(c) \/ Disconnect(c)

StreamSpec == StreamInit /\ [][StreamNext]_streamVars

\* An emit that holds the lock finishes, and handlers run; a client need not
\* disconnect and a run need not end.
FairStreamSpec == /\ StreamSpec
                  /\ WF_streamVars(EmitEnds)
                  /\ \A c \in Client : WF_streamVars(Handler(c))

-----------------------------------------------------------------------------
Elements(s) == {s[i] : i \in 1..Len(s)}

\* A client sees the events in the order of emit(), each at most once: the
\* replayed ones and the live ones do not overlap.
StreamInOrder ==
    \A c \in Client : LET stream == got[c] \o queue[c]
                      IN \A i, j \in 1..Len(stream) : i < j => stream[i] < stream[j]

\* What a streaming client misses was emitted between its replay and its
\* subscription, or met its own full queue: another client never costs it
\* an event.
LossAccounted ==
    \A c \in Client : at[c] = "streaming" =>
        1..written = Elements(got[c] \o queue[c]) \cup (caughtUp[c] + 1 .. joined[c]) \cup dropped[c]

\* A connected client gets everything that is queued for it.
QueuedIsDelivered ==
    \A c \in Client : \A e \in 1..MaxEvents :
        e \in Elements(queue[c]) ~> (e \in Elements(got[c]) \/ at[c] = "closed")

\* What the handler promises: the persisted events and then the live ones.
\* The code does not keep this: it misses the events LossAccounted counts.
NothingSkipped ==
    \A c \in Client : at[c] = "streaming" /\ dropped[c] = {} =>
        Elements(got[c] \o queue[c]) = 1..written
=============================================================================
