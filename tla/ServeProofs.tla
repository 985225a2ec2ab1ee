------------------------------ MODULE ServeProofs ------------------------------
(***************************************************************************)
(* What the handlers of serve.py keep true, for any number of runs,        *)
(* requests, clients, events, texts, saves and deaths of the server.       *)
(* StreamInv, of DispatchEvents, says of every client what it has received *)
(* and has queued, together its stream; ServiceInv, of DispatchService,    *)
(* adds to the registries that there is one first run.  ServerInv, of      *)
(* AgentServer, has a part for the thread, for the bus, for the savers and *)
(* for the seed of a session.                                              *)
(***************************************************************************)
EXTENDS DispatchService, DispatchEvents, AgentServer, SequenceTheorems, TLAPS

-----------------------------------------------------------------------------
(* The stream of a client.                                                 *)

\* What client c has received, then what it will.
Stream(c) == got[c] \o queue[c]
Rising(s) == \A i, j \in 1..Len(s) : i < j => s[i] < s[j]
UpTo(s, n) == \A i \in 1..Len(s) : s[i] <= n

\* The head of the queue goes to the end of what was received.
LEMMA HeadMoves ==
    ASSUME NEW S, NEW s \in Seq(S), NEW q \in Seq(S), q # <<>>
    PROVE  Append(s, Head(q)) \o Tail(q) = s \o q
<1>1. /\ Head(q) \in S /\ Tail(q) \in Seq(S) /\ Head(q) = q[1]
      /\ Len(q) \in Nat /\ Len(q) > 0
      /\ Len(Tail(q)) = Len(q) - 1
      /\ \A i \in 1..Len(Tail(q)) : Tail(q)[i] = q[i + 1]
  BY HeadTailProperties, EmptySeq, LenProperties
<1>2. PICK a : a = Append(s, Head(q))
  OBVIOUS
<1>3. /\ a \in Seq(S)
      /\ Len(a) = Len(s) + 1 /\ Len(s) \in Nat
      /\ \A i \in 1..Len(s) : a[i] = s[i]
      /\ a[Len(s) + 1] = q[1]
  BY <1>1, <1>2, AppendProperties, LenProperties
<1>4. PICK t : t = Tail(q)
  OBVIOUS
<1>5. /\ a \o t \in Seq(S)
      /\ Len(a \o t) = Len(s) + Len(q)
      /\ \A i \in 1..(Len(s) + Len(q)) : (a \o t)[i] = IF i <= Len(s) + 1 THEN a[i] ELSE t[i - (Len(s) + 1)]
  <2>1. /\ a \o t \in Seq(S)
        /\ Len(a \o t) = Len(a) + Len(t)
        /\ \A i \in 1..(Len(a) + Len(t)) : (a \o t)[i] = IF i <= Len(a) THEN a[i] ELSE t[i - Len(a)]
    BY <1>1, <1>3, <1>4, ConcatProperties
  <2>2. Len(a) = Len(s) + 1 /\ Len(a) + Len(t) = Len(s) + Len(q)
    BY <1>1, <1>3, <1>4
  <2> QED
    BY <2>1, <2>2
<1>6. /\ s \o q \in Seq(S)
      /\ Len(s \o q) = Len(s) + Len(q)
      /\ \A i \in 1..(Len(s) + Len(q)) : (s \o q)[i] = IF i <= Len(s) THEN s[i] ELSE q[i - Len(s)]
  BY ConcatProperties
<1>7. ASSUME NEW i \in 1..(Len(s) + Len(q)) PROVE (a \o t)[i] = (s \o q)[i]
  <2>1. CASE i <= Len(s)
    BY <1>1, <1>3, <1>5, <1>6, <2>1
  <2>2. CASE i = Len(s) + 1
    BY <1>1, <1>3, <1>5, <1>6, <2>2
  <2>3. CASE i > Len(s) + 1
    <3>1. i - (Len(s) + 1) \in 1..Len(t)
      BY <1>1, <1>3, <1>4, <2>3
    <3> QED
      BY <1>1, <1>3, <1>4, <1>5, <1>6, <2>3, <3>1
  <2> QED
    <3>1. PICK m \in Int : m = Len(s)
      BY <1>3
    <3>2. i \in Int
      BY <1>1, <1>3
    <3>3. i <= m \/ i = m + 1 \/ i > m + 1
      BY <3>2
    <3> QED
      BY <2>1, <2>2, <2>3, <3>1, <3>3
<1> QED
  BY <1>2, <1>4, <1>5, <1>6, <1>7, SeqEqual

\* What is put at the end of the queue is at the end of the stream.
LEMMA EndMoves ==
    ASSUME NEW S, NEW s \in Seq(S), NEW q \in Seq(S), NEW e \in S
    PROVE  s \o Append(q, e) = Append(s \o q, e)
<1>1. <<e>> \in Seq(S) /\ s \o q \in Seq(S)
  BY ConcatProperties
<1> QED
  BY <1>1, AppendIsConcat, ConcatAssociative

\* Appending the next number keeps a sequence rising, and adds that number.
LEMMA AppendRises ==
    ASSUME NEW S \in SUBSET Nat, NEW s \in Seq(S), NEW n \in Nat, NEW e \in S, e = n + 1,
           Rising(s), UpTo(s, n)
    PROVE  /\ Rising(Append(s, e)) /\ UpTo(Append(s, e), e)
           /\ Elements(Append(s, e)) = Elements(s) \cup {e}
<1>1. PICK t : t = Append(s, e)
  OBVIOUS
<1>2. PICK m \in Nat : m = Len(s)
  BY LenProperties
<1>3. /\ t \in Seq(S) /\ Len(t) = m + 1
      /\ \A i \in 1..m : t[i] = s[i]
      /\ t[m + 1] = e
  BY <1>1, <1>2, AppendProperties
<1>4. ASSUME NEW i \in 1..m PROVE s[i] \in Nat /\ s[i] < e
  <2>1. s[i] \in S /\ s[i] <= n
    BY <1>2, ElementOfSeq DEF UpTo
  <2>2. s[i] \in Nat
    BY <2>1
  <2> QED
    BY ONLY n \in Nat, e = n + 1, <2>1, <2>2
<1>5. Rising(t)
  BY <1>2, <1>3, <1>4 DEF Rising
<1>6. UpTo(t, e)
  BY <1>2, <1>3, <1>4 DEF UpTo
<1>7. Elements(t) = Elements(s) \cup {e}
  <2>1. 1..(m + 1) = (1..m) \cup {m + 1}
    OBVIOUS
  <2> QED
    BY <1>2, <1>3, <2>1 DEF Elements
<1> QED
  BY <1>1, <1>5, <1>6, <1>7

\* What the handler of a client that is in a certain place has done so far.
ClientInv(c) ==
    /\ c \in subscribed <=> at[c] = "streaming"
    /\ at[c] # "streaming" => queue[c] = <<>>
    /\ at[c] = "start" => got[c] = <<>>
    /\ at[c] \in {"start", "replayed", "found"} => dropped[c] = {}
    /\ at[c] \in {"replayed", "found"} => caughtUp[c] <= written /\ Elements(Stream(c)) = 1..caughtUp[c]
    /\ Rising(Stream(c))
    /\ UpTo(Stream(c), written)
    /\ at[c] = "streaming" =>
          /\ caughtUp[c] <= joined[c] /\ joined[c] <= written
          /\ 1..written = Elements(Stream(c)) \cup (caughtUp[c] + 1 .. joined[c]) \cup dropped[c]

\* The stream invariant: an event that is being emitted is within the bound,
\* and every client's part is right.
StreamInv == /\ StreamTypeOK
             /\ emitting => written < MaxEvents
             /\ \A c \in Client : ClientInv(c)

\* A step that concerns another client, or none, leaves this one's part alone.
LEMMA ClientQuiet ==
    ASSUME NEW c \in Client, ClientInv(c), UNCHANGED written,
           UNCHANGED <<at[c], queue[c], got[c], caughtUp[c], joined[c], dropped[c]>>,
           c \in subscribed' <=> c \in subscribed
    PROVE  ClientInv(c)'
<1>1. Stream(c)' = Stream(c)
  BY DEF Stream
<1>2. PICK s : s = Stream(c)
  OBVIOUS
<1>3. s = Stream(c)'
  BY <1>1, <1>2
<1>4. Rising(s) /\ UpTo(s, written)
  BY <1>2 DEF ClientInv
<1>5. Rising(s)' /\ UpTo(s, written)' /\ Elements(s)' = Elements(s)
  BY <1>4 DEF Rising, UpTo, Elements
<1> QED
  BY <1>2, <1>3, <1>4, <1>5 DEF ClientInv, Rising, UpTo, Elements

\* An event joins the stream of every subscriber with room, and is dropped by
\* the others.
LEMMA EmitKeeps == StreamInv /\ EmitEnds => StreamInv'
<1> SUFFICES ASSUME StreamInv, EmitEnds PROVE StreamInv'
  OBVIOUS
<1>0. /\ written \in 0..(MaxEvents - 1) /\ written' = written + 1 /\ emitting' = FALSE
      /\ UNCHANGED <<run, at, subscribed, got, caughtUp, joined>>
      /\ MaxEvents \in Nat /\ QueueMax \in Nat \ {0}
  BY EventsAssumption DEF StreamInv, StreamTypeOK, EmitEnds
<1>1. PICK e \in 1..MaxEvents : e = written' /\ e = written + 1
  BY <1>0
<1>2. ASSUME NEW c \in Client
      PROVE  /\ queue[c] \in Seq(1..MaxEvents) /\ Len(queue[c]) <= QueueMax /\ got[c] \in Seq(1..MaxEvents)
             /\ queue'[c] = IF c \in subscribed /\ ~Full(c) THEN Append(queue[c], e) ELSE queue[c]
             /\ dropped'[c] = IF c \in subscribed /\ Full(c) THEN dropped[c] \cup {e} ELSE dropped[c]
             /\ dropped[c] \subseteq 1..MaxEvents
  BY <1>1 DEF StreamInv, StreamTypeOK, EmitEnds, FanOut
<1>3. StreamTypeOK'
  <2>1. ASSUME NEW c \in Client
        PROVE  queue'[c] \in Seq(1..MaxEvents) /\ Len(queue'[c]) <= QueueMax /\ dropped'[c] \subseteq 1..MaxEvents
    <3>1. PICK q \in Seq(1..MaxEvents) : q = queue[c]
      BY <1>2
    <3>2. PICK m \in Nat : m = Len(q) /\ m <= QueueMax /\ (Full(c) <=> m = QueueMax)
      BY <1>2, <3>1, LenProperties DEF Full
    <3>3. Append(q, e) \in Seq(1..MaxEvents) /\ Len(Append(q, e)) = m + 1
      BY <1>1, <3>2, AppendProperties
    <3>4. ~Full(c) => m + 1 <= QueueMax
      BY <1>0, <3>2
    <3>5. queue'[c] = q \/ (queue'[c] = Append(q, e) /\ ~Full(c))
      <4>1. queue'[c] = queue[c] \/ (queue'[c] = Append(queue[c], e) /\ ~Full(c))
        BY <1>2
      <4> QED
        BY <3>1, <4>1
    <3>6. dropped'[c] \subseteq 1..MaxEvents
      BY <1>1, <1>2
    <3> QED
      BY <3>2, <3>3, <3>4, <3>5, <3>6
  <2>2. /\ queue' = [c \in Client |-> queue'[c]]
        /\ dropped' = [c \in Client |-> dropped'[c]]
    BY DEF EmitEnds, FanOut
  <2>3. queue' \in [Client -> Seq(1..MaxEvents)] /\ dropped' \in [Client -> SUBSET (1..MaxEvents)]
    BY <2>1, <2>2
  <2> QED
    <3>0. written' \in 0..MaxEvents
      BY <1>1
    <3>1. emitting' \in BOOLEAN /\ UNCHANGED <<run, at, subscribed, got, caughtUp, joined>>
      BY <1>0
    <3>2. \A c \in Client : Len(queue'[c]) <= QueueMax
      BY <2>1
    <3> QED
      BY <2>3, <3>0, <3>1, <3>2 DEF StreamInv, StreamTypeOK
<1>4. ASSUME NEW c \in Client PROVE ClientInv(c)'
  <2>0. ClientInv(c)
    BY DEF StreamInv
  <2>1. PICK s : s = Stream(c)
    OBVIOUS
  <2>2. Rising(s) /\ UpTo(s, written) /\ s \in Seq(1..MaxEvents) /\ 1..MaxEvents \in SUBSET Nat
    <3>1. Rising(s) /\ UpTo(s, written)
      BY <2>0, <2>1 DEF ClientInv
    <3>2. s \in Seq(1..MaxEvents)
      BY <1>2, <2>1, ConcatProperties DEF Stream
    <3> QED
      BY <3>1, <3>2
  <2>3. CASE c \notin subscribed \/ Full(c)
    <3>1. Stream(c)' = s
      BY <1>0, <1>2, <2>1, <2>3 DEF Stream
    <3>2. UpTo(s, e)
      <4>1. \A i \in 1..Len(s) : s[i] \in 1..MaxEvents
        BY <2>2, ElementOfSeq
      <4> QED
        BY <1>0, <1>1, <2>2, <4>1 DEF UpTo
    <3>3. Rising(Stream(c))' /\ UpTo(Stream(c), written)' /\ Elements(Stream(c))' = Elements(s)
      BY <1>1, <2>2, <3>1, <3>2 DEF Rising, UpTo, Elements
    <3>4. CASE c \notin subscribed
      <4>1. /\ queue'[c] = queue[c] /\ dropped'[c] = dropped[c] /\ at[c] # "streaming"
            /\ UNCHANGED <<at, subscribed, got, caughtUp, joined>>
        BY <1>0, <1>2, <2>0, <3>4 DEF ClientInv
      <4>2. caughtUp[c] \in Nat /\ written \in Nat
        BY <1>0 DEF StreamInv, StreamTypeOK
      <4> QED
        BY <1>0, <2>0, <2>1, <3>3, <3>4, <4>1, <4>2 DEF ClientInv
    <3>5. CASE c \in subscribed
      <4>1. dropped'[c] = dropped[c] \cup {e} /\ at[c] = "streaming" /\ queue'[c] = queue[c]
        BY <1>2, <2>0, <2>3, <3>5 DEF ClientInv
      <4>2. 1..written = Elements(s) \cup (caughtUp[c] + 1 .. joined[c]) \cup dropped[c]
        BY <2>0, <2>1, <4>1 DEF ClientInv
      <4>3. 1..e = (1..written) \cup {e}
        BY <1>0, <1>1
      <4>4. caughtUp[c] <= joined[c] /\ joined[c] <= e
        BY <1>0, <1>1, <2>0, <4>1 DEF ClientInv, StreamInv, StreamTypeOK
      <4> QED
        BY <1>0, <1>1, <3>3, <3>5, <4>1, <4>2, <4>3, <4>4 DEF ClientInv
    <3> QED
      BY <3>4, <3>5
  <2>4. CASE c \in subscribed /\ ~Full(c)
    <3>1. queue'[c] = Append(queue[c], e) /\ dropped'[c] = dropped[c] /\ at[c] = "streaming"
      BY <1>2, <2>0, <2>4 DEF ClientInv
    <3>2. Stream(c)' = Append(s, e)
      <4>1. Stream(c)' = got[c] \o Append(queue[c], e)
        BY <1>0, <3>1 DEF Stream
      <4> QED
        <5>1. PICK g, q : g = got[c] /\ q = queue[c]
          OBVIOUS
        <5>2. g \in Seq(1..MaxEvents) /\ q \in Seq(1..MaxEvents)
          BY <1>2, <5>1
        <5>3. g \o Append(q, e) = Append(g \o q, e)
          BY <1>1, <5>2, EndMoves
        <5> QED
          BY <2>1, <4>1, <5>1, <5>3 DEF Stream
    <3>3. Rising(Append(s, e)) /\ UpTo(Append(s, e), e) /\ Elements(Append(s, e)) = Elements(s) \cup {e}
      BY <1>0, <1>1, <2>2, AppendRises
    <3>4. Rising(Stream(c))' /\ UpTo(Stream(c), written)' /\ Elements(Stream(c))' = Elements(s) \cup {e}
      BY <1>1, <3>2, <3>3 DEF Rising, UpTo, Elements
    <3>5. 1..written = Elements(s) \cup (caughtUp[c] + 1 .. joined[c]) \cup dropped[c]
      BY <2>0, <2>1, <3>1 DEF ClientInv
    <3>6. 1..e = (1..written) \cup {e}
      BY <1>0, <1>1
    <3>7. caughtUp[c] <= joined[c] /\ joined[c] <= e
      BY <1>0, <1>1, <2>0, <3>1 DEF ClientInv, StreamInv, StreamTypeOK
    <3> QED
      BY <1>0, <1>1, <2>4, <3>1, <3>4, <3>5, <3>6, <3>7 DEF ClientInv
  <2> QED
    BY <2>3, <2>4
<1> QED
  BY <1>0, <1>3, <1>4 DEF StreamInv

\* The steps of a client's handler, whose shared effect is on its own part only.
LEMMA HandlerKeeps ==
    ASSUME StreamInv, StreamTypeOK', NEW c \in Client, UNCHANGED <<written, emitting>>,
           \A d \in Client \ {c} : /\ UNCHANGED <<at[d], queue[d], got[d], caughtUp[d], joined[d], dropped[d]>>
                                   /\ d \in subscribed' <=> d \in subscribed,
           ClientInv(c)'
    PROVE  StreamInv'
<1>1. ASSUME NEW d \in Client \ {c} PROVE ClientInv(d)'
  <2>1. ClientInv(d)
    BY DEF StreamInv
  <2> QED
    BY <2>1, ClientQuiet
<1> QED
  BY <1>1 DEF StreamInv

\* The replay receives every event written so far.
LEMMA ReplayKeeps == ASSUME StreamInv, NEW c \in Client, Replay(c) PROVE StreamInv'
<1>0. /\ written \in 0..MaxEvents
      /\ at[c] = "start" /\ queue[c] = <<>> /\ dropped[c] = {} /\ c \notin subscribed
      /\ queue \in [Client -> Seq(1..MaxEvents)]
  BY DEF StreamInv, StreamTypeOK, ClientInv, Replay
<1>1. PICK n \in 0..MaxEvents : n = written
  BY <1>0
<1>2. PICK s : s = OnFile
  OBVIOUS
<1>3. /\ s \in Seq(1..MaxEvents) /\ Len(s) = n
      /\ \A i \in 1..n : s[i] = i
  <2>1. n \in Nat /\ MaxEvents \in Nat /\ s = [i \in 1..n |-> i]
    BY <1>1, <1>2, EventsAssumption DEF OnFile
  <2>2. \A i \in 1..n : i \in 1..MaxEvents
    BY <1>1, <2>1
  <2> QED
    BY <2>1, <2>2
<1>4. Rising(s) /\ UpTo(s, n) /\ Elements(s) = 1..n
  BY <1>1, <1>3 DEF Rising, UpTo, Elements
<1>5. /\ at' = [at EXCEPT ![c] = "replayed"] /\ got' = [got EXCEPT ![c] = s]
      /\ caughtUp' = [caughtUp EXCEPT ![c] = n]
      /\ UNCHANGED <<fileVars, subscribed, queue, joined, dropped>>
  BY <1>1, <1>2 DEF Replay
<1>6. StreamTypeOK'
  <2>1. /\ at' \in [Client -> Places] /\ got' \in [Client -> Seq(1..MaxEvents)]
        /\ caughtUp' \in [Client -> 0..MaxEvents]
    BY <1>1, <1>3, <1>5 DEF StreamInv, StreamTypeOK, Places
  <2> QED
    BY <1>5, <2>1 DEF StreamInv, StreamTypeOK, fileVars
<1>7. at'[c] = "replayed" /\ got'[c] = s /\ caughtUp'[c] = n /\ queue'[c] = <<>> /\ written' = n
  BY <1>0, <1>1, <1>5 DEF StreamInv, StreamTypeOK, fileVars
<1>8. Stream(c)' = s
  BY <1>3, <1>7, ConcatEmptySeq DEF Stream
<1>9. Rising(Stream(c))' /\ UpTo(Stream(c), written)' /\ Elements(Stream(c))' = 1..n
  BY <1>4, <1>7, <1>8 DEF Rising, UpTo, Elements
<1>10. ClientInv(c)'
  BY <1>0, <1>1, <1>5, <1>7, <1>9 DEF ClientInv
<1> QED
  BY <1>5, <1>6, <1>10, HandlerKeeps DEF fileVars, StreamInv, StreamTypeOK

\* A step of the handler that receives and queues nothing.
LEMMA PlaceKeeps ==
    ASSUME StreamInv, StreamTypeOK', NEW c \in Client,
           UNCHANGED <<written, emitting, got, caughtUp, dropped>>,
           \A d \in Client \ {c} : /\ UNCHANGED <<at[d], queue[d], joined[d]>>
                                   /\ d \in subscribed' <=> d \in subscribed,
           UNCHANGED queue[c],
           /\ c \in subscribed' <=> at'[c] = "streaming"
           /\ at'[c] # "streaming" => queue[c] = <<>>
           /\ at'[c] # "start"
           /\ at'[c] = "found" => at[c] = "replayed"
           /\ at'[c] # "replayed"
           /\ at'[c] = "streaming" => at[c] = "found" /\ joined'[c] = written
    PROVE  StreamInv'
<1>0. ClientInv(c) /\ written \in 0..MaxEvents /\ caughtUp[c] \in 0..MaxEvents
  BY DEF StreamInv, StreamTypeOK
<1>1. PICK s, w : s = Stream(c) /\ w = written
  OBVIOUS
<1>2. Stream(c)' = s
  BY <1>1 DEF Stream
<1>3. Rising(s) /\ UpTo(s, w)
  BY <1>0, <1>1 DEF ClientInv
<1>4. Rising(Stream(c))' /\ UpTo(Stream(c), written)' /\ Elements(Stream(c))' = Elements(s)
  BY <1>1, <1>2, <1>3 DEF Rising, UpTo, Elements
<1>5. ASSUME at'[c] = "found" PROVE caughtUp[c] <= written /\ Elements(s) = 1..caughtUp[c] /\ dropped[c] = {}
  BY <1>0, <1>1, <1>5 DEF ClientInv
<1>6. ASSUME at'[c] = "streaming"
      PROVE  /\ caughtUp[c] <= joined'[c] /\ joined'[c] <= written
             /\ 1..written = Elements(s) \cup (caughtUp[c] + 1 .. joined'[c]) \cup dropped[c]
  <2>1. caughtUp[c] <= written /\ Elements(s) = 1..caughtUp[c] /\ dropped[c] = {} /\ joined'[c] = written
    BY <1>0, <1>1, <1>6 DEF ClientInv
  <2>2. 1..written = (1..caughtUp[c]) \cup (caughtUp[c] + 1 .. written)
    BY <1>0, <2>1, EventsAssumption
  <2> QED
    BY <1>0, <2>1, <2>2, EventsAssumption
<1>7. ClientInv(c)'
  BY <1>0, <1>4, <1>5, <1>6 DEF ClientInv
<1> QED
  BY <1>7, HandlerKeeps

\* A lookup only decides between going on and closing.
LEMMA LookupKeeps == ASSUME StreamInv, NEW c \in Client, Lookup(c) PROVE StreamInv'
<1>0. /\ at[c] = "replayed" /\ queue[c] = <<>> /\ c \notin subscribed
      /\ at' = [at EXCEPT ![c] = IF run = "gone" THEN "closed" ELSE "found"]
      /\ UNCHANGED <<fileVars, subscribed, queue, got, caughtUp, joined, dropped>>
  BY DEF StreamInv, ClientInv, Lookup
<1>1. StreamTypeOK'
  BY <1>0 DEF StreamInv, StreamTypeOK, Places, fileVars
<1>2. at'[c] \in {"closed", "found"} /\ \A d \in Client \ {c} : at'[d] = at[d]
  BY <1>0 DEF StreamInv, StreamTypeOK
<1> QED
  BY <1>0, <1>1, <1>2, PlaceKeeps DEF fileVars

\* After subscribing, what was written since the replay is lost for good.
LEMMA SubscribeKeeps == ASSUME StreamInv, NEW c \in Client, Subscribe(c) PROVE StreamInv'
<1>0. /\ at[c] = "found" /\ queue[c] = <<>>
      /\ at' = [at EXCEPT ![c] = "streaming"]
      /\ subscribed' = subscribed \cup {c}
      /\ joined' = [joined EXCEPT ![c] = written]
      /\ UNCHANGED <<fileVars, queue, got, caughtUp, dropped>>
  BY DEF StreamInv, ClientInv, Subscribe
<1>1. StreamTypeOK'
  BY <1>0 DEF StreamInv, StreamTypeOK, Places, fileVars
<1>2. /\ at'[c] = "streaming" /\ joined'[c] = written
      /\ \A d \in Client \ {c} : UNCHANGED <<at[d], joined[d]>>
  BY <1>0 DEF StreamInv, StreamTypeOK
<1> QED
  BY <1>0, <1>1, <1>2, PlaceKeeps DEF fileVars

\* A delivery moves the head of the queue, so the stream is unchanged.
LEMMA DeliverKeeps == ASSUME StreamInv, NEW c \in Client, Deliver(c) PROVE StreamInv'
<1>0. /\ at[c] = "streaming" /\ queue[c] # <<>>
      /\ queue' = [queue EXCEPT ![c] = Tail(queue[c])]
      /\ got' = [got EXCEPT ![c] = Append(got[c], Head(queue[c]))]
      /\ UNCHANGED <<fileVars, at, subscribed, caughtUp, joined, dropped>>
  BY DEF Deliver
<1>1. PICK g \in Seq(1..MaxEvents), q \in Seq(1..MaxEvents) : g = got[c] /\ q = queue[c]
  BY DEF StreamInv, StreamTypeOK
<1>2. PICK t, b : t = Tail(q) /\ b = Append(g, Head(q))
  OBVIOUS
<1>3. /\ t \in Seq(1..MaxEvents) /\ Len(t) = Len(q) - 1
      /\ b \in Seq(1..MaxEvents)
      /\ b \o t = g \o q
  BY <1>0, <1>1, <1>2, HeadMoves, HeadTailProperties, AppendProperties
<1>4. queue' = [queue EXCEPT ![c] = t] /\ got' = [got EXCEPT ![c] = b]
  BY <1>0, <1>1, <1>2
<1>5. /\ queue' \in [Client -> Seq(1..MaxEvents)] /\ got' \in [Client -> Seq(1..MaxEvents)]
      /\ queue'[c] = t /\ got'[c] = b
      /\ \A d \in Client \ {c} : queue'[d] = queue[d] /\ got'[d] = got[d]
  BY <1>3, <1>4 DEF StreamInv, StreamTypeOK
<1>6. Len(queue'[c]) <= QueueMax
  <2>1. Len(q) \in Nat /\ Len(q) <= QueueMax /\ QueueMax \in Nat
    BY <1>1, LenProperties, EventsAssumption DEF StreamInv, StreamTypeOK
  <2> QED
    BY <1>3, <1>5, <2>1
<1>7. StreamTypeOK'
  <2>1. \A d \in Client : Len(queue'[d]) <= QueueMax
    BY <1>5, <1>6 DEF StreamInv, StreamTypeOK
  <2> QED
    BY <1>0, <1>5, <2>1 DEF StreamInv, StreamTypeOK, fileVars
<1>8. Stream(c)' = Stream(c)
  BY <1>1, <1>3, <1>5 DEF Stream
<1>9. PICK s, w : s = Stream(c) /\ w = written
  OBVIOUS
<1>10. Rising(s) /\ UpTo(s, w)
  BY <1>9 DEF StreamInv, ClientInv
<1>11. Rising(Stream(c))' /\ UpTo(Stream(c), written)' /\ Elements(Stream(c))' = Elements(s)
  BY <1>0, <1>8, <1>9, <1>10 DEF Rising, UpTo, Elements, fileVars
<1>12. ClientInv(c)'
  BY <1>0, <1>9, <1>11 DEF StreamInv, ClientInv, fileVars
<1> QED
  BY <1>0, <1>5, <1>7, <1>12, HandlerKeeps DEF fileVars

\* A disconnect gives up the queue: a prefix of the stream is left.
LEMMA DisconnectKeeps == ASSUME StreamInv, NEW c \in Client, Disconnect(c) PROVE StreamInv'
<1>0. /\ at' = [at EXCEPT ![c] = "closed"]
      /\ UNCHANGED <<fileVars, got, caughtUp, joined, dropped>>
  BY DEF Disconnect
<1>1. at' \in [Client -> Places] /\ at'[c] = "closed" /\ \A d \in Client \ {c} : at'[d] = at[d]
  BY <1>0 DEF StreamInv, StreamTypeOK, Places
<1>2. CASE at[c] = "replayed" /\ UNCHANGED <<subscribed, queue>>
  <2>1. StreamTypeOK'
    BY <1>0, <1>1, <1>2 DEF StreamInv, StreamTypeOK, fileVars
  <2>2. queue[c] = <<>> /\ c \notin subscribed
    BY <1>2 DEF StreamInv, ClientInv
  <2> QED
    BY <1>0, <1>1, <1>2, <2>1, <2>2, PlaceKeeps DEF fileVars
<1>3. CASE subscribed' = subscribed \ {c} /\ queue' = [queue EXCEPT ![c] = <<>>]
  <2>1. /\ queue' \in [Client -> Seq(1..MaxEvents)] /\ queue'[c] = <<>>
        /\ \A d \in Client \ {c} : queue'[d] = queue[d]
    BY <1>3 DEF StreamInv, StreamTypeOK
  <2>2. StreamTypeOK'
    <3>1. \A d \in Client : Len(queue'[d]) <= QueueMax
      BY <2>1, EventsAssumption DEF StreamInv, StreamTypeOK
    <3> QED
      BY <1>0, <1>1, <1>3, <2>1, <3>1 DEF StreamInv, StreamTypeOK, fileVars
  <2>3. PICK g \in Seq(1..MaxEvents), q \in Seq(1..MaxEvents), w \in 0..MaxEvents :
           g = got[c] /\ q = queue[c] /\ w = written
    BY DEF StreamInv, StreamTypeOK
  <2>4. Stream(c)' = g
    BY <1>0, <2>1, <2>3, ConcatEmptySeq DEF Stream
  <2>5. Rising(g \o q) /\ UpTo(g \o q, w)
    BY <2>3 DEF StreamInv, ClientInv, Stream
  <2>6. /\ Len(g) \in Nat /\ Len(q) \in Nat
        /\ Len(g \o q) = Len(g) + Len(q)
        /\ \A i \in 1..Len(g) : (g \o q)[i] = g[i]
    BY LenProperties, ConcatProperties
  <2>7. Rising(g) /\ UpTo(g, w)
    <3>1. \A i \in 1..Len(g) : i \in 1..Len(g \o q)
      BY <2>6
    <3> QED
      BY <2>5, <2>6, <3>1 DEF Rising, UpTo
  <2>8. Rising(Stream(c))' /\ UpTo(Stream(c), written)'
    BY <1>0, <2>3, <2>4, <2>7 DEF Rising, UpTo, fileVars
  <2>9. ClientInv(c)'
    BY <1>1, <1>3, <2>1, <2>8 DEF ClientInv
  <2> QED
    BY <1>0, <1>1, <1>3, <2>1, <2>2, <2>9, HandlerKeeps DEF fileVars
<1> QED
  BY <1>2, <1>3 DEF Disconnect

\* Every step of the stream.
LEMMA NextStream == StreamInv /\ [StreamNext]_streamVars => StreamInv'
<1> SUFFICES ASSUME StreamInv, [StreamNext]_streamVars PROVE StreamInv'
  OBVIOUS
<1>1. ASSUME UNCHANGED <<written, at, subscribed, queue, got, caughtUp, joined, dropped>>,
             emitting' \in BOOLEAN, run' \in {"live", "over", "gone"}, emitting' => written < MaxEvents
      PROVE  StreamInv'
  <2>1. StreamTypeOK'
    BY <1>1 DEF StreamInv, StreamTypeOK
  <2>2. ASSUME NEW c \in Client PROVE ClientInv(c)'
    BY <1>1, ClientQuiet DEF StreamInv
  <2> QED
    BY <1>1, <2>1, <2>2 DEF StreamInv
<1>2. CASE EmitBegins
  BY <1>1, <1>2 DEF EmitBegins, StreamInv, StreamTypeOK
<1>3. CASE EmitEnds
  BY <1>3, EmitKeeps
<1>4. CASE RunEnds \/ Unregister
  BY <1>1, <1>4 DEF RunEnds, Unregister, StreamInv, StreamTypeOK
<1>5. ASSUME NEW c \in Client, Handler(c) \/ Disconnect(c) PROVE StreamInv'
  BY <1>5, ReplayKeeps, LookupKeeps, SubscribeKeeps, DeliverKeeps, DisconnectKeeps DEF Handler
<1>6. CASE UNCHANGED streamVars
  BY <1>1, <1>6 DEF streamVars, fileVars, StreamInv, StreamTypeOK
<1> QED
  BY <1>2, <1>3, <1>4, <1>5, <1>6 DEF StreamNext, EmitterStep

\* The stream invariant holds.
LEMMA StreamInvariant == StreamSpec => []StreamInv
<1>1. StreamInit => StreamInv
  <2> SUFFICES ASSUME StreamInit PROVE StreamInv
    OBVIOUS
  <2>1. StreamTypeOK
    <3>1. <<>> \in Seq(1..MaxEvents) /\ Len(<<>>) = 0 /\ 0 \in 0..MaxEvents /\ 0 <= QueueMax
      BY EmptySeq, EventsAssumption
    <3>2. /\ queue \in [Client -> Seq(1..MaxEvents)] /\ got \in [Client -> Seq(1..MaxEvents)]
          /\ \A c \in Client : queue[c] = <<>>
      BY <3>1 DEF StreamInit
    <3> QED
      BY <3>1, <3>2 DEF StreamInit, StreamTypeOK, Places
  <2>2. ASSUME NEW c \in Client PROVE ClientInv(c)
    <3>1. Stream(c) = <<>>
      BY DEF StreamInit, Stream
    <3>2. Rising(<<>>) /\ UpTo(<<>>, 0)
      BY DEF Rising, UpTo
    <3> QED
      BY <3>1, <3>2 DEF StreamInit, ClientInv
  <2> QED
    BY <2>1, <2>2 DEF StreamInit, StreamInv
<1> QED
  BY <1>1, NextStream, PTL DEF StreamSpec

\* The variables of the stream keep their types; in particular no queue ever has
\* more than QueueMax events.
THEOREM StreamTypeCorrect == StreamSpec => []StreamTypeOK
<1>1. StreamInv => StreamTypeOK
  BY DEF StreamInv
<1> QED
  BY <1>1, StreamInvariant, PTL

\* What a client sees is in the order of emit(), without repetition.
THEOREM StreamsAreInOrder == StreamSpec => []StreamInOrder
<1>1. StreamInv => StreamInOrder
  BY DEF StreamInv, ClientInv, Stream, Rising, StreamInOrder
<1> QED
  BY <1>1, StreamInvariant, PTL

\* Every event a streaming client misses fell between its replay and its
\* subscription or met its own full queue.
THEOREM LossIsAccounted == StreamSpec => []LossAccounted
<1>1. StreamInv => LossAccounted
  BY DEF StreamInv, ClientInv, Stream, LossAccounted
<1> QED
  BY <1>1, StreamInvariant, PTL

-----------------------------------------------------------------------------
(* The registries.                                                         *)

Used(i) == phase[i] # "unused"

\* There is one first run, and only that has a dispatcher in the registry; a
\* request that was let through has a dag_id left for its run.
ServiceInv ==
    /\ TypeOK
    /\ RegistriesTell
    /\ \A i, j \in Run : Used(i) /\ Used(j) /\ key[i] = 0 /\ key[j] = 0 => i = j
    /\ \A d \in DagId : d # 0 => dispatchers[d] = NoRun
    /\ \A q \in Request : request[q] = "through" => target[q] + 1 \in DagId

\* The dag_id of the first run.
LEMMA ZeroIsADagId == 0 \in DagId
BY ServiceAssumption DEF DagId

\* Every step of the service.
LEMMA NextService == ServiceInv /\ [Next]_vars => ServiceInv'
<1> USE DEF ServiceInv, TypeOK, RegistriesTell, NoDeadEntries, FirstRunReachable, Used, Live, Phases
<1> SUFFICES ASSUME ServiceInv, [Next]_vars PROVE ServiceInv'
  OBVIOUS
<1>0. 0 \in DagId /\ NoRun \notin Run
  BY ZeroIsADagId, ServiceAssumption
<1>1. ASSUME NEW i \in Run, RunRequest(i) PROVE ServiceInv'
  BY <1>0, <1>1 DEF RunRequest
<1>2. ASSUME NEW q \in Request, NEW d \in DagId, RetryCheck(q, d) PROVE ServiceInv'
  <2>1. d + 1 \in DagId
    BY <1>2, ServiceAssumption DEF RetryCheck, DagId
  <2> QED
    BY <1>0, <1>2, <2>1 DEF RetryCheck
<1>3. ASSUME NEW q \in Request, NEW i \in Run, RetryStart(q, i) PROVE ServiceInv'
  <2>1. PICK d \in DagId \ {0} : d = target[q] + 1
    <3>1. target[q] \in DagId /\ target[q] + 1 \in DagId
      BY <1>3 DEF RetryStart
    <3>2. target[q] + 1 # 0
      BY <3>1 DEF DagId
    <3> QED
      BY <3>1, <3>2
  <2> QED
    BY <1>0, <1>3, <2>1 DEF RetryStart
<1>4. ASSUME NEW i \in Run, NodeStarts(i) PROVE ServiceInv'
  BY <1>0, <1>4 DEF NodeStarts
<1>5. ASSUME NEW i \in Run, NodeEnds(i) PROVE ServiceInv'
  BY <1>0, <1>5 DEF NodeEnds
<1>6. ASSUME NEW i \in Run, NodeRaises(i) PROVE ServiceInv'
  BY <1>0, <1>6 DEF NodeRaises
<1>7. ASSUME NEW i \in Run, PopEmitter(i) PROVE ServiceInv'
  BY <1>0, <1>7 DEF PopEmitter
<1>8. ASSUME NEW i \in Run, PopDispatcher(i) PROVE ServiceInv'
  BY <1>0, <1>8 DEF PopDispatcher
<1>9. CASE Restart
  BY <1>0, <1>9 DEF Restart
<1>10. CASE UNCHANGED vars
  BY <1>10 DEF vars
<1> QED
  BY <1>1, <1>2, <1>3, <1>4, <1>5, <1>6, <1>7, <1>8, <1>9, <1>10 DEF Next, RunStep

\* The invariant of the registries holds.
LEMMA ServiceInvariant == Spec => []ServiceInv
<1>1. Init => ServiceInv
  <2> SUFFICES ASSUME Init PROVE ServiceInv
    OBVIOUS
  <2>1. TypeOK
    BY ZeroIsADagId DEF Init, TypeOK, Phases
  <2>2. RegistriesTell
    BY DEF Init, RegistriesTell, NoDeadEntries, FirstRunReachable
  <2> QED
    BY <2>1, <2>2 DEF Init, ServiceInv, Used
<1> QED
  BY <1>1, NextService, PTL DEF Spec

\* The variables of the service keep their types.
THEOREM ServiceTypeCorrect == Spec => []TypeOK
<1>1. ServiceInv => TypeOK
  BY DEF ServiceInv
<1> QED
  BY <1>1, ServiceInvariant, PTL

\* The registries list no run that is over, and the first run while its node runs.
THEOREM RegistriesAreTrue == Spec => []RegistriesTell
<1>1. ServiceInv => RegistriesTell
  BY DEF ServiceInv
<1> QED
  BY <1>1, ServiceInvariant, PTL

-----------------------------------------------------------------------------
(* The texts of the agent thread.                                          *)

\* The inbox q holds, in order and perhaps with an End among them, the texts
\* after lo up to hi.
Holds(q, lo, hi) ==
    /\ \A i \in 1..Len(q) : q[i] # End => q[i] \in lo + 1 .. hi
    /\ \A n \in lo + 1 .. hi : \E i \in 1..Len(q) : q[i] = n
    /\ \A i, j \in 1..Len(q) : i < j /\ q[i] # End /\ q[j] # End => q[i] < q[j]

\* The next text goes behind those that wait.
LEMMA TextBehind ==
    ASSUME NEW q \in Seq(Nat), NEW lo \in Nat, NEW hi \in Nat, lo <= hi, Holds(q, lo, hi)
    PROVE  Holds(Append(q, hi + 1), lo, hi + 1)
<1>1. PICK m \in Nat : m = Len(q)
  BY LenProperties
<1>2. PICK t : t = Append(q, hi + 1)
  OBVIOUS
<1>3. /\ Len(t) = m + 1
      /\ \A i \in 1..m : t[i] = q[i]
      /\ t[m + 1] = hi + 1
  BY <1>1, <1>2, AppendProperties
<1>4. \A i \in 1..m : q[i] \in Nat
  BY <1>1, ElementOfSeq
<1>5. ASSUME NEW i \in 1..(m + 1), t[i] # End PROVE t[i] \in lo + 1 .. hi + 1
  <2>1. CASE i = m + 1
    BY <1>3, <2>1
  <2>2. CASE i \in 1..m
    BY <1>1, <1>3, <1>5, <2>2 DEF Holds
  <2> QED
    BY <2>1, <2>2
<1>6. ASSUME NEW n \in lo + 1 .. hi + 1 PROVE \E i \in 1..(m + 1) : t[i] = n
  <2>1. CASE n = hi + 1
    BY <1>3, <2>1
  <2>2. CASE n \in lo + 1 .. hi
    <3>1. PICK i \in 1..m : q[i] = n
      BY <1>1, <2>2 DEF Holds
    <3> QED
      BY <1>3, <3>1
  <2> QED
    BY <2>1, <2>2
<1>7. ASSUME NEW i \in 1..(m + 1), NEW j \in 1..(m + 1), i < j, t[i] # End, t[j] # End
      PROVE  t[i] < t[j]
  <2>1. i \in 1..m /\ t[i] = q[i]
    BY <1>3, <1>7
  <2>2. CASE j = m + 1
    <3>1. q[i] \in lo + 1 .. hi
      BY <1>1, <1>7, <2>1 DEF Holds
    <3> QED
      BY <1>3, <2>1, <2>2, <3>1
  <2>3. CASE j \in 1..m
    BY <1>1, <1>3, <1>7, <2>1, <2>3 DEF Holds
  <2> QED
    BY <2>2, <2>3
<1> QED
  BY <1>2, <1>3, <1>5, <1>6, <1>7 DEF Holds

\* An End makes no difference to the texts that wait.
LEMMA EndBehind ==
    ASSUME NEW q \in Seq(Nat), NEW lo \in Nat, NEW hi \in Nat, Holds(q, lo, hi)
    PROVE  Holds(Append(q, End), lo, hi)
<1>1. PICK m \in Nat : m = Len(q)
  BY LenProperties
<1>2. PICK t : t = Append(q, End)
  OBVIOUS
<1>3. /\ Len(t) = m + 1
      /\ \A i \in 1..m : t[i] = q[i]
      /\ t[m + 1] = End
  BY <1>1, <1>2, AppendProperties DEF End
<1>4. \A i \in 1..(m + 1) : t[i] # End => i \in 1..m
  BY <1>3
<1>5. ASSUME NEW n \in lo + 1 .. hi PROVE \E i \in 1..(m + 1) : t[i] = n
  <2>1. PICK i \in 1..m : q[i] = n
    BY <1>1 DEF Holds
  <2> QED
    BY <1>3, <2>1
<1> QED
  BY <1>1, <1>2, <1>3, <1>4, <1>5 DEF Holds

\* What is at the head of the inbox is the next text, or End.
LEMMA HeadIsNext ==
    ASSUME NEW q \in Seq(Nat), NEW lo \in Nat, NEW hi \in Nat, Holds(q, lo, hi), q # <<>>
    PROVE  /\ Head(q) = End => Holds(Tail(q), lo, hi)
           /\ Head(q) # End => Head(q) = lo + 1 /\ lo + 1 <= hi /\ Holds(Tail(q), lo + 1, hi)
<1>1. PICK t : t = Tail(q)
  OBVIOUS
<1>2. PICK m \in Nat : m = Len(t)
  BY <1>1, HeadTailProperties, LenProperties
<1>3. /\ Len(q) = m + 1 /\ Head(q) = q[1]
      /\ \A i \in 1..m : t[i] = q[i + 1]
  BY <1>1, <1>2, HeadTailProperties, EmptySeq, LenProperties
<1>4. \A i \in 1..(m + 1) : q[i] \in Nat
  BY <1>3, ElementOfSeq
<1>5. /\ \A i \in 1..m : i + 1 \in 1..(m + 1)
      /\ \A i \in 1..(m + 1) : i = 1 \/ (i - 1 \in 1..m /\ i = (i - 1) + 1)
  OBVIOUS
<1>6. ASSUME NEW i \in 1..m, NEW j \in 1..m, i < j, t[i] # End, t[j] # End PROVE t[i] < t[j]
  <2>1. i + 1 \in 1..(m + 1) /\ j + 1 \in 1..(m + 1) /\ i + 1 < j + 1
    BY <1>6
  <2>2. t[i] = q[i + 1] /\ t[j] = q[j + 1]
    BY <1>3
  <2> QED
    BY <1>3, <1>6, <2>1, <2>2 DEF Holds
<1>7. ASSUME Head(q) = End PROVE Holds(t, lo, hi)
  <2>1. ASSUME NEW n \in lo + 1 .. hi PROVE \E i \in 1..m : t[i] = n
    <3>1. PICK i \in 1..(m + 1) : q[i] = n
      BY <1>3 DEF Holds
    <3>2. i # 1
      BY <1>3, <1>7, <3>1 DEF End
    <3> QED
      BY <1>3, <1>5, <3>1, <3>2
  <2> QED
    BY <1>2, <1>3, <1>5, <1>6, <2>1 DEF Holds
<1>8. ASSUME Head(q) # End PROVE Head(q) = lo + 1 /\ lo + 1 <= hi /\ Holds(t, lo + 1, hi)
  <2>1. q[1] \in lo + 1 .. hi
    BY <1>3, <1>8 DEF Holds
  <2>2. lo + 1 \in lo + 1 .. hi
    BY <2>1
  <2>3. PICK k \in 1..(m + 1) : q[k] = lo + 1
    BY <1>3, <2>2 DEF Holds
  <2>4. k = 1
    <3>1. ASSUME k > 1 PROVE FALSE
      <4>1. q[1] < q[k]
        BY <1>3, <1>8, <2>3, <3>1 DEF Holds, End
      <4> QED
        BY <2>1, <2>3, <4>1
    <3> QED
      BY <3>1
  <2>5. q[1] = lo + 1
    BY <2>3, <2>4
  <2>6. ASSUME NEW i \in 1..m, t[i] # End PROVE t[i] \in (lo + 1) + 1 .. hi
    <3>1. t[i] = q[i + 1] /\ i + 1 \in 1..(m + 1) /\ 1 < i + 1
      BY <1>3, <1>5
    <3>2. q[i + 1] \in lo + 1 .. hi
      BY <1>3, <2>6, <3>1 DEF Holds
    <3>3. q[1] < q[i + 1]
      BY <1>3, <1>8, <2>6, <3>1 DEF Holds
    <3> QED
      BY <2>5, <3>1, <3>2, <3>3
  <2>7. ASSUME NEW n \in (lo + 1) + 1 .. hi PROVE \E i \in 1..m : t[i] = n
    <3>1. PICK i \in 1..(m + 1) : q[i] = n
      BY <1>3 DEF Holds
    <3>2. i # 1
      BY <2>5, <3>1
    <3> QED
      BY <1>3, <1>5, <3>1, <3>2
  <2> QED
    BY <1>2, <1>3, <1>6, <2>1, <2>2, <2>5, <2>6, <2>7 DEF Holds
<1> QED
  BY <1>1, <1>7, <1>8

\* How many texts were taken from the inbox, the one of the turn included.
Taken == IF agent = "turn" THEN Len(answered) + 1 ELSE Len(answered)

\* The thread's part: texts are taken in the order of their numbers.
ThreadInv ==
    /\ agent \in {"seeding", "started", "crashed", "ready", "turn", "ended"}
    /\ inbox \in Seq(0..MaxTexts)
    /\ posted \in 0..MaxTexts
    /\ turn \in [text : 0..MaxTexts, left : 0..MaxOutput]
    /\ answered \in Seq(1..MaxTexts)
    /\ \A n \in 1..Len(answered) : answered[n] = n
    /\ agent = "turn" => turn.text = Taken
    /\ Taken <= posted
    /\ Holds(inbox, Taken, posted)

\* A step of the server that leaves the thread's variables alone leaves its part.
LEMMA ThreadQuiet == ThreadInv /\ UNCHANGED threadVars => ThreadInv'
BY DEF ThreadInv, threadVars, Taken, Holds

\* The thread starts with no text taken, none posted and an empty inbox.
LEMMA ThreadFresh == AgentInit => ThreadInv
<1> SUFFICES ASSUME AgentInit PROVE ThreadInv
  OBVIOUS
<1>1. agent = "seeding" /\ inbox = <<>> /\ posted = 0 /\ turn = NoTurn /\ answered = <<>>
  BY DEF AgentInit
<1>2. /\ inbox \in Seq(0..MaxTexts) /\ Len(inbox) = 0
      /\ answered \in Seq(1..MaxTexts) /\ Len(answered) = 0
  BY <1>1, EmptySeq
<1>3. posted \in 0..MaxTexts /\ turn \in [text : 0..MaxTexts, left : 0..MaxOutput]
  BY <1>1, ThreadAssumption DEF NoTurn
<1>4. Taken = 0
  BY <1>1, <1>2 DEF Taken
<1>5. Holds(inbox, Taken, posted)
  BY <1>1, <1>2, <1>4 DEF Holds
<1> QED
  BY <1>1, <1>2, <1>3, <1>4, <1>5 DEF ThreadInv

\* The requests, each of which goes to the end of the inbox.
LEMMA RequestKeepsThread == ThreadInv /\ (send \/ EndSession) => ThreadInv'
<1> SUFFICES ASSUME ThreadInv, send \/ EndSession PROVE ThreadInv'
  OBVIOUS
<1>1. /\ UNCHANGED <<agent, turn, answered>>
      /\ Taken' = Taken
      /\ Taken \in Nat /\ posted \in Nat /\ MaxTexts \in Nat
  BY ThreadAssumption, LenProperties DEF ThreadInv, send, EndSession, Taken
<1>2. inbox \in Seq(Nat)
  <2>1. inbox \in Seq(0..MaxTexts) /\ 0..MaxTexts \subseteq Nat
    BY <1>1 DEF ThreadInv
  <2> QED
    BY <2>1, SeqMonotonic
<1>3. CASE send
  <2>1. posted < MaxTexts /\ posted' = posted + 1 /\ inbox' = Append(inbox, posted + 1)
    BY <1>3 DEF send
  <2>2. Holds(inbox', Taken', posted')
    BY <1>1, <1>2, <2>1, TextBehind DEF ThreadInv
  <2>3. posted' \in 0..MaxTexts /\ Taken' <= posted'
    BY <1>1, <2>1 DEF ThreadInv
  <2>4. inbox' \in Seq(0..MaxTexts)
    BY <1>1, <2>1, <2>3, AppendProperties DEF ThreadInv
  <2> QED
    BY <1>1, <2>2, <2>3, <2>4 DEF ThreadInv
<1>4. CASE EndSession
  <2>1. posted' = posted /\ inbox' = Append(inbox, End)
    BY <1>4 DEF EndSession
  <2>2. Holds(inbox', Taken', posted')
    BY <1>1, <1>2, <2>1, EndBehind DEF ThreadInv
  <2>3. End \in 0..MaxTexts
    BY <1>1 DEF End
  <2>4. inbox' \in Seq(0..MaxTexts)
    BY <2>1, <2>3, AppendProperties DEF ThreadInv
  <2> QED
    BY <1>1, <2>1, <2>2, <2>4 DEF ThreadInv
<1> QED
  BY <1>3, <1>4

\* The steps of _run().
LEMMA RunKeepsThread == ThreadInv /\ ThreadStep => ThreadInv'
<1> SUFFICES ASSUME ThreadInv, ThreadStep PROVE ThreadInv'
  OBVIOUS
<1>1. /\ Len(answered) \in Nat /\ Taken \in Nat /\ posted \in Nat /\ MaxTexts \in Nat
      /\ posted' = posted
  BY ThreadAssumption, LenProperties
     DEF ThreadInv, Taken, ThreadStep, Started, StartFails, Crashed, TakeText, TakeEnd, Output, TurnDone
<1>2. inbox \in Seq(Nat)
  <2>1. inbox \in Seq(0..MaxTexts) /\ 0..MaxTexts \subseteq Nat
    BY <1>1 DEF ThreadInv
  <2> QED
    BY <2>1, SeqMonotonic
<1>3. ASSUME \/ Started \/ StartFails \/ Crashed PROVE ThreadInv'
  <2>1. /\ agent' \in {"ready", "crashed", "ended"} /\ agent # "turn"
        /\ UNCHANGED <<inbox, posted, turn, answered>>
    BY <1>3 DEF Started, StartFails, Crashed
  <2>2. Taken' = Taken
    BY <2>1 DEF Taken
  <2> QED
    BY <2>1, <2>2 DEF ThreadInv, Holds
<1>4. CASE TakeText
  <2>1. /\ agent = "ready" /\ agent' = "turn"
        /\ turn' = [text |-> Head(inbox), left |-> MaxOutput]
        /\ inbox # <<>> /\ Head(inbox) # End /\ inbox' = Tail(inbox)
        /\ answered' = answered
    BY <1>4 DEF TakeText
  <2>2. Taken' = Taken + 1
    BY <2>1 DEF Taken
  <2>3. Head(inbox) = Taken + 1 /\ Taken + 1 <= posted /\ Holds(Tail(inbox), Taken + 1, posted)
    BY <1>1, <1>2, <2>1, HeadIsNext DEF ThreadInv
  <2>4. Holds(inbox', Taken', posted') /\ Taken' <= posted'
    BY <1>1, <2>1, <2>2, <2>3
  <2>5. inbox' \in Seq(0..MaxTexts) /\ Head(inbox) \in 0..MaxTexts
    BY <2>1, HeadTailProperties DEF ThreadInv
  <2>6. turn' \in [text : 0..MaxTexts, left : 0..MaxOutput] /\ turn'.text = Taken'
    BY <2>1, <2>2, <2>3, <2>5, ThreadAssumption
  <2> QED
    BY <1>1, <2>1, <2>4, <2>5, <2>6 DEF ThreadInv
<1>5. CASE TakeEnd
  <2>1. /\ agent = "ready" /\ agent' = "ended"
        /\ inbox # <<>> /\ Head(inbox) = End /\ inbox' = Tail(inbox)
        /\ UNCHANGED <<turn, answered>>
    BY <1>5 DEF TakeEnd
  <2>2. Taken' = Taken
    BY <2>1 DEF Taken
  <2>3. Holds(Tail(inbox), Taken, posted)
    BY <1>1, <1>2, <2>1, HeadIsNext DEF ThreadInv
  <2>4. inbox' \in Seq(0..MaxTexts)
    BY <2>1, HeadTailProperties DEF ThreadInv
  <2> QED
    BY <1>1, <2>1, <2>2, <2>3, <2>4 DEF ThreadInv
<1>6. CASE Output
  <2>1. /\ agent = "turn" /\ turn.left > 0 /\ turn' = [turn EXCEPT !.left = @ - 1]
        /\ UNCHANGED <<agent, inbox, answered>>
    BY <1>6 DEF Output
  <2>2. turn' \in [text : 0..MaxTexts, left : 0..MaxOutput] /\ turn'.text = turn.text
    BY <2>1, ThreadAssumption DEF ThreadInv
  <2>3. Taken' = Taken
    BY <2>1 DEF Taken
  <2> QED
    BY <1>1, <2>1, <2>2, <2>3 DEF ThreadInv, Holds
<1>7. CASE TurnDone
  <2>1. /\ agent = "turn" /\ agent' = "ready" /\ turn' = NoTurn
        /\ answered' = Append(answered, turn.text) /\ inbox' = inbox
    BY <1>7 DEF TurnDone
  <2>2. turn.text = Taken /\ Taken = Len(answered) + 1 /\ Taken <= posted /\ posted <= MaxTexts
    BY <1>1, <2>1 DEF ThreadInv, Taken
  <2>3. turn.text \in 1..MaxTexts
    BY <1>1, <2>2
  <2>4. /\ answered' \in Seq(1..MaxTexts) /\ Len(answered') = Len(answered) + 1
        /\ \A n \in 1..Len(answered) : answered'[n] = answered[n]
        /\ answered'[Len(answered) + 1] = turn.text
    BY <2>1, <2>3, AppendProperties DEF ThreadInv
  <2>5. ASSUME NEW n \in 1..Len(answered') PROVE answered'[n] = n
    <3>1. PICK m \in Nat : m = Len(answered)
      BY <1>1
    <3>2. n \in 1..m \/ n = m + 1
      BY <2>4, <3>1
    <3>3. CASE n \in 1..m
      BY <2>4, <3>1, <3>3 DEF ThreadInv
    <3> QED
      BY <2>2, <2>4, <3>1, <3>2, <3>3
  <2>6. Taken' = Taken
    BY <2>1, <2>2, <2>4 DEF Taken
  <2>7. turn' \in [text : 0..MaxTexts, left : 0..MaxOutput]
    BY <2>1, ThreadAssumption DEF NoTurn
  <2> QED
    BY <1>1, <2>1, <2>4, <2>5, <2>6, <2>7 DEF ThreadInv, Holds
<1> QED
  BY <1>3, <1>4, <1>5, <1>6, <1>7 DEF ThreadStep

\* The invariant says what TextsInOrder does.
LEMMA ThreadTexts == ThreadInv => TextsInOrder
<1> SUFFICES ASSUME ThreadInv PROVE TextsInOrder
  OBVIOUS
<1> DEFINE taken == answered \o (IF agent = "turn" THEN <<turn.text>> ELSE <<>>)
           Waiting == {i \in DOMAIN inbox : inbox[i] # End}
<1>1. Len(answered) \in Nat /\ DOMAIN inbox = 1..Len(inbox) /\ posted \in Nat
  BY LenProperties DEF ThreadInv
<1>2. /\ Len(taken) = Taken /\ DOMAIN taken = 1..Taken
      /\ \A n \in 1..Taken : taken[n] = n
  <2>1. CASE agent = "turn"
    <3>1. Taken = Len(answered) + 1 /\ turn.text = Len(answered) + 1
      BY <2>1 DEF ThreadInv, Taken
    <3>2. PICK e : e = turn.text
      OBVIOUS
    <3>3. taken = answered \o <<e>> /\ e \in Nat
      BY <1>1, <2>1, <3>1, <3>2
    <3>4. answered \in Seq(Nat) /\ <<e>> \in Seq(Nat)
      BY <3>3, SeqMonotonic, ThreadAssumption DEF ThreadInv
    <3>5. Len(<<e>>) = 1 /\ <<e>>[1] = e
      OBVIOUS
    <3>6. PICK l : l = <<e>>
      OBVIOUS
    <3>7. /\ answered \o l \in Seq(Nat) /\ Len(answered \o l) = Len(answered) + 1
          /\ \A n \in 1..(Len(answered) + 1) : (answered \o l)[n] = IF n <= Len(answered) THEN answered[n] ELSE l[n - Len(answered)]
      BY <3>4, <3>5, <3>6, ConcatProperties
    <3>8. \A n \in 1..(Len(answered) + 1) : (answered \o l)[n] = n
      <4> SUFFICES ASSUME NEW n \in 1..(Len(answered) + 1) PROVE (answered \o l)[n] = n
        OBVIOUS
      <4>1. CASE n \in 1..Len(answered)
        BY <1>1, <3>7, <4>1 DEF ThreadInv
      <4>2. CASE n = Len(answered) + 1
        BY <1>1, <3>1, <3>2, <3>5, <3>6, <3>7, <4>2
      <4> QED
        <5>1. PICK m \in Nat : m = Len(answered)
          BY <1>1
        <5>2. n \in 1..m \/ n = m + 1
          BY <5>1
        <5> QED
          BY <4>1, <4>2, <5>1, <5>2
    <3> QED
      BY <3>1, <3>3, <3>6, <3>7, <3>8, LenProperties
  <2>2. CASE agent # "turn"
    <3>1. Taken = Len(answered)
      BY <2>2 DEF Taken
    <3>2. taken = answered
      BY <2>2, ConcatEmptySeq DEF ThreadInv
    <3> QED
      BY <3>1, <3>2, LenProperties DEF ThreadInv
  <2> QED
    BY <2>1, <2>2
<1>3. Holds(inbox, Taken, posted)
  BY DEF ThreadInv
<1>4. {inbox[i] : i \in Waiting} = Len(taken) + 1 .. posted
  <2>1. \A i \in Waiting : inbox[i] \in Taken + 1 .. posted
    BY <1>1, <1>3 DEF Holds
  <2>2. ASSUME NEW n \in Taken + 1 .. posted PROVE \E i \in Waiting : inbox[i] = n
    <3>1. PICK i \in 1..Len(inbox) : inbox[i] = n
      BY <1>3 DEF Holds
    <3>2. n # End
      BY <1>1, <1>2, LenProperties DEF End, ThreadInv, Taken
    <3> QED
      BY <1>1, <3>1, <3>2
  <2> QED
    BY <1>2, <2>1, <2>2
<1>5. \A i, j \in Waiting : i < j => inbox[i] < inbox[j]
  BY <1>1, <1>3 DEF Holds
<1>6. Len(taken) <= posted
  BY <1>2 DEF ThreadInv
<1>7. \A n \in DOMAIN taken : taken[n] = n
  BY <1>2
<1> QED
  BY <1>4, <1>5, <1>6, <1>7 DEF TextsInOrder

-----------------------------------------------------------------------------
(* What the listeners hear.                                                *)

\* What listener c has heard, then what it will.
Told(c) == heard[c] \o offered[c]

ListenerInv(c) ==
    /\ handler[c] \in {"away", "gone"} => Told(c) = <<>> /\ missed[c] = {}
    /\ Len(offered[c]) <= ListenerMax
    /\ Rising(Told(c))
    /\ Listening(c) => Elements(Told(c)) = (since[c] + 1 .. emitted) \ missed[c]

\* The bus's part: a listener is told every event since it subscribed but
\* those that it missed.
BusInv ==
    /\ emitted \in Nat
    /\ handler \in [Listener -> {"away", "streaming", "broken", "gone"}]
    /\ offered \in [Listener -> Seq(1..emitted)]
    /\ heard \in [Listener -> Seq(1..emitted)]
    /\ since \in [Listener -> 0..emitted]
    /\ missed \in [Listener -> SUBSET (1..emitted)]
    /\ \A c \in Listener : ListenerInv(c)

\* Nobody is told anything before the first listener subscribes.
LEMMA BusFresh == AgentInit => BusInv
<1> SUFFICES ASSUME AgentInit PROVE BusInv
  OBVIOUS
<1>1. <<>> \in Seq(1..emitted) /\ Len(<<>>) = 0 /\ emitted = 0
  BY EmptySeq DEF AgentInit
<1>2. ASSUME NEW c \in Listener PROVE ListenerInv(c)
  <2>1. handler[c] = "away" /\ offered[c] = <<>> /\ heard[c] = <<>> /\ missed[c] = {}
    BY DEF AgentInit
  <2>2. Told(c) = <<>>
    BY <1>1, <2>1, ConcatEmptySeq DEF Told
  <2>3. Rising(Told(c))
    BY <1>1, <2>2 DEF Rising
  <2> QED
    BY <1>1, <2>1, <2>2, <2>3, ThreadAssumption DEF ListenerInv, Listening
<1> QED
  BY <1>1, <1>2 DEF BusInv, AgentInit

\* A step that concerns another listener, or none, leaves this one's part alone.
LEMMA ListenerQuiet ==
    ASSUME NEW c \in Listener, ListenerInv(c), UNCHANGED emitted,
           UNCHANGED <<handler[c], offered[c], heard[c], since[c], missed[c]>>
    PROVE  ListenerInv(c)'
BY DEF ListenerInv, Told, Listening, Rising, Elements

\* A step of the server that leaves the bus alone leaves its part.
LEMMA BusQuiet == BusInv /\ UNCHANGED busVars => BusInv'
<1> SUFFICES ASSUME BusInv, UNCHANGED busVars PROVE BusInv'
  OBVIOUS
<1>1. UNCHANGED <<emitted, handler, offered, heard, since, missed>>
  BY DEF busVars
<1>2. \A c \in Listener : ListenerInv(c)'
  BY <1>1, ListenerQuiet DEF BusInv
<1> QED
  BY <1>1, <1>2 DEF BusInv

\* Event e is the next: it goes behind what the listeners with room are told,
\* and the others miss it.
LEMMA EmitKeepsBus == BusInv /\ Emit => BusInv'
<1> SUFFICES ASSUME BusInv, Emit PROVE BusInv'
  OBVIOUS
<1>1. PICK n \in Nat : n = emitted
  BY DEF BusInv
<1>2. PICK e \in Nat : e = n + 1
  BY <1>1
<1>3. emitted' = e /\ e \in 1..e /\ UNCHANGED <<handler, heard, since>>
  BY <1>1, <1>2 DEF Emit
<1>4. Seq(1..n) \subseteq Seq(1..e)
  <2>1. 1..n \subseteq 1..e
    BY <1>2
  <2> QED
    BY <2>1, SeqMonotonic
<1>5. ASSUME NEW c \in Listener
      PROVE  /\ handler'[c] = handler[c] /\ heard'[c] = heard[c] /\ since'[c] = since[c]
             /\ offered'[c] = IF Listening(c) /\ ~QueueFull(c) THEN Append(offered[c], e) ELSE offered[c]
             /\ missed'[c] = IF Listening(c) /\ QueueFull(c) THEN missed[c] \cup {e} ELSE missed[c]
  BY <1>3 DEF Emit
<1>6. ASSUME NEW c \in Listener
      PROVE  offered[c] \in Seq(1..e) /\ heard[c] \in Seq(1..e) /\ missed[c] \subseteq 1..n /\ since[c] \in 0..n
  BY <1>1, <1>4 DEF BusInv
<1>7. offered' \in [Listener -> Seq(1..e)]
  <2>1. \A c \in Listener : offered'[c] \in Seq(1..e)
    BY <1>3, <1>5, <1>6, AppendProperties
  <2>2. offered' = [c \in Listener |-> offered'[c]]
    BY DEF Emit
  <2> QED
    BY <2>1, <2>2
<1>8. missed' \in [Listener -> SUBSET (1..e)]
  <2>1. 1..n \subseteq 1..e
    BY <1>2
  <2>2. \A c \in Listener : missed'[c] \subseteq 1..e
    BY <1>3, <1>5, <1>6, <2>1
  <2>3. missed' = [c \in Listener |-> missed'[c]]
    BY DEF Emit
  <2> QED
    BY <2>2, <2>3
<1>9. heard' \in [Listener -> Seq(1..e)] /\ since' \in [Listener -> 0..e]
  BY <1>1, <1>2, <1>3, <1>4 DEF BusInv
<1>10. ASSUME NEW c \in Listener PROVE ListenerInv(c)'
  <2>1. PICK t : t = Told(c)
    OBVIOUS
  <2>2. /\ t \in Seq(1..e) /\ Rising(t) /\ UpTo(t, n)
        /\ Listening(c) => Elements(t) = (since[c] + 1 .. n) \ missed[c]
    <3>1. t \in Seq(1..n)
      BY <1>1, <2>1, ConcatProperties DEF Told, BusInv
    <3>2. UpTo(t, n)
      BY <3>1, ElementOfSeq DEF UpTo
    <3> QED
      BY <1>1, <1>4, <2>1, <3>1, <3>2 DEF BusInv, ListenerInv
  <2>3. Len(offered[c]) <= ListenerMax /\ Len(offered[c]) \in Nat /\ ListenerMax \in Nat
    BY <1>6, LenProperties, ThreadAssumption DEF BusInv, ListenerInv
  <2>4. Listening(c)' = Listening(c)
    BY <1>5 DEF Listening
  <2>5. CASE Listening(c) /\ ~QueueFull(c)
    <3>1. Told(c)' = Append(t, e) /\ Len(offered'[c]) = Len(offered[c]) + 1
      <4>1. PICK q \in Seq(1..e) : q = offered[c]
        BY <1>6
      <4>2. PICK h \in Seq(1..e) : h = heard[c]
        BY <1>6
      <4>3. offered'[c] = Append(q, e) /\ heard'[c] = h
        BY <1>5, <2>5, <4>1, <4>2
      <4>4. h \o Append(q, e) = Append(h \o q, e) /\ Len(Append(q, e)) = Len(q) + 1
        BY <1>3, EndMoves, AppendProperties
      <4> QED
        BY <2>1, <4>1, <4>2, <4>3, <4>4 DEF Told
    <3>2. Rising(Append(t, e)) /\ Elements(Append(t, e)) = Elements(t) \cup {e}
      BY <1>2, <1>3, <2>2, AppendRises
    <3>3. ((since[c] + 1 .. n) \ missed[c]) \cup {e} = (since[c] + 1 .. e) \ missed[c]
      <4>1. since[c] + 1 .. e = (since[c] + 1 .. n) \cup {e} /\ e \notin 1..n
        BY <1>2, <1>6
      <4> QED
        BY <1>6, <4>1
    <3>4. Len(offered'[c]) <= ListenerMax
      BY <2>3, <2>5, <3>1 DEF QueueFull
    <3>5. Elements(Told(c)') = (since'[c] + 1 .. emitted') \ missed'[c]
      <4>1. since'[c] = since[c] /\ missed'[c] = missed[c] /\ emitted' = e
        BY <1>3, <1>5, <2>5
      <4>2. Elements(t) = (since[c] + 1 .. n) \ missed[c]
        BY <2>2, <2>5
      <4> QED
        BY <3>1, <3>2, <3>3, <4>1, <4>2
    <3>6. Rising(Told(c))'
      BY <3>1, <3>2 DEF Rising
    <3>7. handler'[c] \notin {"away", "gone"}
      BY <1>5, <2>5 DEF Listening
    <3> QED
      BY <3>4, <3>5, <3>6, <3>7 DEF ListenerInv, Elements
  <2>6. CASE Listening(c) /\ QueueFull(c)
    <3>1. Told(c)' = t
      BY <1>5, <2>1, <2>6 DEF Told
    <3>2. (since[c] + 1 .. n) \ missed[c] = (since[c] + 1 .. e) \ (missed[c] \cup {e})
      BY <1>2, <1>6
    <3>3. Elements(Told(c)') = (since'[c] + 1 .. emitted') \ missed'[c]
      BY <1>3, <1>5, <2>2, <2>6, <3>1, <3>2
    <3>4. Rising(Told(c))'
      BY <2>2, <3>1 DEF Rising
    <3>5. handler'[c] \notin {"away", "gone"} /\ Len(offered'[c]) <= ListenerMax
      BY <1>5, <2>3, <2>6 DEF Listening
    <3> QED
      BY <3>3, <3>4, <3>5 DEF ListenerInv, Elements
  <2>7. CASE ~Listening(c)
    <3>1. Told(c)' = t /\ missed'[c] = missed[c] /\ offered'[c] = offered[c]
      BY <1>5, <2>1, <2>7 DEF Told
    <3>2. Rising(Told(c))'
      BY <2>2, <3>1 DEF Rising
    <3>3. ListenerInv(c)
      BY DEF BusInv
    <3> QED
      BY <1>5, <2>1, <2>3, <2>4, <2>7, <3>1, <3>2, <3>3 DEF ListenerInv
  <2> QED
    BY <2>5, <2>6, <2>7
<1> QED
  BY <1>1, <1>2, <1>3, <1>7, <1>8, <1>9, <1>10 DEF BusInv

\* The steps of a listener and of its handler.
LEMMA ListenerKeepsBus ==
    ASSUME BusInv, NEW c \in Listener, Listen(c) \/ Hear(c) \/ ClientLeaves(c) \/ Unsubscribe(c)
    PROVE  BusInv'
<1>1. emitted' = emitted /\ emitted \in Nat /\ Seq(1..emitted)' = Seq(1..emitted)
  BY DEF BusInv, Listen, Hear, ClientLeaves, Unsubscribe
<1>2. ASSUME NEW d \in Listener, d # c
      PROVE  UNCHANGED <<handler[d], offered[d], heard[d], since[d], missed[d]>>
  BY <1>2 DEF BusInv, Listen, Hear, ClientLeaves, Unsubscribe
<1>3. ASSUME NEW d \in Listener, d # c PROVE ListenerInv(d)'
  BY <1>1, <1>2, <1>3, ListenerQuiet DEF BusInv
<1>4. /\ heard[c] \in Seq(1..emitted) /\ offered[c] \in Seq(1..emitted)
      /\ Told(c) \in Seq(1..emitted) /\ ListenerInv(c)
  BY ConcatProperties DEF BusInv, Told
<1>5. CASE Listen(c)
  <2>1. /\ handler' = [handler EXCEPT ![c] = "streaming"] /\ since' = [since EXCEPT ![c] = emitted]
        /\ UNCHANGED <<offered, heard, missed>> /\ handler[c] = "away"
    BY <1>5 DEF Listen
  <2>2. handler'[c] = "streaming" /\ since'[c] = emitted /\ emitted \in 0..emitted
    BY <1>1, <2>1 DEF BusInv
  <2>3. Told(c)' = <<>> /\ missed'[c] = {} /\ Told(c) = <<>>
    BY <1>4, <2>1 DEF ListenerInv, Told
  <2>4. Elements(Told(c)') = {} /\ emitted + 1 .. emitted = {}
    BY <1>1, <2>3, EmptySeq DEF Elements
  <2>5. ListenerInv(c)'
    BY <1>1, <1>4, <2>1, <2>2, <2>3, <2>4 DEF ListenerInv, Listening, Rising, Elements
  <2> QED
    BY <1>1, <1>3, <2>1, <2>2, <2>5 DEF BusInv
<1>6. CASE Hear(c)
  <2>1. PICK q \in Seq(1..emitted) : q = offered[c]
    BY <1>4
  <2>2. PICK h \in Seq(1..emitted) : h = heard[c]
    BY <1>4
  <2>3. /\ q # <<>> /\ heard' = [heard EXCEPT ![c] = Append(h, Head(q))]
        /\ offered' = [offered EXCEPT ![c] = Tail(q)]
        /\ UNCHANGED <<handler, since, missed>> /\ handler[c] = "streaming"
    BY <1>6, <2>1, <2>2 DEF Hear
  <2>4. /\ Append(h, Head(q)) \in Seq(1..emitted) /\ Tail(q) \in Seq(1..emitted)
        /\ Len(Tail(q)) = Len(q) - 1 /\ Len(q) \in Nat
    BY <2>3, HeadTailProperties, AppendProperties, LenProperties
  <2>5. heard'[c] = Append(h, Head(q)) /\ offered'[c] = Tail(q)
    BY <2>3 DEF BusInv
  <2>6. Told(c)' = Told(c)
    <3>1. Append(h, Head(q)) \o Tail(q) = h \o q
      BY <2>3, HeadMoves
    <3> QED
      BY <2>1, <2>2, <2>5, <3>1 DEF Told
  <2>7. Len(offered'[c]) <= ListenerMax
    BY <1>4, <2>1, <2>4, <2>5, ThreadAssumption DEF ListenerInv
  <2>8. ListenerInv(c)'
    BY <1>1, <1>4, <2>3, <2>6, <2>7 DEF ListenerInv, Listening, Rising, Elements
  <2>9. heard' \in [Listener -> Seq(1..emitted)] /\ offered' \in [Listener -> Seq(1..emitted)]
    BY <2>3, <2>4 DEF BusInv
  <2> QED
    BY <1>1, <1>3, <2>3, <2>8, <2>9 DEF BusInv
<1>7. CASE ClientLeaves(c)
  <2>1. /\ handler' = [handler EXCEPT ![c] = "broken"] /\ handler[c] = "streaming"
        /\ UNCHANGED <<offered, heard, since, missed>>
    BY <1>7 DEF ClientLeaves
  <2>2. handler'[c] = "broken"
    BY <2>1 DEF BusInv
  <2>3. ListenerInv(c)'
    BY <1>1, <1>4, <2>1, <2>2 DEF ListenerInv, Listening, Told, Rising, Elements
  <2> QED
    BY <1>1, <1>3, <2>1, <2>3 DEF BusInv
<1>8. CASE Unsubscribe(c)
  <2>1. /\ handler' = [handler EXCEPT ![c] = "gone"]
        /\ offered' = [offered EXCEPT ![c] = <<>>]
        /\ heard' = [heard EXCEPT ![c] = <<>>]
        /\ since' = [since EXCEPT ![c] = 0]
        /\ missed' = [missed EXCEPT ![c] = {}]
    BY <1>8 DEF Unsubscribe
  <2>2. handler'[c] = "gone" /\ offered'[c] = <<>> /\ heard'[c] = <<>> /\ missed'[c] = {}
    BY <2>1 DEF BusInv
  <2>3. Told(c)' = <<>>
    BY <2>2, EmptySeq, ConcatEmptySeq DEF Told
  <2>4. ListenerInv(c)'
    BY <2>2, <2>3, EmptySeq, ThreadAssumption DEF ListenerInv, Listening, Rising
  <2>5. <<>> \in Seq(1..emitted) /\ 0 \in 0..emitted /\ {} \in SUBSET (1..emitted)
    BY <1>1, EmptySeq
  <2> QED
    BY <1>1, <1>3, <2>1, <2>4, <2>5 DEF BusInv
<1> QED
  BY <1>5, <1>6, <1>7, <1>8

\* The invariant says what MissesOnlyDropped does.
LEMMA BusMisses == BusInv => MissesOnlyDropped
<1> SUFFICES ASSUME BusInv, NEW c \in Listener, handler[c] = "streaming"
             PROVE  /\ \A m, n \in DOMAIN Told(c) : m < n => Told(c)[m] < Told(c)[n]
                    /\ ToSet(Told(c)) = (since[c] + 1 .. emitted) \ missed[c]
  BY DEF MissesOnlyDropped, Told
<1>1. Told(c) \in Seq(1..emitted) /\ ListenerInv(c)
  BY ConcatProperties DEF BusInv, Told
<1>2. DOMAIN Told(c) = 1..Len(Told(c))
  BY <1>1, LenProperties
<1> QED
  BY <1>1, <1>2 DEF ListenerInv, Listening, Rising, Elements, ToSet

-----------------------------------------------------------------------------
(* The saves, and what a session resumes from.                             *)

\* e is of the last second of those in S, and the first by id of that second.
Newest(S, e) == /\ e \in S
                /\ \A f \in S : f.at <= e.at /\ (f.at = e.at => e.id <= f.id)

HasNewest(S) == S # {} => \E e \in S : Newest(S, e)

\* The newest of some events is what Latest finds.
LEMMA LatestIsNewest ==
    ASSUME NEW S \in SUBSET SessionEvent, NEW e \in S, Newest(S, e)
    PROVE  Newest(S, Latest(S))
<1> DEFINE newest == {x \in S : \A f \in S : x.at >= f.at}
           First(x) == x \in newest /\ \A f \in newest : x.id <= f.id
<1>1. \A x \in S : x.at \in Nat /\ x.id \in Nat
  BY DEF SessionEvent
<1>2. First(e)
  <2>1. e \in newest
    BY <1>1 DEF Newest
  <2>2. ASSUME NEW f \in newest PROVE e.id <= f.id
    <3>1. f.at >= e.at /\ f.at <= e.at
      BY DEF Newest
    <3> QED
      BY <1>1, <3>1 DEF Newest
  <2> QED
    BY <2>1, <2>2
<1>3. Latest(S) = CHOOSE x \in newest : \A f \in newest : x.id <= f.id
  BY DEF Latest
<1>4. First(Latest(S))
  <2>1. \E x \in newest : \A f \in newest : x.id <= f.id
    BY <1>2
  <2> HIDE DEF newest
  <2> QED
    BY <1>3, <2>1
<1>5. PICK l : l = Latest(S)
  OBVIOUS
<1>6. l \in S /\ \A f \in S : f.at <= l.at
  BY <1>1, <1>4, <1>5
<1>7. ASSUME NEW f \in S, f.at = l.at PROVE l.id <= f.id
  <2>1. f \in newest
    BY <1>1, <1>6, <1>7
  <2> QED
    BY <1>4, <1>5, <2>1
<1> QED
  BY <1>5, <1>6, <1>7 DEF Newest

\* With one event more there still is a newest one: it, or the one there was.
LEMMA NewestGrows ==
    ASSUME NEW S \in SUBSET SessionEvent, HasNewest(S), NEW v \in SessionEvent
    PROVE  HasNewest(S \cup {v})
<1>1. \A x \in S \cup {v} : x.at \in Nat /\ x.id \in Nat
  BY DEF SessionEvent
<1>2. CASE S = {}
  <2>1. Newest(S \cup {v}, v)
    BY <1>1, <1>2 DEF Newest
  <2> QED
    BY <2>1 DEF HasNewest
<1>3. CASE S # {}
  <2>1. PICK e \in S : Newest(S, e)
    BY <1>3 DEF HasNewest
  <2>2. CASE v.at > e.at \/ (v.at = e.at /\ v.id < e.id)
    <3>1. ASSUME NEW f \in S PROVE f.at <= v.at /\ (f.at = v.at => v.id <= f.id)
      <4>1. f.at <= e.at /\ (f.at = e.at => e.id <= f.id)
        BY <2>1 DEF Newest
      <4>2. /\ f.at \in Nat /\ f.id \in Nat /\ e.at \in Nat /\ e.id \in Nat
            /\ v.at \in Nat /\ v.id \in Nat
        BY <1>1
      <4> QED
        BY <2>2, <4>1, <4>2
    <3>2. Newest(S \cup {v}, v)
      BY <1>1, <3>1 DEF Newest
    <3> QED
      BY <3>2 DEF HasNewest
  <2>3. CASE ~(v.at > e.at \/ (v.at = e.at /\ v.id < e.id))
    <3>1. v.at <= e.at /\ (v.at = e.at => e.id <= v.id)
      BY <1>1, <2>3
    <3>2. Newest(S \cup {v}, e)
      BY <2>1, <3>1 DEF Newest
    <3> QED
      BY <3>2 DEF HasNewest
  <2> QED
    BY <2>2, <2>3
<1> QED
  BY <1>2, <1>3

\* What Latest finds in one event more is that event or what it found before.
LEMMA LatestGrows ==
    ASSUME NEW S \in SUBSET SessionEvent, S # {}, HasNewest(S), NEW v \in SessionEvent,
           \A e, f \in S : e.id = f.id => e = f
    PROVE  Latest(S \cup {v}) = v \/ Latest(S \cup {v}) = Latest(S)
<1>1. PICK T : T = S \cup {v}
  OBVIOUS
<1>2. T \in SUBSET SessionEvent /\ T # {} /\ HasNewest(T)
  BY <1>1, NewestGrows
<1>3. Newest(T, Latest(T))
  BY <1>2, LatestIsNewest DEF HasNewest
<1>4. Newest(S, Latest(S))
  BY LatestIsNewest DEF HasNewest
<1>5. PICK a : a = Latest(T)
  OBVIOUS
<1>6. PICK b : b = Latest(S)
  OBVIOUS
<1>7. ASSUME a # v PROVE a = b
  <2>1. a \in S /\ b \in S
    BY <1>1, <1>3, <1>4, <1>5, <1>6, <1>7 DEF Newest
  <2>2. a.at \in Nat /\ a.id \in Nat /\ b.at \in Nat /\ b.id \in Nat
    BY <2>1 DEF SessionEvent
  <2>3. b.at <= a.at /\ (b.at = a.at => a.id <= b.id)
    BY <1>1, <1>3, <1>5, <2>1 DEF Newest
  <2>4. a.at <= b.at /\ (a.at = b.at => b.id <= a.id)
    BY <1>4, <1>6, <2>1 DEF Newest
  <2>5. a.id = b.id
    BY <2>2, <2>3, <2>4
  <2> QED
    BY <2>1, <2>5
<1> QED
  BY <1>1, <1>5, <1>6, <1>7

Busy(s) == saving[s] # NotSaving

\* As long as no two saves met, the file has the saves that returned, and the
\* one that is under way is the last begun and has read that file.
Serial ==
    /\ stored = completed
    /\ \A s, t \in Saver : Busy(s) /\ Busy(t) => s = t
    /\ \A e \in completed : e.ctx <= saves
    /\ \A s \in Saver : Busy(s) => \A e \in completed : e.ctx < saving[s].ctx
    /\ \A s \in Saver : saving[s].at = "events" => saving[s].seen = completed
    /\ \A e, f \in completed : e.id = f.id => e = f

SessionInv ==
    /\ SessionTypeOK
    /\ \A s \in Saver : Busy(s) => saving[s].ctx <= saves
    /\ \A s \in Saver : saving[s].at = "events" => HasNewest(saving[s].seen)
    /\ HasNewest(stored)
    /\ ~overlapped => Serial

\* What a session would resume from are numbers of saves, or 0.
LEMMA LoadIsTyped ==
    ASSUME SessionInv
    PROVE  load_session.ctx \in 0..MaxSaves /\ load_session.hist \in 0..MaxSaves
<1>1. CASE stored = {}
  <2>1. load_session = [ctx |-> state, hist |-> hist]
    BY <1>1 DEF load_session
  <2> QED
    BY <2>1 DEF SessionInv, SessionTypeOK
<1>2. CASE stored # {}
  <2>1. PICK l : l = Latest(stored)
    OBVIOUS
  <2>2. l \in SessionEvent
    <3>1. stored \in SUBSET SessionEvent
      BY DEF SessionInv, SessionTypeOK
    <3>2. Newest(stored, Latest(stored))
      BY <1>2, <3>1, LatestIsNewest DEF SessionInv, HasNewest
    <3> QED
      BY <2>1, <3>1, <3>2 DEF Newest
  <2>3. load_session = [ctx |-> l.ctx, hist |-> l.hist]
    BY <1>2, <2>1 DEF load_session
  <2>4. l.ctx \in 0..MaxSaves /\ l.hist \in 0..MaxSaves
    BY <2>2, SessionAssumption DEF SessionEvent
  <2> QED
    BY <2>3, <2>4
<1> QED
  BY <1>1, <1>2

\* Nothing is saved at first.
LEMMA SessionFresh == SessionInit => SessionInv
<1> SUFFICES ASSUME SessionInit PROVE SessionInv
  OBVIOUS
<1>1. \A s \in Saver : saving[s] = NotSaving /\ saving[s].at # "events"
  BY DEF SessionInit, NotSaving
<1>2. SessionTypeOK
  <2>1. NotSaving \in SaverState
    BY DEF SaverState
  <2>2. saving = [s \in Saver |-> NotSaving]
    BY DEF SessionInit
  <2>3. saving \in [Saver -> SaverState]
    BY <2>1, <2>2
  <2>4. 0 \in 0..MaxSaves /\ 0 \in 0..MaxTime
    BY SessionAssumption
  <2>5. /\ state = 0 /\ hist = 0 /\ saves = 0 /\ clock = 0
        /\ stored = {} /\ completed = {} /\ overlapped \in BOOLEAN
    BY DEF SessionInit
  <2> QED
    BY <2>3, <2>4, <2>5 DEF SessionTypeOK
<1> QED
  BY <1>1, <1>2 DEF SessionInv, SessionInit, Serial, Busy, HasNewest

\* A step of the server that leaves the session alone leaves its part.
LEMMA SessionQuiet == SessionInv /\ UNCHANGED sessionVars => SessionInv'
<1> SUFFICES ASSUME SessionInv, UNCHANGED sessionVars PROVE SessionInv'
  OBVIOUS
<1>1. UNCHANGED <<state, hist, stored, saving, saves, clock, completed, overlapped>>
  BY DEF sessionVars
<1> QED
  BY <1>1 DEF SessionInv, SessionTypeOK, Serial, Busy

\* What a step does that changes neither the savers nor the file of events.
LEMMA FilesKeepSession ==
    ASSUME SessionInv, ClearState \/ ClearHistory \/ Tick
    PROVE  SessionInv'
<1>1. UNCHANGED <<stored, saving, saves, completed, overlapped>>
  BY DEF ClearState, ClearHistory, Tick
<1>2. SessionTypeOK'
  BY <1>1, SessionAssumption DEF SessionInv, SessionTypeOK, ClearState, ClearHistory, Tick
<1> QED
  BY <1>1, <1>2 DEF SessionInv, Serial, Busy

\* A saver begins: it is the only one, or saves have overlapped.
LEMMA SaveStateKeeps == ASSUME SessionInv, NEW s \in Saver, SaveState(s) PROVE SessionInv'
<1>1. PICK n \in Nat : n = saves
  BY DEF SessionInv, SessionTypeOK
<1>2. PICK h \in {n + 1, load_session.hist} :
          saving' = [saving EXCEPT ![s] = [at |-> "state", ctx |-> n + 1, hist |-> h, time |-> clock]]
  BY <1>1 DEF SaveState
<1>3. PICK r : r = [at |-> "state", ctx |-> n + 1, hist |-> h, time |-> clock]
  OBVIOUS
<1>4. /\ saves' = n + 1 /\ state' = n + 1 /\ n < MaxSaves
      /\ overlapped' = (overlapped \/ SavingNow # {})
      /\ UNCHANGED <<hist, stored, clock, completed>>
  BY <1>1 DEF SaveState
<1>5. n + 1 \in 1..MaxSaves /\ h \in 0..MaxSaves
  BY <1>4, LoadIsTyped, SessionAssumption
<1>6. r \in SaverState /\ r # NotSaving /\ r.ctx = n + 1 /\ r.at # "events"
  <2>1. r \in [at : {"state", "hist"}, ctx : 1..MaxSaves, hist : 0..MaxSaves, time : 0..MaxTime]
    BY <1>3, <1>5 DEF SessionInv, SessionTypeOK
  <2>2. r.at = "state" /\ NotSaving.at = "idle"
    BY <1>3 DEF NotSaving
  <2> QED
    BY <1>3, <2>1, <2>2 DEF SaverState
<1>7. /\ saving' = [saving EXCEPT ![s] = r] /\ saving'[s] = r
      /\ \A t \in Saver : t # s => saving'[t] = saving[t]
  BY <1>2, <1>3 DEF SessionInv, SessionTypeOK
<1>8. SessionTypeOK'
  BY <1>4, <1>5, <1>6, <1>7 DEF SessionInv, SessionTypeOK
<1>9. ASSUME NEW t \in Saver, Busy(t)' PROVE saving'[t].ctx <= saves'
  <2>1. CASE t = s
    BY <1>4, <1>6, <1>7, <2>1
  <2>2. CASE t # s
    <3>1. Busy(t) /\ saving'[t] = saving[t]
      BY <1>7, <1>9, <2>2 DEF Busy
    <3>2. saving[t].ctx <= n /\ saving[t].ctx \in Nat
      <4>1. saving[t] \in SaverState
        BY DEF SessionInv, SessionTypeOK
      <4> QED
        BY <1>1, <3>1, <4>1 DEF SessionInv, SaverState, Busy
    <3> QED
      BY <1>4, <3>1, <3>2
  <2> QED
    BY <2>1, <2>2
<1>10. ASSUME NEW t \in Saver, saving'[t].at = "events"
       PROVE  t # s /\ saving'[t] = saving[t]
  BY <1>6, <1>7, <1>10
<1>11. ASSUME ~overlapped' PROVE Serial'
  <2>1. ~overlapped /\ Serial /\ \A t \in Saver : ~Busy(t)
    BY <1>4, <1>11 DEF SavingNow, Busy, SessionInv
  <2>2. \A t \in Saver : Busy(t)' => t = s
    BY <1>7, <2>1 DEF Busy
  <2>3. \A e \in completed : e.ctx <= n /\ e.ctx \in Nat
    BY <1>1, <2>1 DEF Serial, SessionInv, SessionTypeOK, SessionEvent
  <2>4. \A e \in completed : e.ctx <= n + 1 /\ e.ctx < n + 1
    BY <2>3
  <2> QED
    BY <1>4, <1>6, <1>7, <1>10, <2>1, <2>2, <2>4 DEF Serial
<1> QED
  BY <1>4, <1>8, <1>9, <1>10, <1>11 DEF SessionInv

\* A saver goes on with its own save: the history, then a look at the events.
LEMMA SaverGoesOn ==
    ASSUME SessionInv, NEW s \in Saver, SaveHistory(s) \/ LoadEvents(s)
    PROVE  SessionInv'
<1>1. UNCHANGED <<state, stored, saves, clock, completed, overlapped>>
  BY DEF SaveHistory, LoadEvents
<1>2. PICK r : saving' = [saving EXCEPT ![s] = r]
  BY DEF SaveHistory, LoadEvents
<1>3. /\ saving'[s] = r
      /\ \A t \in Saver : t # s => saving'[t] = saving[t]
  BY <1>2 DEF SessionInv, SessionTypeOK
<1>4. /\ r \in SaverState /\ r # NotSaving /\ Busy(s) /\ r.ctx = saving[s].ctx
      /\ r.at = "events" => r.seen = stored
      /\ hist' \in 0..MaxSaves
  <2>1. PICK u : u = saving[s]
    OBVIOUS
  <2>2. u \in SaverState
    BY <2>1 DEF SessionInv, SessionTypeOK
  <2>3. u.at \in {"state", "hist"} /\ u # NotSaving
    BY <2>1 DEF SaveHistory, LoadEvents, NotSaving
  <2>4. u \in [at : {"state", "hist"}, ctx : 1..MaxSaves, hist : 0..MaxSaves, time : 0..MaxTime]
    BY <2>2, <2>3 DEF SaverState
  <2>5. CASE SaveHistory(s)
    <3>1. r = [u EXCEPT !.at = "hist"] /\ hist' = u.hist
      BY <1>3, <2>1, <2>5 DEF SaveHistory, SessionInv, SessionTypeOK
    <3>2. /\ r \in [at : {"state", "hist"}, ctx : 1..MaxSaves, hist : 0..MaxSaves, time : 0..MaxTime]
          /\ r.at = "hist" /\ r.ctx = u.ctx
      BY <2>4, <3>1
    <3>3. r \in SaverState /\ r # NotSaving
      BY <3>2 DEF SaverState, NotSaving
    <3> QED
      BY <2>1, <2>3, <2>4, <3>1, <3>2, <3>3 DEF Busy
  <2>6. CASE LoadEvents(s)
    <3>1. r = [at |-> "events", ctx |-> u.ctx, hist |-> u.hist, time |-> u.time, seen |-> stored] /\ hist' = hist
      BY <1>3, <2>1, <2>6 DEF LoadEvents, SessionInv, SessionTypeOK
    <3>2. stored \in SUBSET SessionEvent
      BY DEF SessionInv, SessionTypeOK
    <3>3. r \in [at : {"events"}, ctx : 1..MaxSaves, hist : 0..MaxSaves, time : 0..MaxTime, seen : SUBSET SessionEvent]
      BY <2>4, <3>1, <3>2
    <3>4. r \in SaverState /\ r.at = "events" /\ r.ctx = u.ctx /\ r.seen = stored
      BY <3>1, <3>3 DEF SaverState
    <3>5. r # NotSaving
      BY <3>4 DEF NotSaving
    <3> QED
      BY <2>1, <2>3, <3>1, <3>4, <3>5 DEF Busy, SessionInv, SessionTypeOK
  <2> QED
    BY <2>5, <2>6
<1>5. SessionTypeOK'
  BY <1>1, <1>2, <1>4 DEF SessionInv, SessionTypeOK
<1>6. ASSUME NEW t \in Saver PROVE (Busy(t)' <=> Busy(t)) /\ (Busy(t) => saving'[t].ctx = saving[t].ctx)
  BY <1>3, <1>4 DEF Busy
<1>7. ASSUME NEW t \in Saver, saving'[t].at = "events"
      PROVE  saving'[t].seen = stored \/ (saving[t].at = "events" /\ saving'[t].seen = saving[t].seen)
  BY <1>3, <1>4, <1>7
<1>8. ASSUME Serial PROVE Serial'
  BY <1>1, <1>6, <1>7, <1>8 DEF Serial
<1> QED
  BY <1>1, <1>5, <1>6, <1>7, <1>8 DEF SessionInv

\* A save that is cut short leaves no event.
LEMMA SaveFailsKeeps == ASSUME SessionInv, NEW s \in Saver, SaveFails(s) PROVE SessionInv'
<1>1. /\ UNCHANGED <<state, hist, stored, saves, clock, completed, overlapped>>
      /\ saving' = [saving EXCEPT ![s] = NotSaving]
  BY DEF SaveFails
<1>2. /\ saving'[s] = NotSaving
      /\ \A t \in Saver : t # s => saving'[t] = saving[t]
  BY <1>1 DEF SessionInv, SessionTypeOK
<1>3. SessionTypeOK'
  <2>1. NotSaving \in SaverState
    BY DEF SaverState
  <2> QED
    BY <1>1, <2>1 DEF SessionInv, SessionTypeOK
<1>4. ASSUME NEW t \in Saver, Busy(t)' \/ saving'[t].at = "events"
      PROVE  saving'[t] = saving[t] /\ t # s
  BY <1>2, <1>4 DEF Busy, NotSaving
<1>5. ASSUME NEW t \in Saver, Busy(t)' PROVE Busy(t) /\ saving'[t].ctx = saving[t].ctx
  BY <1>4, <1>5 DEF Busy
<1>6. ASSUME NEW t \in Saver, saving'[t].at = "events"
      PROVE  saving[t].at = "events" /\ saving'[t].seen = saving[t].seen
  BY <1>4, <1>6
<1>7. ASSUME Serial PROVE Serial'
  BY <1>1, <1>5, <1>6, <1>7 DEF Serial
<1> QED
  BY <1>1, <1>3, <1>5, <1>6, <1>7 DEF SessionInv

\* A save returns: its event joins those that it read.
LEMMA SaveEventsKeeps ==
    ASSUME SessionInv, NEW s \in Saver, SaveEvents(s)
    PROVE  /\ SessionInv'
           /\ completed \subseteq completed'
           /\ ~overlapped /\ completed # {} =>
                 Latest(stored') = Latest(stored) \/ (Latest(stored').ctx > Latest(stored).ctx)
<1>1. PICK u : u = saving[s]
  OBVIOUS
<1>2. /\ u.at = "events"
      /\ u \in [at : {"events"}, ctx : 1..MaxSaves, hist : 0..MaxSaves, time : 0..MaxTime,
                seen : SUBSET SessionEvent]
      /\ Busy(s)
  <2>1. u \in SaverState /\ u.at = "events"
    BY <1>1 DEF SaveEvents, SessionInv, SessionTypeOK
  <2> QED
    BY <1>1, <2>1 DEF SaverState, NotSaving, Busy
<1>3. PICK id \in (1..MaxSaves) \ {e.id : e \in stored \cup u.seen \cup completed} :
          /\ stored' = u.seen \cup {[ctx |-> u.ctx, hist |-> u.hist, at |-> u.time, id |-> id]}
          /\ completed' = completed \cup {[ctx |-> u.ctx, hist |-> u.hist, at |-> u.time, id |-> id]}
  BY <1>1 DEF SaveEvents
<1>4. PICK v : v = [ctx |-> u.ctx, hist |-> u.hist, at |-> u.time, id |-> id]
  OBVIOUS
<1>5. /\ v \in SessionEvent /\ v.ctx = u.ctx /\ v.id = id
      /\ stored' = u.seen \cup {v} /\ completed' = completed \cup {v}
      /\ \A e \in completed : e.id # v.id
  BY <1>2, <1>3, <1>4 DEF SessionEvent
<1>6. /\ UNCHANGED <<state, hist, saves, clock, overlapped>>
      /\ saving' = [saving EXCEPT ![s] = NotSaving]
  BY DEF SaveEvents
<1>7. /\ saving'[s] = NotSaving
      /\ \A t \in Saver : t # s => saving'[t] = saving[t]
  BY <1>6 DEF SessionInv, SessionTypeOK
<1>8. SessionTypeOK'
  <2>1. NotSaving \in SaverState
    BY DEF SaverState
  <2>2. stored' \subseteq SessionEvent /\ completed' \subseteq SessionEvent
    BY <1>2, <1>5 DEF SessionInv, SessionTypeOK
  <2> QED
    BY <1>6, <2>1, <2>2 DEF SessionInv, SessionTypeOK
<1>9. ASSUME NEW t \in Saver, Busy(t)' \/ saving'[t].at = "events"
      PROVE  saving'[t] = saving[t] /\ t # s
  BY <1>7, <1>9 DEF Busy, NotSaving
<1>10. ASSUME NEW t \in Saver, Busy(t)' PROVE Busy(t) /\ saving'[t].ctx = saving[t].ctx
  BY <1>9, <1>10 DEF Busy
<1>11. ASSUME NEW t \in Saver, saving'[t].at = "events"
       PROVE  saving[t].at = "events" /\ saving'[t].seen = saving[t].seen /\ t # s
  BY <1>9, <1>11
<1>12. HasNewest(stored')
  <2>1. HasNewest(u.seen) /\ u.seen \in SUBSET SessionEvent
    BY <1>1, <1>2 DEF SessionInv
  <2>2. HasNewest(u.seen \cup {v})
    BY <1>5, <2>1, NewestGrows
  <2> QED
    BY <1>5, <2>2
<1>13. ASSUME Serial
       PROVE  /\ u.seen = completed /\ stored = completed /\ stored' = completed'
              /\ \A t \in Saver : ~Busy(t)'
              /\ \A e \in completed : e.ctx < v.ctx
  <2>1. u.seen = completed /\ stored = completed /\ \A e \in completed : e.ctx < u.ctx
    BY <1>1, <1>2, <1>13 DEF Serial
  <2>2. \A t \in Saver : ~Busy(t)'
    BY <1>2, <1>9, <1>10, <1>13 DEF Serial
  <2> QED
    BY <1>5, <2>1, <2>2
<1>14. ASSUME Serial PROVE Serial'
  <2>1. \A e \in completed' : e.ctx <= saves
    <3>1. u.ctx <= saves
      BY <1>1, <1>2 DEF SessionInv
    <3> QED
      BY <1>5, <1>14, <3>1 DEF Serial
  <2>2. \A e, f \in completed' : e.id = f.id => e = f
    BY <1>5, <1>14 DEF Serial
  <2>3. ASSUME NEW t \in Saver PROVE saving'[t].at # "events"
    <3>1. saving'[t] = NotSaving
      BY <1>13, <1>14 DEF Busy
    <3> QED
      BY <3>1 DEF NotSaving
  <2>4. saves' = saves /\ stored' = completed' /\ \A t \in Saver : ~Busy(t)'
    BY <1>6, <1>13, <1>14
  <2> QED
    BY <2>1, <2>2, <2>3, <2>4 DEF Serial
<1>15. SessionInv'
  BY <1>6, <1>8, <1>10, <1>11, <1>12, <1>14 DEF SessionInv
<1>16. ASSUME ~overlapped, completed # {}
       PROVE  Latest(stored') = Latest(stored) \/ (Latest(stored').ctx > Latest(stored).ctx)
  <2>1. Serial /\ HasNewest(completed) /\ completed \in SUBSET SessionEvent
    BY <1>16 DEF SessionInv, SessionTypeOK, Serial
  <2>2. \A e, f \in completed : e.id = f.id => e = f
    BY <2>1 DEF Serial
  <2>3. Latest(completed \cup {v}) = v \/ Latest(completed \cup {v}) = Latest(completed)
    BY <1>5, <1>16, <2>1, <2>2, LatestGrows
  <2>4. Latest(completed) \in completed
    BY <1>16, <2>1, LatestIsNewest DEF HasNewest, Newest
  <2>5. stored = completed /\ stored' = completed \cup {v}
    BY <1>5, <1>13, <2>1
  <2>6. Latest(completed).ctx < v.ctx /\ Latest(completed).ctx \in Nat /\ v.ctx \in Nat
    BY <1>5, <1>13, <2>1, <2>4, SessionAssumption DEF SessionEvent
  <2> QED
    BY <2>3, <2>5, <2>6
<1> QED
  BY <1>5, <1>15, <1>16

\* The invariant says what ResumesLatestSave does.
LEMMA SessionResumes == SessionInv => ResumesLatestSave
<1> SUFFICES ASSUME SessionInv, ~overlapped, completed # {}
             PROVE  \E e \in completed : /\ load_session = [ctx |-> e.ctx, hist |-> e.hist]
                                         /\ \A f \in completed : e.at >= f.at
  BY DEF ResumesLatestSave
<1>1. stored = completed /\ HasNewest(completed) /\ completed \in SUBSET SessionEvent
  BY DEF SessionInv, SessionTypeOK, Serial
<1>2. PICK l : l = Latest(completed)
  OBVIOUS
<1>3. Newest(completed, l)
  BY <1>1, <1>2, LatestIsNewest DEF HasNewest
<1>4. load_session = [ctx |-> l.ctx, hist |-> l.hist]
  BY <1>1, <1>2 DEF load_session
<1>5. l \in completed /\ \A f \in completed : f.at <= l.at /\ f.at \in Nat /\ l.at \in Nat
  BY <1>1, <1>3 DEF Newest, SessionEvent
<1> QED
  BY <1>4, <1>5

-----------------------------------------------------------------------------
(* The seed of a new session.                                              *)

\* After the first of its two loads the seed has the context of a save that
\* returned, which is no later than what the second load will find.
SeedInv ==
    /\ seed \in [step : {"summary", "turns", "done"}, ctx : 0..MaxSaves, hist : 0..MaxSaves, sure : BOOLEAN]
    /\ seed.step = "turns" /\ seed.sure /\ ~overlapped =>
          \E e \in completed : e.ctx = seed.ctx /\ e.ctx <= Latest(stored).ctx
    /\ SeedTurnsNotOlder

\* A start has no seed yet.
LEMMA SeedFresh == seed = NoSeed => SeedInv
<1> SUFFICES ASSUME seed = NoSeed PROVE SeedInv
  OBVIOUS
<1>1. 0 \in 0..MaxSaves
  BY SessionAssumption
<1> QED
  BY <1>1 DEF NoSeed, SeedInv, SeedTurnsNotOlder

\* Steps that neither seed nor save.
LEMMA SeedQuiet == SeedInv /\ UNCHANGED <<seed, completed, stored, overlapped>> => SeedInv'
BY DEF SeedInv, SeedTurnsNotOlder

\* What Latest finds is among the saves that returned, when none met another.
LEMMA LatestIsCompleted ==
    ASSUME SessionInv, ~overlapped, completed # {}
    PROVE  /\ Latest(stored) \in completed /\ stored # {}
           /\ load_session = [ctx |-> Latest(stored).ctx, hist |-> Latest(stored).hist]
           /\ \A e \in completed : e.ctx \in Nat
<1>1. stored = completed /\ HasNewest(completed) /\ completed \in SUBSET SessionEvent
  BY DEF SessionInv, SessionTypeOK, Serial
<1>2. Newest(completed, Latest(completed))
  BY <1>1, LatestIsNewest DEF HasNewest
<1> QED
  BY <1>1, <1>2 DEF Newest, load_session, SessionEvent

\* The steps of a saver or of its client leave the seed behind what is saved.
LEMMA SavingKeepsSeed ==
    ASSUME SessionInv, SeedInv, SessionStep \/ SessionRequest, UNCHANGED seed
    PROVE  SeedInv'
<1>1. CASE \E s \in Saver : SaveEvents(s)
  <2>1. PICK s \in Saver : SaveEvents(s)
    BY <1>1
  <2>2. /\ SessionInv' /\ completed \subseteq completed' /\ overlapped' = overlapped
        /\ ~overlapped /\ completed # {} =>
              Latest(stored') = Latest(stored) \/ (Latest(stored').ctx > Latest(stored).ctx)
    BY <2>1, SaveEventsKeeps DEF SaveEvents
  <2>3. ASSUME seed.step = "turns", seed.sure, ~overlapped
        PROVE  \E e \in completed' : e.ctx = seed.ctx /\ e.ctx <= Latest(stored').ctx
    <3>1. PICK e \in completed : e.ctx = seed.ctx /\ e.ctx <= Latest(stored).ctx
      BY <2>3 DEF SeedInv
    <3>2. Latest(stored) \in completed /\ Latest(stored).ctx \in Nat /\ e.ctx \in Nat
      BY <2>3, <3>1, LatestIsCompleted
    <3>3. Latest(stored') \in completed' /\ Latest(stored').ctx \in Nat
      <4>1. PICK S : S = stored'
        OBVIOUS
      <4>2. HasNewest(S) /\ S \in SUBSET SessionEvent /\ S # {} /\ S = completed'
        BY <2>2, <2>3, <3>1, <4>1 DEF SessionInv, SessionTypeOK, Serial
      <4>3. Newest(S, Latest(S))
        BY <4>2, LatestIsNewest DEF HasNewest
      <4> QED
        BY <4>1, <4>2, <4>3 DEF Newest, SessionEvent
    <3>4. e.ctx <= Latest(stored').ctx
      BY <2>2, <2>3, <3>1, <3>2, <3>3
    <3> QED
      BY <2>2, <3>1, <3>4
  <2>4. SeedTurnsNotOlder'
    BY <2>2 DEF SeedInv, SeedTurnsNotOlder
  <2> QED
    BY <2>2, <2>3, <2>4 DEF SeedInv
<1>2. CASE ~\E s \in Saver : SaveEvents(s)
  <2>1. UNCHANGED <<completed, stored>> /\ (~overlapped' => ~overlapped)
    <3>1. ASSUME ClearState \/ ClearHistory \/ Tick
          PROVE  UNCHANGED <<completed, stored>> /\ (~overlapped' => ~overlapped)
      BY <3>1 DEF ClearState, ClearHistory, Tick
    <3>2. ASSUME NEW s \in Saver, SaveHistory(s) \/ LoadEvents(s) \/ SaveFails(s)
          PROVE  UNCHANGED <<completed, stored>> /\ (~overlapped' => ~overlapped)
      BY <3>2 DEF SaveHistory, LoadEvents, SaveFails
    <3>3. ASSUME NEW s \in Saver, SaveState(s)
          PROVE  UNCHANGED <<completed, stored>> /\ (~overlapped' => ~overlapped)
      <4>1. UNCHANGED <<completed, stored>> /\ overlapped' = (overlapped \/ SavingNow # {})
        BY <3>3 DEF SaveState
      <4> QED
        BY <4>1
    <3> QED
      BY <1>2, <3>1, <3>2, <3>3 DEF SessionStep, SessionRequest
  <2> QED
    BY <2>1 DEF SeedInv, SeedTurnsNotOlder
<1> QED
  BY <1>1, <1>2

\* The two loads of the seed.
LEMMA SeedingKeeps == ASSUME SessionInv, SeedInv, Seeding PROVE SeedInv'
<1>1. /\ UNCHANGED <<stored, completed, overlapped>>
      /\ Latest(stored') = Latest(stored)
  BY DEF Seeding, SeedSummary, SeedTurns, sessionVars
<1>2. PICK w : w = load_session
  OBVIOUS
<1>3. w.ctx \in 0..MaxSaves /\ w.hist \in 0..MaxSaves
  BY <1>2, LoadIsTyped
<1>4. CASE SeedSummary
  <2>1. seed' = [step |-> "turns", ctx |-> w.ctx, hist |-> 0, sure |-> completed # {} /\ ~overlapped]
    BY <1>2, <1>4 DEF SeedSummary
  <2>2. PICK b \in BOOLEAN : b <=> completed # {} /\ ~overlapped
    OBVIOUS
  <2>3. b = (completed # {} /\ ~overlapped)
    BY <2>2
  <2>4. seed' = [step |-> "turns", ctx |-> w.ctx, hist |-> 0, sure |-> b]
    BY <2>1, <2>3
  <2>5. seed' \in [step : {"summary", "turns", "done"}, ctx : 0..MaxSaves, hist : 0..MaxSaves, sure : BOOLEAN]
    BY <1>3, <2>4, SessionAssumption
  <2>6. ASSUME seed'.sure PROVE \E e \in completed : e.ctx = seed'.ctx /\ e.ctx <= Latest(stored).ctx
    <3>1. completed # {} /\ ~overlapped /\ seed'.ctx = w.ctx
      BY <2>2, <2>4, <2>6
    <3>2. Latest(stored) \in completed /\ Latest(stored).ctx \in Nat /\ w.ctx = Latest(stored).ctx
      BY <1>2, <3>1, LatestIsCompleted
    <3>3. PICK e \in completed : e = Latest(stored)
      BY <3>2
    <3> QED
      BY <3>1, <3>2, <3>3
  <2>7. seed'.step = "turns"
    BY <2>4
  <2> QED
    BY <1>1, <2>5, <2>6, <2>7 DEF SeedInv, SeedTurnsNotOlder
<1>5. CASE SeedTurns
  <2>1. /\ seed.step = "turns"
        /\ seed' = [seed EXCEPT !.step = "done", !.hist = w.hist, !.sure = @ /\ ~overlapped]
    BY <1>2, <1>5 DEF SeedTurns
  <2>2. PICK b \in BOOLEAN : b <=> seed.sure /\ ~overlapped
    OBVIOUS
  <2>3. b = (seed.sure /\ ~overlapped)
    BY <2>2 DEF SeedInv
  <2>4. seed' = [seed EXCEPT !.step = "done", !.hist = w.hist, !.sure = b]
    BY <2>1, <2>3
  <2>5. /\ seed' \in [step : {"summary", "turns", "done"}, ctx : 0..MaxSaves, hist : 0..MaxSaves, sure : BOOLEAN]
        /\ seed'.step = "done" /\ seed'.hist = w.hist /\ seed'.ctx = seed.ctx /\ seed'.sure = b
    BY <1>3, <2>4 DEF SeedInv
  <2>6. ASSUME seed'.sure
        PROVE  \E e, f \in completed : e.ctx = seed'.ctx /\ f.hist = seed'.hist /\ e.ctx <= f.ctx
    <3>1. seed.sure /\ ~overlapped
      BY <2>2, <2>5, <2>6
    <3>2. PICK e \in completed : e.ctx = seed.ctx /\ e.ctx <= Latest(stored).ctx
      BY <2>1, <3>1 DEF SeedInv
    <3>3. Latest(stored) \in completed /\ w.hist = Latest(stored).hist
      BY <1>2, <3>1, <3>2, LatestIsCompleted
    <3>4. PICK f \in completed : f = Latest(stored)
      BY <3>3
    <3> QED
      BY <2>5, <3>2, <3>3, <3>4
  <2> QED
    BY <1>1, <2>5, <2>6 DEF SeedInv, SeedTurnsNotOlder
<1> QED
  BY <1>4, <1>5 DEF Seeding

-----------------------------------------------------------------------------
(* The server.                                                             *)

\* The invariant of the server: of its thread, its bus, its session, its seed.
ServerInv == /\ ThreadInv
             /\ BusInv
             /\ SessionInv
             /\ SeedInv
             /\ deaths \in 0..MaxDeaths
             /\ todo \in [thread : Nat, session : Nat]

\* A new process has a thread and a bus as at the first start.
LEMMA DeathIsAFreshStart == ServerDies => ThreadInv' /\ BusInv' /\ seed' = NoSeed /\ UNCHANGED sessionVars
<1>1. AgentInit => ThreadInv /\ BusInv
  BY ThreadFresh, BusFresh
<1>2. AgentInit' => ThreadInv' /\ BusInv'
  BY <1>1, PTL
<1>3. ServerDies => AgentInit' /\ seed' = NoSeed /\ UNCHANGED sessionVars
  BY DEF ServerDies, AgentInit
<1> QED
  BY <1>2, <1>3

\* The steps of the thread, of its handlers and of its clients.
LEMMA AgentKeeps == ASSUME ThreadInv, BusInv, AgentStep \/ AgentRequest PROVE ThreadInv' /\ BusInv'
<1>1. CASE ThreadStep
  <2>1. Emit \/ UNCHANGED busVars
    BY <1>1 DEF ThreadStep, Started, StartFails, Crashed, TakeText, TakeEnd, Output, TurnDone
  <2> QED
    BY <1>1, <2>1, RunKeepsThread, EmitKeepsBus, BusQuiet
<1>2. CASE send \/ EndSession
  <2>1. UNCHANGED busVars
    BY <1>2 DEF send, EndSession
  <2> QED
    BY <1>2, <2>1, RequestKeepsThread, BusQuiet
<1>3. ASSUME NEW c \in Listener, Listen(c) \/ Hear(c) \/ ClientLeaves(c) \/ Unsubscribe(c)
      PROVE  ThreadInv' /\ BusInv'
  <2>1. UNCHANGED threadVars
    BY <1>3 DEF Listen, Hear, ClientLeaves, Unsubscribe
  <2> QED
    BY <1>3, <2>1, ThreadQuiet, ListenerKeepsBus
<1> QED
  BY <1>1, <1>2, <1>3 DEF AgentStep, AgentRequest

\* The steps of the savers.
LEMMA SavingKeeps == ASSUME SessionInv, SessionStep \/ SessionRequest PROVE SessionInv'
BY FilesKeepSession, SaveStateKeeps, SaverGoesOn, SaveEventsKeeps, SaveFailsKeeps
   DEF SessionStep, SessionRequest

\* Every step of the server keeps the invariant.
LEMMA NextServer == ServerInv /\ [ServerNext]_serverVars => ServerInv'
<1> SUFFICES ASSUME ServerInv, [ServerNext]_serverVars PROVE ServerInv'
  OBVIOUS
<1>1. ThreadInv /\ BusInv /\ SessionInv /\ SeedInv
  BY DEF ServerInv
<1>2. UNCHANGED agentVars => ThreadInv' /\ BusInv'
  BY <1>1, ThreadQuiet, BusQuiet DEF agentVars
<1>3. UNCHANGED <<seed, sessionVars>> => SessionInv' /\ SeedInv'
  BY <1>1, SessionQuiet, SeedQuiet DEF sessionVars
<1>4. ASSUME SessionStep \/ SessionRequest, UNCHANGED seed PROVE SessionInv' /\ SeedInv'
  BY <1>1, <1>4, SavingKeeps, SavingKeepsSeed
<1>5. CASE UNCHANGED serverVars
  <2>1. UNCHANGED agentVars /\ UNCHANGED <<seed, sessionVars>> /\ UNCHANGED <<deaths, todo>>
    BY <1>5 DEF serverVars
  <2> QED
    BY <1>2, <1>3, <2>1 DEF ServerInv
<1>6. CASE Seeding
  <2>1. UNCHANGED <<sessionVars, deaths, todo, busVars>>
    BY <1>6 DEF Seeding, SeedSummary, SeedTurns, agentVars
  <2>2. ThreadInv'
    <3>1. UNCHANGED <<inbox, posted, turn, answered>> /\ agent' \in {"seeding", "started"} /\ agent = "seeding"
      BY <1>6 DEF Seeding, SeedSummary, SeedTurns, agentVars, threadVars
    <3>2. Taken' = Taken
      BY <3>1 DEF Taken
    <3> QED
      BY <1>1, <3>1, <3>2 DEF ThreadInv, Holds
  <2>3. BusInv' /\ SessionInv' /\ SeedInv'
    BY <1>1, <1>6, <2>1, BusQuiet, SessionQuiet, SeedingKeeps
  <2> QED
    BY <2>1, <2>2, <2>3 DEF ServerInv
<1>7. CASE ServerDies
  <2>1. ThreadInv' /\ BusInv' /\ seed' = NoSeed /\ UNCHANGED sessionVars
    BY <1>7, DeathIsAFreshStart
  <2>2. SessionInv'
    BY <1>1, <2>1, SessionQuiet
  <2>3. SeedInv'
    <3>1. 0 \in 0..MaxSaves
      BY SessionAssumption
    <3> QED
      BY <2>1, <3>1 DEF NoSeed, SeedInv, SeedTurnsNotOlder
  <2>4. deaths' \in 0..MaxDeaths /\ todo' = todo
    BY <1>7, ServerAssumption DEF ServerDies, ServerInv
  <2> QED
    BY <2>1, <2>2, <2>3, <2>4 DEF ServerInv
<1>8. CASE ServerRequest
  <2>1. UNCHANGED <<seed, deaths>>
    BY <1>8 DEF ServerRequest
  <2>2. CASE todo.thread > 0 /\ todo' = [todo EXCEPT !.thread = @ - 1] /\ AgentRequest /\ UNCHANGED sessionVars
    <3>1. todo' \in [thread : Nat, session : Nat]
      BY <2>2 DEF ServerInv
    <3> QED
      BY <1>1, <1>3, <2>1, <2>2, <3>1, AgentKeeps DEF ServerInv
  <2>3. CASE todo.session > 0 /\ todo' = [todo EXCEPT !.session = @ - 1] /\ SessionRequest /\ UNCHANGED agentVars
    <3>1. todo' \in [thread : Nat, session : Nat]
      BY <2>3 DEF ServerInv
    <3> QED
      BY <1>2, <1>4, <2>1, <2>3, <3>1 DEF ServerInv
  <2> QED
    BY <1>8, <2>2, <2>3 DEF ServerRequest
<1>9. CASE AgentStep /\ UNCHANGED <<sessionVars, seed, deaths, todo>>
  BY <1>1, <1>3, <1>9, AgentKeeps DEF ServerInv
<1>10. CASE SessionStep /\ UNCHANGED <<agentVars, seed, deaths, todo>>
  BY <1>2, <1>4, <1>10 DEF ServerInv
<1> QED
  BY <1>5, <1>6, <1>7, <1>8, <1>9, <1>10 DEF ServerNext

\* The invariant holds in every behaviour of the server.
LEMMA ServerInvariant == ServerSpec => []ServerInv
<1>1. ServerInit => ServerInv
  <2> SUFFICES ASSUME ServerInit PROVE ServerInv
    OBVIOUS
  <2>1. AgentInit /\ SessionInit /\ seed = NoSeed /\ deaths = 0 /\ todo \in Workload
    BY DEF ServerInit
  <2>2. deaths \in 0..MaxDeaths /\ todo \in [thread : Nat, session : Nat]
    BY <2>1, ServerAssumption
  <2> QED
    BY <2>1, <2>2, ThreadFresh, BusFresh, SessionFresh, SeedFresh DEF ServerInv
<1> QED
  BY <1>1, NextServer, PTL DEF ServerSpec

\* Type correctness of the server, its thread, its bus and its session files.
THEOREM ServerTypeCorrect == ServerSpec => []ServerTypeOK
<1>1. ServerInv => ServerTypeOK
  <2>1. BusInv => \A c \in Listener : offered[c] \in Seq(1..emitted) /\ Len(offered[c]) <= ListenerMax
    BY DEF BusInv, ListenerInv
  <2> QED
    BY <2>1 DEF ServerInv, ServerTypeOK, AgentTypeOK, ThreadInv, BusInv, SessionInv, SeedInv
<1> QED
  BY <1>1, ServerInvariant, PTL

\* Whatever turns raise, and however often the session ends or the process
\* dies, the texts that /api/send accepted are answered or wait, in order.
THEOREM TextsStayInOrder == ServerSpec => []TextsInOrder
<1>1. ServerInv => TextsInOrder
  BY ThreadTexts DEF ServerInv
<1> QED
  BY <1>1, ServerInvariant, PTL

\* A listener of /api/events misses only what met its queue full.
THEOREM ListenersMissOnlyDropped == ServerSpec => []MissesOnlyDropped
<1>1. ServerInv => MissesOnlyDropped
  BY BusMisses DEF ServerInv
<1> QED
  BY <1>1, ServerInvariant, PTL

\* A session resumes from one save that returned, the latest by its second,
\* unless saves have met.
THEOREM SessionsResumeWhole == ServerSpec => []ResumesLatestSave
<1>1. ServerInv => ResumesLatestSave
  BY SessionResumes DEF ServerInv
<1> QED
  BY <1>1, ServerInvariant, PTL

\* The two loads of a seed, with saves around them, go forward.
THEOREM SeedsGoForward == ServerSpec => []SeedTurnsNotOlder
<1>1. ServerInv => SeedTurnsNotOlder
  BY DEF ServerInv, SeedInv
<1> QED
  BY <1>1, ServerInvariant, PTL

=============================================================================
