---------------------------- MODULE AgentThread -----------------------------
(***************************************************************************)
(* The agent session of serve.py: the inbox and the thread of              *)
(* _AgentThread, the _EventBus, and the _sse handlers of its clients.      *)
(*                                                                         *)
(* Texts and events are numbered.  A turn emits what AgentRunner's         *)
(* _handle_command emits through the bus, at most MaxOutput events here,   *)
(* an error if it raises, and then turn_done.                              *)
(***************************************************************************)
EXTENDS Naturals, Sequences, SequencesExt

CONSTANTS Listener,
          MaxTexts,    \* bound on the messages posted
          MaxOutput,   \* bound on what a turn emits before turn_done
          ListenerMax  \* maxsize of a listener's queue (512 in the code)

ASSUME ThreadAssumption == MaxTexts \in Nat /\ MaxOutput \in Nat /\ ListenerMax \in Nat \ {0}

VARIABLES
    agent,       \* where the thread is
    inbox,       \* the texts to come; End for None
    posted,      \* texts accepted by /api/send
    turn,        \* the text of the turn, and what it may still emit
    answered,    \* texts whose turn_done was emitted, in order
    emitted,     \* events emitted
    handler,     \* the SSE handler of each listener
    offered,     \* their queues
    heard,       \* what they received
    since,       \* events emitted before they subscribed
    missed       \* events that met their queues full

threadVars == <<agent, inbox, posted, turn, answered>>
busVars == <<emitted, handler, offered, heard, since, missed>>
agentVars == <<threadVars, busVars>>

End == 0
NoTurn == [text |-> 0, left |-> 0]

AgentInit == /\ agent = "seeding"
             /\ inbox = <<>>
             /\ posted = 0
             /\ turn = NoTurn
             /\ answered = <<>>
             /\ emitted = 0
             /\ handler = [c \in Listener |-> "away"]
             /\ offered = [c \in Listener |-> <<>>]
             /\ heard = [c \in Listener |-> <<>>]
             /\ since = [c \in Listener |-> 0]
             /\ missed = [c \in Listener |-> {}]

-----------------------------------------------------------------------------
(* The bus.  emit() holds the lock while it offers the event to everyone.  *)

Listening(c) == handler[c] \in {"streaming", "broken"}
QueueFull(c) == Len(offered[c]) = ListenerMax

\* Faulty: to make room the oldest event goes.
EmitOverOldest ==
    /\ emitted' = emitted + 1
    /\ offered' = [c \in Listener |-> IF ~Listening(c) THEN offered[c]
                                      ELSE IF QueueFull(c) THEN Append(Tail(offered[c]), emitted')
                                      ELSE Append(offered[c], emitted')]
    /\ missed' = [c \in Listener |-> IF Listening(c) /\ QueueFull(c)
                                     THEN missed[c] \cup {emitted'} ELSE missed[c]]
    /\ UNCHANGED <<handler, heard, since>>

\* Faulty: put() instead of put_nowait(), which waits for the slowest listener.
EmitWaits ==
    /\ \A c \in Listener : ~(Listening(c) /\ QueueFull(c))
    /\ emitted' = emitted + 1
    /\ offered' = [c \in Listener |-> IF Listening(c) THEN Append(offered[c], emitted') ELSE offered[c]]
    /\ UNCHANGED <<handler, heard, since, missed>>

Emit ==
    /\ emitted' = emitted + 1
    /\ offered' = [c \in Listener |-> IF Listening(c) /\ ~QueueFull(c)
                                      THEN Append(offered[c], emitted') ELSE offered[c]]
    /\ missed' = [c \in Listener |-> IF Listening(c) /\ QueueFull(c)
                                     THEN missed[c] \cup {emitted'} ELSE missed[c]]
    /\ UNCHANGED <<handler, heard, since>>

Listen(c) == /\ handler[c] = "away"
             /\ handler' = [handler EXCEPT ![c] = "streaming"]
             /\ since' = [since EXCEPT ![c] = emitted]
             /\ UNCHANGED <<threadVars, emitted, offered, heard, missed>>

Hear(c) == /\ handler[c] = "streaming"
           /\ offered[c] # <<>>
           /\ heard' = [heard EXCEPT ![c] = Append(@, Head(offered[c]))]
           /\ offered' = [offered EXCEPT ![c] = Tail(@)]
           /\ UNCHANGED <<threadVars, emitted, handler, since, missed>>

ClientLeaves(c) == /\ handler[c] = "streaming"
                   /\ handler' = [handler EXCEPT ![c] = "broken"]
                   /\ UNCHANGED <<threadVars, emitted, offered, heard, since, missed>>

\* The handler notices when it next writes, at the latest its keepalive.
Unsubscribe(c) == /\ handler[c] = "broken"
                  /\ handler' = [handler EXCEPT ![c] = "gone"]
                  /\ offered' = [offered EXCEPT ![c] = <<>>]
                  /\ heard' = [heard EXCEPT ![c] = <<>>]
                  /\ since' = [since EXCEPT ![c] = 0]
                  /\ missed' = [missed EXCEPT ![c] = {}]
                  /\ UNCHANGED <<threadVars, emitted>>

-----------------------------------------------------------------------------
(* The requests.                                                           *)

send == /\ posted < MaxTexts
        /\ posted' = posted + 1
        /\ inbox' = Append(inbox, posted')
        /\ UNCHANGED <<agent, turn, answered, busVars>>

\* DELETE /api/session; a second None would be left in the inbox, and is not modelled.
EndSession == /\ ~Contains(inbox, End)
              /\ agent # "ended"
              /\ inbox' = Append(inbox, End)
              /\ UNCHANGED <<agent, posted, turn, answered, busVars>>

-----------------------------------------------------------------------------
(* _run().                                                                 *)

Started == /\ agent = "started"
           /\ agent' = "ready"
           /\ UNCHANGED <<inbox, posted, turn, answered, busVars>>

\* AgentRunner() or its banner raises: "Agent crashed", ...
StartFails == /\ agent = "started"
              /\ agent' = "crashed"
              /\ Emit
              /\ UNCHANGED <<inbox, posted, turn, answered>>

\* ... and "Agent thread ended."
Crashed == /\ agent = "crashed"
           /\ agent' = "ended"
           /\ Emit
           /\ UNCHANGED <<inbox, posted, turn, answered>>

TakeText == /\ agent = "ready"
            /\ inbox # <<>>
            /\ Head(inbox) # End
            /\ agent' = "turn"
            /\ turn' = [text |-> Head(inbox), left |-> MaxOutput]
            /\ inbox' = Tail(inbox)
            /\ UNCHANGED <<posted, answered, busVars>>

TakeEnd == /\ agent = "ready"
           /\ inbox # <<>>
           /\ Head(inbox) = End
           /\ agent' = "ended"
           /\ inbox' = Tail(inbox)
           /\ Emit
           /\ UNCHANGED <<posted, turn, answered>>

\* An event of the command, or the error it raised.
Output == /\ agent = "turn"
          /\ turn.left > 0
          /\ turn' = [turn EXCEPT !.left = @ - 1]
          /\ Emit
          /\ UNCHANGED <<agent, inbox, posted, answered>>

\* Faulty: turn_done is sent inside the try, so an error takes its place.
TurnDoneUnlessRaised == /\ agent = "turn"
                        /\ agent' = "ready"
                        /\ turn' = NoTurn
                        /\ answered' \in {answered, Append(answered, turn.text)}
                        /\ Emit
                        /\ UNCHANGED <<inbox, posted>>

TurnDone == /\ agent = "turn"
            /\ agent' = "ready"
            /\ turn' = NoTurn
            /\ answered' = Append(answered, turn.text)
            /\ Emit
            /\ UNCHANGED <<inbox, posted>>

ThreadStep == Started \/ StartFails \/ Crashed \/ TakeText \/ TakeEnd \/ Output \/ TurnDone

AgentRequest == send \/ EndSession \/ \E c \in Listener : Listen(c)

AgentStep == ThreadStep \/ \E c \in Listener : Hear(c) \/ ClientLeaves(c) \/ Unsubscribe(c)

-----------------------------------------------------------------------------
AgentTypeOK == /\ agent \in {"seeding", "started", "crashed", "ready", "turn", "ended"}
               /\ inbox \in Seq(0..MaxTexts)
               /\ posted \in 0..MaxTexts
               /\ turn \in [text : 0..MaxTexts, left : 0..MaxOutput]
               /\ answered \in Seq(1..MaxTexts)
               /\ emitted \in Nat
               /\ handler \in [Listener -> {"away", "streaming", "broken", "gone"}]
               /\ \A c \in Listener : offered[c] \in Seq(1..emitted) /\ Len(offered[c]) <= ListenerMax
               /\ heard \in [Listener -> Seq(1..emitted)]
               /\ since \in [Listener -> 0..emitted]
               /\ missed \in [Listener -> SUBSET (1..emitted)]

\* Every text that was accepted is answered, in its turn, or waiting, and in
\* the order it was posted: none is lost to an error, to a turn that is under
\* way, or to the end of the session (those behind it stay in the inbox).
TextsInOrder ==
    LET taken == answered \o (IF agent = "turn" THEN <<turn.text>> ELSE <<>>)
        Waiting == {i \in DOMAIN inbox : inbox[i] # End}
    IN /\ \A n \in DOMAIN taken : taken[n] = n
       /\ Len(taken) <= posted
       /\ {inbox[i] : i \in Waiting} = Len(taken) + 1 .. posted
       /\ \A i, j \in Waiting : i < j => inbox[i] < inbox[j]

\* A listener has received, or has in its queue, in order, every event since
\* it subscribed except those that met its queue full.
MissesOnlyDropped ==
    \A c \in Listener : handler[c] = "streaming" =>
        LET seen == heard[c] \o offered[c] IN
            /\ \A m, n \in DOMAIN seen : m < n => seen[m] < seen[n]
            /\ ToSet(seen) = (since[c] + 1 .. emitted) \ missed[c]

=============================================================================
