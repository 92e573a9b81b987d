------------------------------ MODULE EventBus ------------------------------
(***************************************************************************)
(* The event bus of events/bus.py, its replay buffer, and clients of the   *)
(* event routes that disconnect and resume from the cursor they last saw.  *)
(*                                                                         *)
(* Queues are unbounded and both publish paths run on the loop thread, so  *)
(* one publish is one step.  An event is its sequence number; what it is   *)
(* about is a topic, and a filter is the set of topics it admits.          *)
(***************************************************************************)
EXTENDS Integers, Sequences, SequencesExt, SequenceFilter

CONSTANTS
    Clients,        \* event-stream clients, each with one connection at a time
    Topics,         \* what events are about, as far as filters can tell
    BufferSizes,    \* the configurations of replay_buffer_size
    MaxEvents,      \* bound: events published per server lifetime
    MaxEpochs,      \* bound: server lifetimes
    MaxHandoff      \* bound: events of other threads waiting for the loop

ASSUME EventBusAssumption ==
    /\ BufferSizes \subseteq Nat
    /\ MaxEvents \in Nat
    /\ MaxEpochs \in Nat \ {0}
    /\ MaxHandoff \in Nat

VARIABLES
    epoch,      \* server lifetime; names the bus a cursor belongs to
    attached,   \* the bus knows the loop
    topic,      \* topics of the events published in this lifetime, in order
    size,       \* replay_buffer_size of this deployment
    buffer,     \* retained sequence numbers, oldest first
    handoff,    \* topics handed over by call_soon_threadsafe, in order
    connected,  \* clients with a live subscription
    filter,     \* the topics each client asked for
    queue,      \* subscription queues: markers and events not yet sent
    cursor,     \* cursor of the last event each client saw
    since,      \* first subscription of the client's stream: its place in the log
    seen,       \* events the client has seen in this stream, in order
    missed      \* events it was told are lost

server == <<epoch, attached, topic, size, buffer, handoff>>
client == <<connected, filter, queue, cursor, since, seen, missed>>
busVars   == <<server, client>>

sequence == Len(topic)      \* _sequence

NoCursor == <<0, 0>>
Event(n) == [kind |-> "event", n |-> n]
Resumed(l) == [kind |-> "resumed", n |-> l]     \* the marker and its lost count
ResumedForeign == [kind |-> "foreign", n |-> 0] \* the marker, its lost count unknown

BusInit ==
    /\ epoch = 1
    /\ attached = FALSE
    /\ topic = <<>>
    /\ size \in BufferSizes
    /\ buffer = <<>>
    /\ handoff = <<>>
    /\ connected = {}
    /\ filter = [c \in Clients |-> Topics]
    /\ queue = [c \in Clients |-> <<>>]
    /\ cursor = [c \in Clients |-> NoCursor]
    /\ since = [c \in Clients |-> 0]
    /\ seen = [c \in Clients |-> <<>>]
    /\ missed = [c \in Clients |-> {}]

-----------------------------------------------------------------------------
(* Publishing.                                                             *)

\* deque(maxlen = size): the oldest event falls out.
Retain(s, n) ==
    LET t == Append(s, n)
    IN IF Len(t) > size THEN Tail(t) ELSE t

Matching(t) == {c \in connected : t \in filter[c]}

\* Stamp, retain, and put into every matching queue.
Stamped(t) ==
    LET n == sequence + 1 IN
    /\ sequence < MaxEvents
    /\ topic' = Append(topic, t)
    /\ buffer' = Retain(buffer, n)
    /\ queue' = [c \in Clients |->
                   IF c \in Matching(t) THEN Append(queue[c], Event(n)) ELSE queue[c]]

Publish(t) ==
    /\ Stamped(t)
    /\ attached' = TRUE
    /\ UNCHANGED <<epoch, size, handoff, connected, filter, cursor, since, seen, missed>>

\* Start-up tells the bus its loop before anything is published.
AttachLoop ==
    /\ ~attached
    /\ attached' = TRUE
    /\ UNCHANGED <<epoch, topic, size, buffer, handoff, client>>

\* From another thread: dropped while no loop is attached, otherwise queued
\* behind what the loop has still to run.
PublishThreadsafe(t) ==
    /\ attached
    /\ Len(handoff) < MaxHandoff
    /\ handoff' = Append(handoff, t)
    /\ UNCHANGED <<epoch, attached, topic, size, buffer, client>>

PublishNowait ==
    /\ handoff # <<>>
    /\ Stamped(Head(handoff))
    /\ handoff' = Tail(handoff)
    /\ UNCHANGED <<epoch, attached, size, connected, filter, cursor, since, seen, missed>>

-----------------------------------------------------------------------------
(* Subscribing.                                                            *)

\* Mutant: the event at the cursor is sent again.
ReplayFromCursor(c, s) ==
    Filter(buffer, {n \in 1..sequence : n >= s /\ topic[n] \in filter[c]})

\* Retained events after a cursor that the client's filter admits.
Replay(c, s) ==
    Filter(buffer, {n \in 1..sequence : n > s /\ topic[n] \in filter[c]})

OldestRetained == IF buffer = <<>> THEN sequence + 1 ELSE Head(buffer)

\* Mutant: the count is off by one.
LostTooFew(s) == IF OldestRetained - s - 2 > 0 THEN OldestRetained - s - 2 ELSE 0

Lost(s) == IF OldestRetained - s - 1 > 0 THEN OldestRetained - s - 1 ELSE 0

\* A fresh subscription: live events only.
Subscribe(c, f) ==
    /\ c \notin connected
    /\ connected' = connected \cup {c}
    /\ filter' = [filter EXCEPT ![c] = f]
    /\ queue' = [queue EXCEPT ![c] = <<>>]
    /\ cursor' = [cursor EXCEPT ![c] = NoCursor]
    /\ since' = [since EXCEPT ![c] = sequence]
    /\ seen' = [seen EXCEPT ![c] = <<>>]
    /\ missed' = [missed EXCEPT ![c] = {}]
    /\ attached' = TRUE
    /\ UNCHANGED <<epoch, topic, size, buffer, handoff>>

\* Resuming in the same lifetime: the marker, the replay and the registration
\* in one step.  A cursor ahead of the stream is refused.
Resume(c) ==
    LET s == cursor[c][2]
        r == Replay(c, s)
    IN
    /\ c \notin connected
    /\ cursor[c][1] = epoch
    /\ s <= sequence
    /\ connected' = connected \cup {c}
    /\ queue' = [queue EXCEPT ![c] =
                   <<Resumed(Lost(s))>> \o [i \in 1..Len(r) |-> Event(r[i])]]
    /\ attached' = TRUE
    /\ UNCHANGED <<epoch, topic, size, buffer, handoff, filter, cursor, since, seen, missed>>

\* Resuming with a cursor of an earlier lifetime: the marker says that nothing
\* since is knowable, and the stream starts here.
ResumeForeign(c) ==
    /\ c \notin connected
    /\ cursor[c] # NoCursor /\ cursor[c][1] # epoch
    /\ connected' = connected \cup {c}
    /\ queue' = [queue EXCEPT ![c] = <<ResumedForeign>>]
    /\ since' = [since EXCEPT ![c] = sequence]
    /\ seen' = [seen EXCEPT ![c] = <<>>]
    /\ missed' = [missed EXCEPT ![c] = {}]
    /\ attached' = TRUE
    /\ UNCHANGED <<epoch, topic, size, buffer, handoff, filter, cursor>>

\* The next frame reaches the client.  The marker carries no id and leaves the
\* cursor alone.
Get(c) ==
    LET item == Head(queue[c]) IN
    /\ c \in connected
    /\ queue[c] # <<>>
    /\ queue' = [queue EXCEPT ![c] = Tail(@)]
    /\ IF item.kind = "event"
       THEN /\ cursor' = [cursor EXCEPT ![c] = <<epoch, item.n>>]
            /\ seen' = [seen EXCEPT ![c] = Append(@, item.n)]
            /\ UNCHANGED missed
       ELSE /\ missed' = [missed EXCEPT ![c] =
                            @ \cup {n \in 1..sequence : n > cursor[c][2] /\ n <= cursor[c][2] + item.n}]
            /\ UNCHANGED <<cursor, seen>>
    /\ UNCHANGED <<server, connected, filter, since>>

\* The connection drops; frames still queued are gone with the subscription.
Unsubscribe(c) ==
    /\ c \in connected
    /\ connected' = connected \ {c}
    /\ queue' = [queue EXCEPT ![c] = <<>>]
    /\ UNCHANGED <<server, filter, cursor, since, seen, missed>>

\* The server restarts with a new bus.
Restart ==
    /\ epoch < MaxEpochs
    /\ epoch' = epoch + 1
    /\ attached' = FALSE
    /\ topic' = <<>>
    /\ buffer' = <<>>
    /\ handoff' = <<>>
    /\ connected' = {}
    /\ queue' = [c \in Clients |-> <<>>]
    /\ UNCHANGED <<size, filter, cursor, since, seen, missed>>

BusNext ==
    \/ \E t \in Topics : Publish(t) \/ PublishThreadsafe(t)
    \/ PublishNowait
    \/ AttachLoop
    \/ \E c \in Clients :
          \/ \E f \in (SUBSET Topics) \ {{}} : Subscribe(c, f)
          \/ Resume(c)
          \/ ResumeForeign(c)
          \/ Get(c)
          \/ Unsubscribe(c)
    \/ Restart

BusSpec == BusInit /\ [][BusNext]_busVars

-----------------------------------------------------------------------------
(* Properties.                                                             *)

Items == [kind : {"event", "resumed", "foreign"}, n : 0..MaxEvents]

BusTypeOK ==
    /\ epoch \in 1..MaxEpochs
    /\ attached \in BOOLEAN
    /\ topic \in Seq(Topics) /\ Len(topic) <= MaxEvents
    /\ size \in BufferSizes
    /\ buffer \in Seq(1..MaxEvents) /\ Len(buffer) <= size
    /\ handoff \in Seq(Topics)
    /\ connected \subseteq Clients
    /\ filter \in [Clients -> SUBSET Topics]
    /\ queue \in [Clients -> Seq(Items)]
    /\ cursor \in [Clients -> (0..MaxEpochs) \X (0..MaxEvents)]
    /\ since \in [Clients -> 0..MaxEvents]
    /\ seen \in [Clients -> Seq(1..MaxEvents)]
    /\ missed \in [Clients -> SUBSET (1..MaxEvents)]

\* The events in the client's queue, by their places, and those it has or will get.
Pending(c)   == {i \in 1..Len(queue[c]) : queue[c][i].kind = "event"}
Delivered(c) == ToSet(seen[c]) \cup {queue[c][i].n : i \in Pending(c)}

\* What it was told is lost, or will be by a marker still in its queue.
Losses(c) ==
    missed[c] \cup {n \in 1..sequence :
        \E i \in 1..Len(queue[c]) :
            /\ queue[c][i].kind = "resumed"
            /\ n > cursor[c][2] /\ n <= cursor[c][2] + queue[c][i].n
            /\ cursor[c][1] = epoch}

\* Across any number of reconnections every event the filter admits is, for a
\* connected client, seen, on its way, or reported lost: "either replayed or
\* delivered live, never ... neither".
NothingSilentlyLost ==
    /\ BusTypeOK
    /\ \A c \in connected : \A n \in (since[c] + 1)..sequence :
          topic[n] \in filter[c] => n \in Losses(c) \cup Delivered(c)

\* What the client sees and will see is strictly increasing, also where a replay
\* meets live events: no event twice, none out of order, none the filter
\* excludes, and none the client was told is lost.
InOrderOnce ==
    \A c \in connected :
        /\ \A i, j \in 1..Len(seen[c]) : i < j => seen[c][i] < seen[c][j]
        /\ \A i, j \in Pending(c) : i < j => queue[c][i].n < queue[c][j].n
        /\ \A m \in ToSet(seen[c]), i \in Pending(c) : m < queue[c][i].n
        /\ \A n \in Delivered(c) : topic[n] \in filter[c] /\ n \notin missed[c]
=============================================================================
