---------------------------- MODULE EventBroker ----------------------------
(***************************************************************************)
(* EventBroker (core/events.py) with the event table behind it and the two *)
(* endpoints that stream from it (http/core.py, http/operations.py).       *)
(*                                                                         *)
(* Threads publish side by side: an event is recorded first, the live      *)
(* subscribers are read next, and each is offered the event in turn.  A    *)
(* stream holds one of a bounded number of slots; it replays one page of   *)
(* recorded events and only then subscribes.  The server notices that its  *)
(* reader left when it next writes, an event or a keepalive.               *)
(***************************************************************************)
EXTENDS Naturals, Sequences, FiniteSets

CONSTANTS
    Publishers, \* threads that publish
    Streams,    \* names for open SSE responses, given again once one is closed
    MaxStreams, \* max_stream_connections
    QueueSize,  \* maxsize of a subscriber's queue
    Page,       \* the limit of events_after
    Retain,     \* rows record_event leaves in the table
    MaxEvents   \* bound: events ever recorded

ASSUME LimitsAssumption ==
    /\ MaxStreams \in Nat \ {0} /\ QueueSize \in Nat \ {0}
    /\ Page \in Nat \ {0} /\ Retain \in Nat \ {0} /\ MaxEvents \in Nat
ASSUME StreamsAssumption == IsFiniteSet(Streams)

NoEvent == 0
Ids == 1 .. MaxEvents

VARIABLES
    last,        \* id of the last event recorded
    event,       \* publisher |-> the event it publishes
    step,        \* publisher |-> where it is
    targets,     \* publisher |-> subscribers it has still to offer its event
    active,      \* _active_stream_connections
    subscribers, \* _subscribers
    phase,       \* stream |-> where its generator is
    gone,        \* streams whose reader has left
    after,       \* stream |-> Last-Event-ID of its request, until it is used
    replay,      \* stream |-> what is left of the page it replays
    queue,       \* stream |-> its subscriber queue
    since,       \* stream |-> last when it subscribed
    sent,        \* stream |-> events written from its queue
    refused      \* stream |-> events its full queue refused

publisherVars == <<event, step, targets>>
streamVars == <<active, subscribers, phase, gone, after, replay, queue, since, sent, refused>>
vars == <<last, publisherVars, streamVars>>

Open == {s \in Streams : phase[s] # "closed"}

TypeOK ==
    /\ last \in 0 .. MaxEvents
    /\ event \in [Publishers -> Ids \cup {NoEvent}]
    /\ step \in [Publishers -> {"idle", "recorded", "offering"}]
    /\ targets \in [Publishers -> SUBSET Streams]
    /\ active \in 0 .. MaxStreams
    /\ subscribers \subseteq Streams
    /\ phase \in [Streams -> {"closed", "reserved", "replay", "live", "releasing"}]
    /\ gone \subseteq Open
    /\ after \in [Streams -> 0 .. MaxEvents]
    /\ replay \in [Streams -> Seq(Ids)] /\ \A s \in Streams : Len(replay[s]) <= Page
    /\ queue \in [Streams -> Seq(Ids)] /\ \A s \in Streams : Len(queue[s]) <= QueueSize
    /\ since \in [Streams -> 0 .. MaxEvents]
    /\ sent \in [Streams -> SUBSET Ids]
    /\ refused \in [Streams -> SUBSET Ids]

Init ==
    /\ last = 0
    /\ event = [p \in Publishers |-> NoEvent]
    /\ step = [p \in Publishers |-> "idle"]
    /\ targets = [p \in Publishers |-> {}]
    /\ active = 0
    /\ subscribers = {}
    /\ phase = [s \in Streams |-> "closed"]
    /\ gone = {}
    /\ after = [s \in Streams |-> 0]
    /\ replay = [s \in Streams |-> <<>>]
    /\ queue = [s \in Streams |-> <<>>]
    /\ since = [s \in Streams |-> 0]
    /\ sent = [s \in Streams |-> {}]
    /\ refused = [s \in Streams |-> {}]

-----------------------------------------------------------------------------
(* Publishing                                                              *)

\* record_event: the row's id is the next one; rows beyond the newest Retain go
Record(p) ==
    /\ step[p] = "idle" /\ last < MaxEvents
    /\ last' = last + 1
    /\ event' = [event EXCEPT ![p] = last + 1]
    /\ step' = [step EXCEPT ![p] = "recorded"]
    /\ UNCHANGED <<targets, streamVars>>

\* under the lock: the subscribers of this moment
ReadSubscribers(p) ==
    /\ step[p] = "recorded"
    /\ targets' = [targets EXCEPT ![p] = subscribers]
    /\ step' = [step EXCEPT ![p] = "offering"]
    /\ UNCHANGED <<last, event, streamVars>>

\* mutant: a full queue drops its oldest event
Put_Displaces(s, id) ==
    /\ queue' = [queue EXCEPT ![s] = IF Len(@) < QueueSize THEN Append(@, id) ELSE Append(Tail(@), id)]
    /\ UNCHANGED refused

\* put_nowait; queue.Full is passed over
Put(s, id) ==
    IF Len(queue[s]) < QueueSize
    THEN queue' = [queue EXCEPT ![s] = Append(@, id)] /\ UNCHANGED refused
    ELSE refused' = [refused EXCEPT ![s] = @ \cup {id}] /\ UNCHANGED queue

Offer(p, s) ==
    /\ step[p] = "offering" /\ s \in targets[p]
    /\ Put(s, event[p])
    /\ targets' = [targets EXCEPT ![p] = @ \ {s}]
    /\ UNCHANGED <<last, event, step, active, subscribers, phase, gone, after, replay, since, sent>>

Published(p) ==
    /\ step[p] = "offering" /\ targets[p] = {}
    /\ event' = [event EXCEPT ![p] = NoEvent]
    /\ step' = [step EXCEPT ![p] = "idle"]
    /\ UNCHANGED <<last, targets, streamVars>>

-----------------------------------------------------------------------------
(* Streaming                                                               *)

\* stream(): a slot or StreamCapacityError; the response then exists and the
\* server will close it, whatever becomes of the iterator
HasCapacity == active < MaxStreams

Reserve(s) ==
    /\ phase[s] = "closed" /\ HasCapacity
    /\ active' = active + 1
    /\ phase' = [phase EXCEPT ![s] = "reserved"]
    /\ \E id \in 0 .. last : after' = [after EXCEPT ![s] = id]
    /\ UNCHANGED <<last, publisherVars, subscribers, gone, replay, queue, since, sent, refused>>

\* SELECT ... WHERE id > ? ORDER BY id LIMIT ?, over the rows that are left
Oldest == IF last > Retain THEN last - Retain ELSE 0
EventsAfter(id) ==
    LET from == IF id > Oldest THEN id ELSE Oldest
        size == IF last - from < Page THEN last - from ELSE Page
    IN  [i \in 1 .. size |-> from + i]

ReadReplay(s) ==
    /\ phase[s] = "reserved"
    /\ replay' = [replay EXCEPT ![s] = EventsAfter(after[s])]
    /\ after' = [after EXCEPT ![s] = 0]
    /\ phase' = [phase EXCEPT ![s] = "replay"]
    /\ UNCHANGED <<last, publisherVars, active, subscribers, gone, queue, since, sent, refused>>

\* events_after raises: the generator ends, the server closes the response
ReadFails(s) ==
    /\ phase[s] = "reserved"
    /\ phase' = [phase EXCEPT ![s] = "releasing"]
    /\ UNCHANGED <<last, publisherVars, active, subscribers, gone, after, replay, queue, since, sent, refused>>

Replay(s) ==
    /\ phase[s] = "replay" /\ replay[s] # <<>> /\ s \notin gone
    /\ replay' = [replay EXCEPT ![s] = Tail(@)]
    /\ UNCHANGED <<last, publisherVars, active, subscribers, phase, gone, after, queue, since, sent, refused>>

\* the page is written: a new queue joins the subscribers
Subscribe(s) ==
    /\ phase[s] = "replay" /\ replay[s] = <<>>
    /\ subscribers' = subscribers \cup {s}
    /\ phase' = [phase EXCEPT ![s] = "live"]
    /\ since' = [since EXCEPT ![s] = last]
    /\ UNCHANGED <<last, publisherVars, active, gone, after, replay, queue, sent, refused>>

Send(s) ==
    /\ phase[s] = "live" /\ queue[s] # <<>> /\ s \notin gone
    /\ queue' = [queue EXCEPT ![s] = Tail(@)]
    /\ sent' = [sent EXCEPT ![s] = @ \cup {Head(queue[s])}]
    /\ UNCHANGED <<last, publisherVars, active, subscribers, phase, gone, after, replay, since, refused>>

\* noticed at the next write, so that leaving before the replay is read is the
\* same as leaving after it
Leave(s) ==
    /\ phase[s] \in {"replay", "live"} /\ s \notin gone
    /\ gone' = gone \cup {s}
    /\ UNCHANGED <<last, publisherVars, active, subscribers, phase, after, replay, queue, since, sent, refused>>

\* mutant: no heartbeat
Writes_Events(s) == phase[s] \in {"replay", "live"} /\ replay[s] \o queue[s] # <<>>

\* the generator has something to write: an event, or None every heartbeat
Writes(s) ==
    \/ phase[s] = "replay" /\ replay[s] # <<>>
    \/ phase[s] = "live"

\* mutant: the finally clause forgets the queue
Unsubscribe_Kept(s) ==
    /\ s \in gone /\ Writes(s)
    /\ phase' = [phase EXCEPT ![s] = "releasing"]
    /\ UNCHANGED <<last, publisherVars, active, subscribers, gone, after, replay, queue, since, sent, refused>>

\* close(), first part: GeneratorExit leaves _stream by its finally clause
Unsubscribe(s) ==
    /\ s \in gone /\ Writes(s)
    /\ subscribers' = subscribers \ {s}
    /\ phase' = [phase EXCEPT ![s] = "releasing"]
    /\ UNCHANGED <<last, publisherVars, active, gone, after, replay, queue, since, sent, refused>>

\* close(), second part.  A publisher may still put into the queue of a closed
\* stream; nobody reads that queue any more
Release(s) ==
    /\ phase[s] = "releasing"
    /\ active' = active - 1
    /\ phase' = [phase EXCEPT ![s] = "closed"]
    /\ gone' = gone \ {s}
    /\ targets' = [p \in Publishers |-> targets[p] \ {s}]
    /\ after' = [after EXCEPT ![s] = 0]
    /\ replay' = [replay EXCEPT ![s] = <<>>]
    /\ queue' = [queue EXCEPT ![s] = <<>>]
    /\ since' = [since EXCEPT ![s] = 0]
    /\ sent' = [sent EXCEPT ![s] = {}]
    /\ refused' = [refused EXCEPT ![s] = {}]
    /\ UNCHANGED <<last, event, step, subscribers>>

\* the process dies: only the table is left
Crash ==
    /\ event' = [p \in Publishers |-> NoEvent]
    /\ step' = [p \in Publishers |-> "idle"]
    /\ targets' = [p \in Publishers |-> {}]
    /\ active' = 0
    /\ subscribers' = {}
    /\ phase' = [s \in Streams |-> "closed"]
    /\ gone' = {}
    /\ after' = [s \in Streams |-> 0]
    /\ replay' = [s \in Streams |-> <<>>]
    /\ queue' = [s \in Streams |-> <<>>]
    /\ since' = [s \in Streams |-> 0]
    /\ sent' = [s \in Streams |-> {}]
    /\ refused' = [s \in Streams |-> {}]
    /\ UNCHANGED last

-----------------------------------------------------------------------------
PublisherStep(p) == Record(p) \/ ReadSubscribers(p) \/ Published(p) \/ \E s \in Streams : Offer(p, s)
ServerStep(s) ==
    ReadReplay(s) \/ ReadFails(s) \/ Replay(s) \/ Subscribe(s) \/ Send(s) \/ Unsubscribe(s) \/ Release(s)

Next ==
    \/ \E p \in Publishers : PublisherStep(p)
    \/ \E s \in Streams : Reserve(s) \/ ServerStep(s) \/ Leave(s)
    \/ Crash

Spec == Init /\ [][Next]_vars

\* a stream has a greenlet of its own: what it can do next it does in the end
FairSpec == Spec /\ \A s \in Streams : WF_vars(ServerStep(s))

-----------------------------------------------------------------------------
\* Every slot in use belongs to an open stream and every subscriber queue to a
\* live one, so that neither leaks whatever order readers leave, reads fail and
\* streams close in (_StreamSubscription.close, the finally clause of _stream)
NothingLeaks ==
    /\ active = Cardinality(Open)
    /\ {s \in Streams : phase[s] = "live"} = subscribers

\* A publisher that has recorded its event and has still to offer it to s
InFlight(s, id) ==
    \E p \in Publishers :
        /\ event[p] = id
        /\ \/ step[p] = "recorded"
           \/ step[p] = "offering" /\ s \in targets[p]

\* The live part of a stream is complete and free of repetitions: an event
\* recorded after the stream subscribed is on its way to it, or queued once, or
\* written once, or was refused by its full queue, and only one of these
\* (the order of publish and _stream, core/events.py:66-80, 113-118)
LiveIsExactlyOnce ==
    \A s \in subscribers :
        LET queued == {queue[s][i] : i \in DOMAIN queue[s]}
        IN  /\ Cardinality(queued) = Len(queue[s])
            /\ queued \cap sent[s] = {} /\ (queued \cup sent[s]) \cap refused[s] = {}
            /\ \A id \in since[s] + 1 .. last :
                   InFlight(s, id) <=> id \notin queued \cup sent[s] \cup refused[s]

\* The slot of a reader that left is free again in the end, although nobody
\* publishes: the heartbeat makes the server write (core/events.py:117-120)
SlotComesBack == \A s \in Streams : s \in gone ~> phase[s] = "closed"
=============================================================================
