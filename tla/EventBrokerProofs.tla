-------------------------- MODULE EventBrokerProofs --------------------------
(***************************************************************************)
(* Theorems about EventBroker, for any number of publishers, streams and   *)
(* events, and queues, pages and retention of any size.                    *)
(***************************************************************************)
EXTENDS EventBroker, FiniteSetTheorems, SequenceTheorems, TLAPS

\* Each publisher that is not idle has an event of its own
PublishersFit ==
    /\ \A p \in Publishers :
          IF step[p] = "idle" THEN event[p] = NoEvent ELSE event[p] \in 1 .. last
    /\ \A p, q \in Publishers : event[p] = event[q] /\ event[p] # NoEvent => p = q
    /\ \A p \in Publishers : step[p] # "offering" => targets[p] = {}

\* Only a stream that has subscribed is offered anything, and only such a one
\* has a queue with a past
StreamsFit ==
    /\ \A p \in Publishers, s \in Streams : s \in targets[p] => phase[s] \in {"live", "releasing"}
    /\ \A s \in Streams :
          phase[s] \in {"closed", "reserved", "replay"} =>
              queue[s] = <<>> /\ sent[s] = {} /\ refused[s] = {}

Items(q) == {q[i] : i \in 1 .. Len(q)}
Distinct(q) == \A i, j \in 1 .. Len(q) : q[i] = q[j] => i = j
Seen(s) == Items(queue[s]) \cup sent[s] \cup refused[s]

\* p is going to offer its event to s, if s is still subscribed then
Bound(p, s) == step[p] = "recorded" \/ s \in targets[p]

\* Each event of s has one place
EachInOnePlace(s) ==
    /\ Distinct(queue[s])
    /\ Items(queue[s]) \cap sent[s] = {} /\ (Items(queue[s]) \cup sent[s]) \cap refused[s] = {}

\* What is still to be offered is new to the stream, subscribed or not
ArrivesOnce(s) ==
    /\ Seen(s) \subseteq 1 .. last
    /\ \A p \in Publishers : Bound(p, s) => event[p] \notin Seen(s)
    /\ EachInOnePlace(s)

\* What a subscriber has not seen of the events since it subscribed is on its way
Complete(s) ==
    phase[s] = "live" =>
        \A id \in since[s] + 1 .. last :
            id \in Seen(s) \/ \E p \in Publishers : event[p] = id /\ Bound(p, s)

TypeInv == TypeOK /\ PublishersFit /\ StreamsFit /\ NothingLeaks
DeliveryInv == \A s \in Streams : ArrivesOnce(s) /\ Complete(s)
IInv == TypeInv /\ DeliveryInv

-----------------------------------------------------------------------------
(* Queues.                                                                 *)

\* Items and Distinct of a queue an event was put into
LEMMA AppendFacts ==
    ASSUME NEW q \in Seq(Ids), NEW id \in Ids
    PROVE  /\ Append(q, id) \in Seq(Ids) /\ Len(Append(q, id)) = Len(q) + 1
           /\ Items(Append(q, id)) = Items(q) \cup {id}
           /\ Distinct(q) /\ id \notin Items(q) => Distinct(Append(q, id))
<1>1. /\ Append(q, id) \in Seq(Ids) /\ Len(Append(q, id)) = Len(q) + 1 /\ Len(q) \in Nat
      /\ \A i \in 1 .. Len(q) : Append(q, id)[i] = q[i]
      /\ Append(q, id)[Len(q) + 1] = id
  BY AppendProperties, LenProperties
<1>2. Items(Append(q, id)) = Items(q) \cup {id}
  <2>1. \A i \in 1 .. Len(q) + 1 : i \in 1 .. Len(q) \/ i = Len(q) + 1
    BY <1>1
  <2>2. \A i \in 1 .. Len(q) : i \in 1 .. Len(q) + 1
    BY <1>1
  <2>3. Len(q) + 1 \in 1 .. Len(q) + 1
    BY <1>1
  <2> QED
    BY <1>1, <2>1, <2>2, <2>3 DEF Items
<1>3. ASSUME Distinct(q), id \notin Items(q)
      PROVE  Distinct(Append(q, id))
  <2>1. \A i \in 1 .. Len(q) : q[i] # id
    BY <1>3 DEF Items
  <2> QED
    BY <1>1, <1>3, <2>1 DEF Distinct
<1> QED
  BY <1>1, <1>2, <1>3

\* Items and Distinct of a queue whose first event was taken
LEMMA TailFacts ==
    ASSUME NEW q \in Seq(Ids), q # <<>>
    PROVE  /\ Tail(q) \in Seq(Ids) /\ Len(Tail(q)) = Len(q) - 1 /\ Head(q) \in Ids
           /\ Items(q) = Items(Tail(q)) \cup {Head(q)}
           /\ Distinct(q) => Distinct(Tail(q)) /\ Head(q) \notin Items(Tail(q))
<1>1. /\ Len(q) \in Nat \ {0} /\ Head(q) = q[1] /\ Head(q) \in Ids
      /\ Tail(q) \in Seq(Ids) /\ Len(Tail(q)) = Len(q) - 1
      /\ \A i \in 1 .. Len(Tail(q)) : Tail(q)[i] = q[i + 1]
  BY HeadTailProperties
<1>2. Items(q) = Items(Tail(q)) \cup {Head(q)}
  <2>1. \A i \in 1 .. Len(q) : i = 1 \/ (i - 1 \in 1 .. Len(Tail(q)) /\ (i - 1) + 1 = i)
    BY <1>1
  <2>2. \A i \in 1 .. Len(Tail(q)) : i + 1 \in 1 .. Len(q)
    BY <1>1
  <2>3. 1 \in 1 .. Len(q)
    BY <1>1
  <2>4. \A x \in Items(q) : x \in Items(Tail(q)) \cup {Head(q)}
    BY SMTT(30), <1>1, <2>1 DEF Items
  <2>5. \A x \in Items(Tail(q)) \cup {Head(q)} : x \in Items(q)
    BY <1>1, <2>2, <2>3 DEF Items
  <2> QED
    BY <2>4, <2>5
<1>3. ASSUME Distinct(q)
      PROVE  Distinct(Tail(q)) /\ Head(q) \notin Items(Tail(q))
  <2>1. \A i \in 1 .. Len(Tail(q)) : i + 1 \in 1 .. Len(q) /\ i + 1 # 1
    BY <1>1
  <2>2. \A i, j \in 1 .. Len(Tail(q)) : Tail(q)[i] = Tail(q)[j] => i + 1 = j + 1
    BY <1>1, <1>3, <2>1 DEF Distinct
  <2>3. \A i, j \in 1 .. Len(Tail(q)) : i + 1 = j + 1 => i = j
    BY <1>1
  <2>4. 1 \in 1 .. Len(q)
    BY <1>1
  <2>5. \A i \in 1 .. Len(Tail(q)) : Tail(q)[i] # Head(q)
    BY <1>1, <1>3, <2>1, <2>4 DEF Distinct
  <2> QED
    BY <2>2, <2>3, <2>5 DEF Distinct, Items
<1> QED
  BY <1>1, <1>2, <1>3

LEMMA EmptyFacts == Items(<<>>) = {} /\ Distinct(<<>>)
BY DEF Items, Distinct

\* A queue without repetitions holds as many events as it is long
LEMMA CountFacts ==
    ASSUME NEW q \in Seq(Ids), Distinct(q)
    PROVE  Cardinality({q[i] : i \in DOMAIN q}) = Len(q) /\ {q[i] : i \in DOMAIN q} = Items(q)
<1>1. /\ Len(q) \in Nat /\ DOMAIN q = 1 .. Len(q) /\ q \in [1 .. Len(q) -> Ids]
  BY LenProperties
<1>2. {q[i] : i \in DOMAIN q} = Items(q)
  BY <1>1 DEF Items
<1>3. q \in Bijection(1 .. Len(q), Items(q))
  <2>1. q \in [1 .. Len(q) -> Items(q)]
    BY <1>1 DEF Items
  <2>2. \A x \in Items(q) : \E i \in 1 .. Len(q) : q[i] = x
    BY DEF Items
  <2> QED
    BY <1>1, <2>1, <2>2 DEF Distinct, Bijection, Injection, IsInjective, Surjection
<1>4. IsFiniteSet(1 .. Len(q)) /\ Cardinality(1 .. Len(q)) = Len(q)
  BY SMTT(30), <1>1, FS_Interval
<1>5. ExistsBijection(1 .. Len(q), Items(q))
  BY <1>3 DEF ExistsBijection
<1> QED
  BY <1>2, <1>4, <1>5, FS_Bijection

\* What an offer does to one stream, whether its queue has room or not
LEMMA PutFacts ==
    ASSUME TypeOK, NEW s \in Streams, NEW id \in Ids, Put(s, id), UNCHANGED sent
    PROVE  /\ queue' \in [Streams -> Seq(Ids)] /\ refused' \in [Streams -> SUBSET Ids]
           /\ \A t \in Streams : Len(queue'[t]) <= QueueSize
           /\ \A t \in Streams \ {s} : queue'[t] = queue[t] /\ refused'[t] = refused[t]
           /\ Seen(s)' = Seen(s) \cup {id}
           /\ id \notin Seen(s) /\ EachInOnePlace(s) => EachInOnePlace(s)'
<1>1. queue[s] \in Seq(Ids) /\ Len(queue[s]) \in Nat /\ QueueSize \in Nat
  BY LimitsAssumption, LenProperties DEF TypeOK
<1>2. CASE Len(queue[s]) < QueueSize
  <2>1. queue' = [queue EXCEPT ![s] = Append(queue[s], id)] /\ refused' = refused
    BY <1>2 DEF Put
  <2>2. /\ queue'[s] = Append(queue[s], id)
        /\ \A t \in Streams \ {s} : queue'[t] = queue[t]
    BY <2>1 DEF TypeOK
  <2>3. /\ Append(queue[s], id) \in Seq(Ids) /\ Len(Append(queue[s], id)) = Len(queue[s]) + 1
        /\ Items(Append(queue[s], id)) = Items(queue[s]) \cup {id}
        /\ Distinct(queue[s]) /\ id \notin Items(queue[s]) => Distinct(Append(queue[s], id))
    BY <1>1, AppendFacts
  <2>4. queue' \in [Streams -> Seq(Ids)] /\ refused' \in [Streams -> SUBSET Ids]
    BY <2>1, <2>3 DEF TypeOK
  <2>5. \A t \in Streams : Len(queue'[t]) <= QueueSize
    <3>1. Len(queue'[s]) <= QueueSize
      BY <1>1, <1>2, <2>2, <2>3
    <3>2. \A t \in Streams \ {s} : Len(queue'[t]) <= QueueSize
      BY <2>2 DEF TypeOK
    <3> QED
      BY <3>1, <3>2
  <2>6. Seen(s)' = Seen(s) \cup {id}
    BY <2>1, <2>2, <2>3 DEF Seen
  <2>7. id \notin Seen(s) /\ EachInOnePlace(s) => EachInOnePlace(s)'
    BY <2>1, <2>2, <2>3 DEF Seen, EachInOnePlace
  <2> QED
    BY <2>1, <2>2, <2>4, <2>5, <2>6, <2>7
<1>3. CASE ~(Len(queue[s]) < QueueSize)
  <2>1. refused' = [refused EXCEPT ![s] = refused[s] \cup {id}] /\ queue' = queue
    BY <1>3 DEF Put
  <2>2. /\ refused'[s] = refused[s] \cup {id}
        /\ \A t \in Streams \ {s} : refused'[t] = refused[t]
    BY <2>1 DEF TypeOK
  <2>3. queue' \in [Streams -> Seq(Ids)] /\ refused' \in [Streams -> SUBSET Ids]
    BY <2>1 DEF TypeOK
  <2>4. \A t \in Streams : Len(queue'[t]) <= QueueSize
    BY <2>1 DEF TypeOK
  <2>5. Seen(s)' = Seen(s) \cup {id}
    BY <2>1, <2>2 DEF Seen
  <2>6. id \notin Seen(s) /\ EachInOnePlace(s) => EachInOnePlace(s)'
    BY <2>1, <2>2 DEF Seen, EachInOnePlace
  <2> QED
    BY <2>1, <2>2, <2>3, <2>4, <2>5, <2>6
<1> QED
  BY <1>2, <1>3

-----------------------------------------------------------------------------
(* Types, publishers, slots.                                               *)

\* Open streams can be counted
LEMMA OpenIsFinite == IsFiniteSet(Open)
BY StreamsAssumption, FS_Subset DEF Open

\* The page is a sequence of at most Page events
LEMMA PageFits ==
    ASSUME last \in 0 .. MaxEvents, NEW id \in 0 .. MaxEvents
    PROVE  EventsAfter(id) \in Seq(Ids) /\ Len(EventsAfter(id)) <= Page
<1> DEFINE from == IF id > Oldest THEN id ELSE Oldest
           size == IF last - from < Page THEN last - from ELSE Page
<1>1. Oldest \in 0 .. last
  BY LimitsAssumption DEF Oldest
<1>2. from \in Nat /\ size \in Int /\ size <= Page /\ size <= last - from
  BY <1>1, LimitsAssumption
<1>3. \A i \in 1 .. size : from + i \in Ids
  BY <1>2, LimitsAssumption DEF Ids
<1>6. EventsAfter(id) = [i \in 1 .. size |-> from + i]
  BY DEF EventsAfter
<1>4. CASE size >= 0
  <2>1. [i \in 1 .. size |-> from + i] \in Seq(Ids)
    BY <1>2, <1>3, <1>4
  <2>2. Len([i \in 1 .. size |-> from + i]) = size
    BY <1>2, <1>4
  <2> QED
    BY <1>2, <1>6, <2>1, <2>2
<1>5. CASE size < 0
  <2>1. 1 .. size = {}
    BY <1>2, <1>5
  <2>2. [i \in 1 .. size |-> from + i] = <<>>
    BY <2>1
  <2>3. EventsAfter(id) = <<>>
    BY <2>2, <1>6
  <2>4. <<>> \in Seq(Ids) /\ Len(<<>>) = 0 /\ 0 <= Page
    BY EmptySeq, LimitsAssumption
  <2> QED
    BY <2>3, <2>4
<1> QED
  BY <1>2, <1>4, <1>5

LEMMA TypeInit == Init => TypeInv
<1> SUFFICES ASSUME Init PROVE TypeInv
  OBVIOUS
<1>1. Open = {}
  BY DEF Init, Open
<1>2. Cardinality(Open) = 0
  BY <1>1, FS_EmptySet
<1>3. TypeOK
  BY <1>1, LimitsAssumption DEF Init, TypeOK, Ids, NoEvent
<1> QED
  BY <1>2, <1>3 DEF Init, TypeInv, PublishersFit, StreamsFit, NothingLeaks, NoEvent

\* One stream opens, or closes: so many slots are in use then
LEMMA OpenGrows ==
    ASSUME NEW s \in Streams, phase[s] = "closed", TypeOK, NEW to, to # "closed",
           phase' = [phase EXCEPT ![s] = to]
    PROVE  Cardinality(Open') = Cardinality(Open) + 1
<1>1. Open' = Open \cup {s} /\ s \notin Open
  BY DEF Open, TypeOK
<1> QED
  BY <1>1, OpenIsFinite, FS_AddElement

LEMMA OpenShrinks ==
    ASSUME NEW s \in Streams, phase[s] # "closed", TypeOK, phase' = [phase EXCEPT ![s] = "closed"]
    PROVE  Cardinality(Open') = Cardinality(Open) - 1 /\ Cardinality(Open) - 1 \in Nat
<1>1. Open' = Open \ {s} /\ s \in Open
  BY DEF Open, TypeOK
<1>2. Cardinality(Open') = Cardinality(Open) - 1 /\ IsFiniteSet(Open')
  BY <1>1, OpenIsFinite, FS_RemoveElement
<1> QED
  BY <1>2, FS_CardinalityType

LEMMA OpenKept ==
    ASSUME NEW s \in Streams, phase[s] # "closed", TypeOK, NEW to, to # "closed",
           phase' = [phase EXCEPT ![s] = to]
    PROVE  Open' = Open
BY DEF Open, TypeOK

\* Each step keeps the types, the publishers' events apart and the slots counted
LEMMA TypeStep == TypeInv /\ [Next]_vars => TypeInv'
<1> SUFFICES ASSUME TypeInv, [Next]_vars
             PROVE  TypeInv'
  OBVIOUS
<1>0. TypeOK /\ PublishersFit /\ StreamsFit /\ NothingLeaks
  BY DEF TypeInv
<1> USE DEF TypeInv, publisherVars, streamVars
<1>1. ASSUME NEW p \in Publishers, Record(p) PROVE TypeInv'
  <2>1. last + 1 \in Ids /\ last' \in 0 .. MaxEvents
    BY <1>0, <1>1, LimitsAssumption DEF Record, TypeOK, Ids
  <2>2. TypeOK'
    BY <1>0, <1>1, <2>1 DEF Record, TypeOK, Open
  <2>3. PublishersFit'
    BY <1>0, <1>1, <2>1 DEF Record, PublishersFit, TypeOK, NoEvent, Ids
  <2>4. StreamsFit' /\ NothingLeaks'
    BY <1>0, <1>1 DEF Record, StreamsFit, NothingLeaks, Open
  <2> QED
    BY <2>2, <2>3, <2>4
<1>2. ASSUME NEW p \in Publishers, ReadSubscribers(p) PROVE TypeInv'
  <2>1. TypeOK'
    BY <1>0, <1>2 DEF ReadSubscribers, TypeOK, Open
  <2>2. PublishersFit'
    BY <1>0, <1>2 DEF ReadSubscribers, PublishersFit, TypeOK
  <2>3. StreamsFit' /\ NothingLeaks'
    BY <1>0, <1>2 DEF ReadSubscribers, StreamsFit, NothingLeaks, TypeOK, Open
  <2> QED
    BY <2>1, <2>2, <2>3
<1>3. ASSUME NEW p \in Publishers, NEW s \in Streams, Offer(p, s) PROVE TypeInv'
  <2>1. event[p] \in Ids /\ phase[s] \in {"live", "releasing"}
    BY <1>0, <1>3 DEF Offer, PublishersFit, StreamsFit, TypeOK, NoEvent, Ids
  <2>2. /\ queue' \in [Streams -> Seq(Ids)] /\ refused' \in [Streams -> SUBSET Ids]
        /\ \A t \in Streams : Len(queue'[t]) <= QueueSize
        /\ \A t \in Streams \ {s} : queue'[t] = queue[t] /\ refused'[t] = refused[t]
    BY <1>0, <1>3, <2>1, PutFacts DEF Offer
  <2>7. targets' \in [Publishers -> SUBSET Streams]
    BY <1>0, <1>3 DEF Offer, TypeOK
  <2>8. Open' = Open
    BY <1>3 DEF Offer, Open
  <2>9. UNCHANGED <<last, event, step, active, subscribers, phase, gone, after, replay, since, sent>>
    BY <1>3 DEF Offer
  <2>3. TypeOK'
    BY <1>0, <2>2, <2>7, <2>8, <2>9 DEF TypeOK
  <2>4. PublishersFit'
    BY <1>0, <1>3 DEF Offer, PublishersFit, TypeOK
  <2>5. StreamsFit'
    BY <1>0, <1>3, <2>1, <2>2 DEF Offer, StreamsFit, TypeOK
  <2>6. NothingLeaks'
    BY <1>0, <1>3 DEF Offer, NothingLeaks, Open
  <2> QED
    BY <2>3, <2>4, <2>5, <2>6
<1>4. ASSUME NEW p \in Publishers, Published(p) PROVE TypeInv'
  <2>1. TypeOK'
    BY <1>0, <1>4 DEF Published, TypeOK, Open
  <2>2. PublishersFit'
    BY <1>0, <1>4 DEF Published, PublishersFit, TypeOK, NoEvent
  <2>3. StreamsFit' /\ NothingLeaks'
    BY <1>0, <1>4 DEF Published, StreamsFit, NothingLeaks, Open
  <2> QED
    BY <2>1, <2>2, <2>3
<1>5. ASSUME NEW s \in Streams, Reserve(s) PROVE TypeInv'
  <2>1. Cardinality(Open') = Cardinality(Open) + 1
    BY <1>0, <1>5, OpenGrows DEF Reserve
  <2>2. gone \subseteq Open' /\ active + 1 \in 0 .. MaxStreams
    BY <1>0, <1>5, LimitsAssumption DEF Reserve, HasCapacity, TypeOK, Open
  <2>6. after' \in [Streams -> 0 .. MaxEvents]
    BY <1>0, <1>5, LimitsAssumption DEF Reserve, TypeOK
  <2>3. TypeOK'
    BY <1>0, <1>5, <2>2, <2>6 DEF Reserve, TypeOK
  <2>4. PublishersFit' /\ StreamsFit'
    BY <1>0, <1>5 DEF Reserve, PublishersFit, StreamsFit, TypeOK
  <2>5. NothingLeaks'
    BY <1>0, <1>5, <2>1 DEF Reserve, NothingLeaks, TypeOK
  <2> QED
    BY <2>3, <2>4, <2>5
<1>6. ASSUME NEW s \in Streams, ReadReplay(s) PROVE TypeInv'
  <2>1. Open' = Open
    BY <1>0, <1>6, OpenKept DEF ReadReplay
  <2>2. EventsAfter(after[s]) \in Seq(Ids) /\ Len(EventsAfter(after[s])) <= Page
    BY <1>0, PageFits DEF TypeOK
  <2>3. TypeOK'
    BY <1>0, <1>6, <2>1, <2>2, LimitsAssumption DEF ReadReplay, TypeOK
  <2>4. PublishersFit' /\ StreamsFit'
    BY <1>0, <1>6 DEF ReadReplay, PublishersFit, StreamsFit, TypeOK
  <2>5. NothingLeaks'
    BY <1>0, <1>6, <2>1 DEF ReadReplay, NothingLeaks, TypeOK
  <2> QED
    BY <2>3, <2>4, <2>5
<1>7. ASSUME NEW s \in Streams, ReadFails(s) PROVE TypeInv'
  <2>1. Open' = Open
    BY <1>0, <1>7, OpenKept DEF ReadFails
  <2>2. TypeOK'
    BY <1>0, <1>7, <2>1 DEF ReadFails, TypeOK
  <2>3. PublishersFit' /\ StreamsFit'
    BY <1>0, <1>7 DEF ReadFails, PublishersFit, StreamsFit, TypeOK
  <2>4. NothingLeaks'
    BY <1>0, <1>7, <2>1 DEF ReadFails, NothingLeaks, TypeOK
  <2> QED
    BY <2>2, <2>3, <2>4
<1>8. ASSUME NEW s \in Streams, Replay(s) PROVE TypeInv'
  <2>1. Tail(replay[s]) \in Seq(Ids) /\ Len(Tail(replay[s])) <= Page
    BY <1>0, <1>8, TailFacts, LenProperties, LimitsAssumption DEF Replay, TypeOK
  <2>2. TypeOK'
    BY <1>0, <1>8, <2>1 DEF Replay, TypeOK, Open
  <2>3. PublishersFit' /\ StreamsFit' /\ NothingLeaks'
    BY <1>0, <1>8 DEF Replay, PublishersFit, StreamsFit, NothingLeaks, Open
  <2> QED
    BY <2>2, <2>3
<1>9. ASSUME NEW s \in Streams, Subscribe(s) PROVE TypeInv'
  <2>1. Open' = Open
    BY <1>0, <1>9, OpenKept DEF Subscribe
  <2>2. TypeOK'
    BY <1>0, <1>9, <2>1 DEF Subscribe, TypeOK
  <2>3. PublishersFit' /\ StreamsFit'
    BY <1>0, <1>9 DEF Subscribe, PublishersFit, StreamsFit, TypeOK
  <2>4. NothingLeaks'
    BY <1>0, <1>9, <2>1 DEF Subscribe, NothingLeaks, TypeOK
  <2> QED
    BY <2>2, <2>3, <2>4
<1>10. ASSUME NEW s \in Streams, Send(s) PROVE TypeInv'
  <2>1. /\ Tail(queue[s]) \in Seq(Ids) /\ Len(Tail(queue[s])) <= QueueSize
        /\ Head(queue[s]) \in Ids
    BY <1>0, <1>10, TailFacts, LenProperties, LimitsAssumption DEF Send, TypeOK
  <2>2. TypeOK'
    BY <1>0, <1>10, <2>1 DEF Send, TypeOK, Open
  <2>3. PublishersFit' /\ StreamsFit' /\ NothingLeaks'
    BY <1>0, <1>10 DEF Send, PublishersFit, StreamsFit, NothingLeaks, Open, TypeOK
  <2> QED
    BY <2>2, <2>3
<1>11. ASSUME NEW s \in Streams, Leave(s) PROVE TypeInv'
  <2>1. TypeOK'
    BY <1>0, <1>11 DEF Leave, TypeOK, Open
  <2>2. PublishersFit' /\ StreamsFit' /\ NothingLeaks'
    BY <1>0, <1>11 DEF Leave, PublishersFit, StreamsFit, NothingLeaks, Open
  <2> QED
    BY <2>1, <2>2
<1>12. ASSUME NEW s \in Streams, Unsubscribe(s) PROVE TypeInv'
  <2>1. Open' = Open
    BY <1>0, <1>12, OpenKept DEF Unsubscribe, Writes
  <2>2. TypeOK'
    BY <1>0, <1>12, <2>1 DEF Unsubscribe, TypeOK
  <2>3. PublishersFit' /\ StreamsFit'
    BY <1>0, <1>12 DEF Unsubscribe, PublishersFit, StreamsFit, TypeOK
  <2>4. NothingLeaks'
    BY <1>0, <1>12, <2>1 DEF Unsubscribe, NothingLeaks, TypeOK
  <2> QED
    BY <2>2, <2>3, <2>4
<1>13. ASSUME NEW s \in Streams, Release(s) PROVE TypeInv'
  <2>1. Cardinality(Open') = Cardinality(Open) - 1 /\ Cardinality(Open) - 1 \in Nat
    BY <1>0, <1>13, OpenShrinks DEF Release
  <2>2. active - 1 \in 0 .. MaxStreams /\ gone \ {s} \subseteq Open'
    BY <1>0, <1>13, <2>1, LimitsAssumption DEF Release, NothingLeaks, TypeOK, Open
  <2>3. TypeOK'
    BY <1>0, <1>13, <2>2, LimitsAssumption DEF Release, TypeOK
  <2>4. PublishersFit' /\ StreamsFit'
    BY <1>0, <1>13 DEF Release, PublishersFit, StreamsFit, TypeOK
  <2>5. NothingLeaks'
    BY <1>0, <1>13, <2>1 DEF Release, NothingLeaks, TypeOK
  <2> QED
    BY <2>3, <2>4, <2>5
<1>14. ASSUME Crash PROVE TypeInv'
  <2>1. Open' = {}
    BY <1>14 DEF Crash, Open
  <2>2. Cardinality(Open') = 0
    BY <2>1, FS_EmptySet
  <2>3. TypeOK'
    BY <1>0, <1>14, <2>1, LimitsAssumption DEF Crash, TypeOK, NoEvent
  <2> QED
    BY <1>14, <2>2, <2>3 DEF Crash, PublishersFit, StreamsFit, NothingLeaks, NoEvent
<1>15. CASE UNCHANGED vars
  BY <1>0, <1>15 DEF vars, TypeOK, PublishersFit, StreamsFit, NothingLeaks, Open
<1> QED
  BY <1>1, <1>2, <1>3, <1>4, <1>5, <1>6, <1>7, <1>8, <1>9, <1>10, <1>11, <1>12, <1>13, <1>14, <1>15
     DEF Next, PublisherStep, ServerStep

-----------------------------------------------------------------------------
(* Delivery.                                                               *)

LEMMA DeliveryInit == Init => DeliveryInv
BY EmptyFacts DEF Init, DeliveryInv, ArrivesOnce, EachInOnePlace, Complete, Bound, Seen

\* What a step that leaves one stream alone keeps, if no publisher but one that
\* is going to offer it something forgets about it
LEMMA StreamKept ==
    ASSUME TypeOK, NEW s \in Streams, ArrivesOnce(s), Complete(s),
           phase'[s] = "live" => phase[s] = "live", since'[s] = since[s],
           queue'[s] = queue[s], sent'[s] = sent[s], refused'[s] = refused[s], last' = last,
           \A p \in Publishers : Bound(p, s)' => Bound(p, s) /\ event'[p] = event[p],
           phase'[s] = "live" => \A p \in Publishers : Bound(p, s) => Bound(p, s)'
    PROVE  ArrivesOnce(s)' /\ Complete(s)'
<1>1. Seen(s)' = Seen(s) /\ EachInOnePlace(s)' = EachInOnePlace(s)
  BY DEF Seen, EachInOnePlace
<1>2. ArrivesOnce(s)'
  BY <1>1 DEF ArrivesOnce
<1>3. Complete(s)'
  BY <1>1 DEF Complete
<1> QED
  BY <1>2, <1>3

\* A stream that has shown nothing has nothing twice
LEMMA FreshFacts ==
    ASSUME NEW s \in Streams, queue'[s] = <<>>, sent'[s] = {}, refused'[s] = {}, phase'[s] # "live"
    PROVE  ArrivesOnce(s)' /\ Complete(s)'
<1>1. Seen(s)' = {} /\ EachInOnePlace(s)'
  BY EmptyFacts DEF Seen, EachInOnePlace
<1> QED
  BY <1>1 DEF ArrivesOnce, Complete

\* Each step keeps every stream free of repetitions and every subscriber owed
\* what it has not seen
LEMMA DeliveryStep == IInv /\ [Next]_vars => DeliveryInv'
<1> SUFFICES ASSUME IInv, [Next]_vars
             PROVE  DeliveryInv'
  OBVIOUS
<1>0. /\ TypeOK /\ PublishersFit /\ StreamsFit /\ NothingLeaks
      /\ \A s \in Streams : ArrivesOnce(s) /\ Complete(s)
  BY DEF IInv, TypeInv, DeliveryInv
<1> USE DEF publisherVars, streamVars
\* steps that touch only where a stream is, and not its queue
<1>a. ASSUME NEW s \in Streams, NEW to, to # "live",
             phase' = [phase EXCEPT ![s] = to] \/ UNCHANGED phase,
             UNCHANGED <<last, event, step, targets, queue, since, sent, refused>>
      PROVE  DeliveryInv'
  <2>1. \A t \in Streams : phase'[t] = "live" => phase[t] = "live"
    BY <1>0, <1>a DEF TypeOK
  <2>2. \A t \in Streams, p \in Publishers : Bound(p, t)' <=> Bound(p, t)
    BY <1>a DEF Bound
  <2> QED
    BY <1>0, <1>a, <2>1, <2>2, StreamKept DEF DeliveryInv
<1>1. ASSUME NEW p \in Publishers, Record(p) PROVE DeliveryInv'
  <2> SUFFICES ASSUME NEW s \in Streams
               PROVE  ArrivesOnce(s)' /\ Complete(s)'
    BY DEF DeliveryInv
  <2>a. last \in Nat /\ last' = last + 1 /\ step[p] = "idle" /\ targets' = targets
    BY <1>0, <1>1, LimitsAssumption DEF Record, TypeOK
  <2>b. /\ event'[p] = last + 1 /\ step'[p] = "recorded"
        /\ \A q \in Publishers \ {p} : event'[q] = event[q] /\ step'[q] = step[q]
    BY <1>0, <1>1 DEF Record, TypeOK
  <2>c. event[p] = NoEvent /\ ~Bound(p, s)
    BY <1>0, <2>a DEF PublishersFit, Bound
  <2>1. /\ last \in Nat /\ last' = last + 1 /\ event'[p] = last + 1 /\ step'[p] = "recorded"
        /\ event[p] = NoEvent /\ ~Bound(p, s)
        /\ \A q \in Publishers \ {p} : event'[q] = event[q] /\ (Bound(q, s)' <=> Bound(q, s))
    BY <2>a, <2>b, <2>c DEF Bound
  <2>2. Seen(s)' = Seen(s) /\ EachInOnePlace(s)' = EachInOnePlace(s) /\ since' = since /\ phase' = phase
    BY <1>1 DEF Record, Seen, EachInOnePlace
  <2>3. Seen(s) \subseteq 1 .. last + 1 /\ last + 1 \notin Seen(s)
    BY <1>0, <2>1 DEF ArrivesOnce
  <2>4. ArrivesOnce(s)'
    BY <1>0, <2>1, <2>2, <2>3 DEF ArrivesOnce
  <2>5. ASSUME phase[s] = "live", NEW id \in since[s] + 1 .. last + 1, id \notin Seen(s)
        PROVE  \E q \in Publishers : event'[q] = id /\ Bound(q, s)'
    <3>1. CASE id = last + 1
      BY <2>1, <3>1 DEF Bound
    <3>2. CASE id # last + 1
      <4>1. id \in since[s] + 1 .. last
        BY <2>1, <2>5, <3>2, <1>0 DEF TypeOK
      <4>2. PICK q \in Publishers : event[q] = id /\ Bound(q, s)
        BY <1>0, <2>5, <4>1 DEF Complete
      <4> QED
        BY <2>1, <4>2
    <3> QED
      BY <3>1, <3>2
  <2>6. Complete(s)'
    BY <2>1, <2>2, <2>5 DEF Complete
  <2> QED
    BY <2>4, <2>6
<1>2. ASSUME NEW p \in Publishers, ReadSubscribers(p) PROVE DeliveryInv'
  <2> SUFFICES ASSUME NEW s \in Streams
               PROVE  ArrivesOnce(s)' /\ Complete(s)'
    BY DEF DeliveryInv
  <2>1. \A q \in Publishers : Bound(q, s)' => Bound(q, s)
    BY <1>0, <1>2 DEF ReadSubscribers, Bound, TypeOK
  <2>2. phase[s] = "live" => \A q \in Publishers : Bound(q, s) => Bound(q, s)'
    BY <1>0, <1>2 DEF ReadSubscribers, Bound, TypeOK, NothingLeaks
  <2>3. UNCHANGED <<last, event, streamVars>>
    BY <1>2 DEF ReadSubscribers
  <2> QED
    BY <1>0, <2>1, <2>2, <2>3, StreamKept
<1>3. ASSUME NEW p \in Publishers, NEW s \in Streams, Offer(p, s) PROVE DeliveryInv'
  <2>1. /\ event[p] \in 1 .. last /\ event[p] \in Ids /\ event[p] # NoEvent
        /\ Bound(p, s) /\ step[p] = "offering"
    BY <1>0, <1>3, LimitsAssumption DEF Offer, PublishersFit, TypeOK, NoEvent, Ids, Bound
  <2>2. /\ \A t \in Streams \ {s} : queue'[t] = queue[t] /\ refused'[t] = refused[t]
        /\ Seen(s)' = Seen(s) \cup {event[p]}
        /\ event[p] \notin Seen(s) /\ EachInOnePlace(s) => EachInOnePlace(s)'
    BY <1>0, <1>3, <2>1, PutFacts DEF Offer
  <2>3. UNCHANGED <<last, event, step, phase, since, sent>>
    BY <1>3 DEF Offer
  <2>4. /\ ~Bound(p, s)'
        /\ \A q \in Publishers, t \in Streams : q # p \/ t # s => (Bound(q, t)' <=> Bound(q, t))
    BY <1>0, <1>3 DEF Offer, Bound, TypeOK
  <2>5. ASSUME NEW t \in Streams, t # s
        PROVE  ArrivesOnce(t)' /\ Complete(t)'
    BY <1>0, <2>2, <2>3, <2>4, <2>5, StreamKept
  <2>6. ArrivesOnce(s)'
    <3>1. event[p] \notin Seen(s) /\ EachInOnePlace(s)'
      BY <1>0, <2>1, <2>2 DEF ArrivesOnce
    <3>2. \A q \in Publishers : Bound(q, s)' => q # p /\ Bound(q, s) /\ event[q] # event[p]
      BY <1>0, <2>1, <2>4 DEF PublishersFit
    <3> QED
      BY <1>0, <2>1, <2>2, <2>3, <3>1, <3>2 DEF ArrivesOnce
  <2>7. Complete(s)'
    BY <1>0, <2>2, <2>3, <2>4 DEF Complete
  <2> QED
    BY <2>5, <2>6, <2>7 DEF DeliveryInv
<1>4. ASSUME NEW p \in Publishers, Published(p) PROVE DeliveryInv'
  <2> SUFFICES ASSUME NEW s \in Streams
               PROVE  ArrivesOnce(s)' /\ Complete(s)'
    BY DEF DeliveryInv
  <2>1. /\ ~Bound(p, s) /\ ~Bound(p, s)'
        /\ \A q \in Publishers \ {p} : event'[q] = event[q] /\ (Bound(q, s)' <=> Bound(q, s))
    BY <1>0, <1>4 DEF Published, Bound, TypeOK
  <2>2. UNCHANGED <<last, streamVars>>
    BY <1>4 DEF Published
  <2>3. \A q \in Publishers : Bound(q, s)' => Bound(q, s) /\ event'[q] = event[q]
    BY <2>1
  <2>4. \A q \in Publishers : Bound(q, s) => Bound(q, s)'
    BY <2>1
  <2> QED
    BY <1>0, <2>2, <2>3, <2>4, StreamKept
<1>5. ASSUME NEW s \in Streams, Reserve(s) PROVE DeliveryInv'
  BY <1>5, <1>a DEF Reserve
<1>6. ASSUME NEW s \in Streams, ReadReplay(s) PROVE DeliveryInv'
  BY <1>6, <1>a DEF ReadReplay
<1>7. ASSUME NEW s \in Streams, ReadFails(s) PROVE DeliveryInv'
  BY <1>7, <1>a DEF ReadFails
<1>8. ASSUME NEW s \in Streams, Replay(s) PROVE DeliveryInv'
  BY <1>8, <1>a DEF Replay
<1>9. ASSUME NEW s \in Streams, Subscribe(s) PROVE DeliveryInv'
  <2>1. /\ UNCHANGED <<last, event, step, targets, queue, sent, refused>>
        /\ since'[s] = last /\ \A t \in Streams \ {s} : phase'[t] = phase[t] /\ since'[t] = since[t]
    BY <1>0, <1>9 DEF Subscribe, TypeOK
  <2>2. \A t \in Streams, p \in Publishers : Bound(p, t)' <=> Bound(p, t)
    BY <2>1 DEF Bound
  <2>3. ASSUME NEW t \in Streams, t # s
        PROVE  ArrivesOnce(t)' /\ Complete(t)'
    BY <1>0, <2>1, <2>2, <2>3, StreamKept
  <2>4. ArrivesOnce(s)'
    BY <1>0, <2>1, <2>2 DEF ArrivesOnce, Seen, EachInOnePlace
  <2>5. Complete(s)'
    <3>1. since'[s] + 1 .. last' = {}
      BY <1>0, <2>1, LimitsAssumption DEF TypeOK
    <3> QED
      BY <3>1 DEF Complete
  <2> QED
    BY <2>3, <2>4, <2>5 DEF DeliveryInv
<1>10. ASSUME NEW s \in Streams, Send(s) PROVE DeliveryInv'
  <2>1. /\ UNCHANGED <<last, event, step, targets, phase, since, refused>>
        /\ queue'[s] = Tail(queue[s]) /\ sent'[s] = sent[s] \cup {Head(queue[s])}
        /\ \A t \in Streams \ {s} : queue'[t] = queue[t] /\ sent'[t] = sent[t]
    BY <1>0, <1>10 DEF Send, TypeOK
  <2>2. \A t \in Streams, p \in Publishers : Bound(p, t)' <=> Bound(p, t)
    BY <2>1 DEF Bound
  <2>3. ASSUME NEW t \in Streams, t # s
        PROVE  ArrivesOnce(t)' /\ Complete(t)'
    BY <1>0, <2>1, <2>2, <2>3, StreamKept
  <2>4. queue[s] \in Seq(Ids) /\ queue[s] # <<>>
    BY <1>0, <1>10 DEF Send, TypeOK
  <2>5. /\ Items(queue[s]) = Items(Tail(queue[s])) \cup {Head(queue[s])}
        /\ Distinct(queue[s]) => Distinct(Tail(queue[s])) /\ Head(queue[s]) \notin Items(Tail(queue[s]))
    BY <2>4, TailFacts
  <2>6. Seen(s)' = Seen(s)
    BY <2>1, <2>5 DEF Seen
  <2>7. EachInOnePlace(s)'
    BY <1>0, <2>1, <2>5 DEF ArrivesOnce, EachInOnePlace
  <2>8. ArrivesOnce(s)' /\ Complete(s)'
    BY <1>0, <2>1, <2>2, <2>6, <2>7 DEF ArrivesOnce, Complete
  <2> QED
    BY <2>3, <2>8 DEF DeliveryInv
<1>11. ASSUME NEW s \in Streams, Leave(s) PROVE DeliveryInv'
  BY <1>11, <1>a DEF Leave
<1>12. ASSUME NEW s \in Streams, Unsubscribe(s) PROVE DeliveryInv'
  BY <1>12, <1>a DEF Unsubscribe
<1>13. ASSUME NEW s \in Streams, Release(s) PROVE DeliveryInv'
  <2>1. /\ queue'[s] = <<>> /\ sent'[s] = {} /\ refused'[s] = {} /\ phase'[s] # "live"
        /\ UNCHANGED <<last, event, step>>
        /\ \A t \in Streams \ {s} : /\ queue'[t] = queue[t] /\ sent'[t] = sent[t]
                                    /\ refused'[t] = refused[t] /\ since'[t] = since[t]
                                    /\ phase'[t] = phase[t]
    BY <1>0, <1>13 DEF Release, TypeOK
  <2>2. \A t \in Streams \ {s}, p \in Publishers : Bound(p, t)' <=> Bound(p, t)
    BY <1>13 DEF Release, Bound
  <2>3. ASSUME NEW t \in Streams, t # s
        PROVE  ArrivesOnce(t)' /\ Complete(t)'
    BY <1>0, <2>1, <2>2, <2>3, StreamKept
  <2>4. ArrivesOnce(s)' /\ Complete(s)'
    BY <2>1, FreshFacts
  <2> QED
    BY <2>3, <2>4 DEF DeliveryInv
<1>14. ASSUME Crash PROVE DeliveryInv'
  <2>1. \A s \in Streams :
           queue'[s] = <<>> /\ sent'[s] = {} /\ refused'[s] = {} /\ phase'[s] # "live"
    BY <1>14 DEF Crash
  <2> QED
    BY <2>1, FreshFacts DEF DeliveryInv
<1>15. CASE UNCHANGED vars
  <2>1. \A s \in Streams, p \in Publishers : Bound(p, s)' <=> Bound(p, s)
    BY <1>15 DEF vars, Bound
  <2> QED
    BY <1>0, <1>15, <2>1, StreamKept DEF vars, DeliveryInv
<1> QED
  BY <1>1, <1>2, <1>3, <1>4, <1>5, <1>6, <1>7, <1>8, <1>9, <1>10, <1>11, <1>12, <1>13, <1>14, <1>15
     DEF Next, PublisherStep, ServerStep

-----------------------------------------------------------------------------
(* Theorems.                                                               *)

\* The inductive invariant
THEOREM Invariance == Spec => []IInv
<1>1. Init => IInv
  BY TypeInit, DeliveryInit DEF IInv
<1>2. IInv /\ [Next]_vars => IInv'
  BY TypeStep, DeliveryStep DEF IInv
<1> QED
  BY <1>1, <1>2, PTL DEF Spec

\* What the broker, its publishers and its streams hold keeps its type
THEOREM TypeCorrect == Spec => []TypeOK
<1>1. IInv => TypeOK
  BY DEF IInv, TypeInv
<1> QED
  BY <1>1, Invariance, PTL

\* No slot and no subscriber queue outlives its stream (_StreamSubscription.close
\* and the finally clause of _stream), whatever readers, reads and publishers do
THEOREM SlotsAndQueuesAreReturned == Spec => []NothingLeaks
<1>1. IInv => NothingLeaks
  BY DEF IInv, TypeInv
<1> QED
  BY <1>1, Invariance, PTL

\* Of the events recorded since it subscribed, a stream has each in one place, or
\* a publisher is going to offer it, and never both (publish and _stream)
THEOREM DeliveredExactlyOnce == Spec => []LiveIsExactlyOnce
<1>1. IInv => LiveIsExactlyOnce
  <2> SUFFICES ASSUME IInv, NEW s \in subscribers
               PROVE  LET queued == {queue[s][i] : i \in DOMAIN queue[s]}
                      IN  /\ Cardinality(queued) = Len(queue[s])
                          /\ queued \cap sent[s] = {} /\ (queued \cup sent[s]) \cap refused[s] = {}
                          /\ \A id \in since[s] + 1 .. last :
                                 InFlight(s, id) <=> id \notin queued \cup sent[s] \cup refused[s]
    BY DEF LiveIsExactlyOnce
  <2>1. TypeOK /\ PublishersFit /\ NothingLeaks /\ s \in Streams /\ phase[s] = "live"
    BY DEF IInv, TypeInv, NothingLeaks
  <2>2. ArrivesOnce(s) /\ Complete(s) /\ queue[s] \in Seq(Ids)
    BY <2>1 DEF IInv, DeliveryInv, TypeOK
  <2>3. /\ {queue[s][i] : i \in DOMAIN queue[s]} = Items(queue[s])
        /\ Cardinality(Items(queue[s])) = Len(queue[s])
    BY <2>2, CountFacts DEF ArrivesOnce, EachInOnePlace
  <2>4. \A id : InFlight(s, id) <=> \E p \in Publishers : event[p] = id /\ Bound(p, s)
    BY <2>1 DEF InFlight, Bound, PublishersFit, TypeOK
  <2>5. \A id \in since[s] + 1 .. last : InFlight(s, id) <=> id \notin Seen(s)
    BY <2>1, <2>2, <2>4 DEF ArrivesOnce, Complete
  <2> QED
    BY <2>2, <2>3, <2>5 DEF ArrivesOnce, EachInOnePlace, Seen
<1> QED
  BY <1>1, Invariance, PTL
=============================================================================
