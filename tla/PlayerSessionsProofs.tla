------------------------ MODULE PlayerSessionsProofs ------------------------
(***************************************************************************)
(* Proofs about PlayerSessions for every number of players, names,         *)
(* connections, renames, refreshes, breaks of the stream and deaths.       *)
(***************************************************************************)
EXTENDS PlayerSessions, FiniteSetTheorems, TLAPS

Nexts == {"idle", "listed", "missing"}

\* What a thread holds at each step.
ThreadFits(t) ==
    /\ thread[t].step \in {"idle", "look", "write", "listed", "missing", "close"}
    /\ thread[t].step \in {"look", "write"} =>
          thread[t].what \in Observations /\ thread[t].next \in Nexts
    /\ thread[t].step = "write" =>
          /\ thread[t].identity \in Identities
          /\ thread[t].merge \in Names \cup {Unknown}
          /\ thread[t].merge # Unknown => thread[t].identity \in Xuids
          /\ thread[t].was \in BOOLEAN
    /\ thread[t].step = "close" => t = "events" /\ thread[t].online \subseteq Identities

\* A profile has the name it was last seen with.
NamesFit == \A i \in Identities : profile[i] # "absent" => current[i] \in Names

TypeInv ==
    /\ VisitsTypeOK
    /\ thread = [t \in Threads |-> thread[t]]
    /\ \A t \in Threads : ThreadFits(t)
    /\ NamesFit

\* What a thread saw is still so while no observation overlapped it.
NothingIsStale ==
    ~ overlap =>
        /\ \A t \in Threads : thread[t].step = "write" =>
              (thread[t].was <=> profile[thread[t].identity] = "online")
        /\ thread["events"].step = "close" =>
              thread["events"].online = {i \in Identities : profile[i] = "online"}

VisitsInv == TypeInv /\ EverySessionIsCounted /\ NothingIsStale /\ SessionMatchesPresence

\* A player's xuid is no temporary identity, and there are three threads.
LEMMA IdentityFacts ==
    /\ Xuids \subseteq Identities /\ Names \subseteq Identities
    /\ Unknown \notin Identities
    /\ \A n \in Names : n \notin Xuids
    /\ {"log", "refresh", "events"} = Threads
BY PlayersAssumption DEF Identities, Threads

\* The list of a finite set is a sequence of its elements.
LEMMA ListFits ==
    ASSUME NEW S, IsFiniteSet(S)
    PROVE  SetToSeq(S) \in Seq(S)
<1>1. Cardinality(S) \in Nat /\ ExistsBijection(1..Cardinality(S), S)
    BY FS_CardinalityType
<1>2. PICK f \in [1..Cardinality(S) -> S] : IsInjective(f)
    BY <1>1 DEF ExistsBijection, Bijection, Injection, IsInjective
<1>3. SetToSeq(S) \in [1..Cardinality(S) -> S]
    BY <1>2 DEF SetToSeq
<1> QED BY <1>1, <1>3

-----------------------------------------------------------------------------
(* Lemmas about the operators.                                             *)

\* What moves from one identity to another is neither lost nor doubled.
LEMMA MovedFits ==
    ASSUME NEW f \in [Identities -> Nat], NEW from \in Identities, NEW to \in Identities, from # to
    PROVE  /\ Moved(f, from, to) \in [Identities -> Nat]
           /\ Moved(f, from, to)[to] = f[to] + f[from]
           /\ Moved(f, from, to)[from] = 0
           /\ \A i \in Identities : i # to /\ i # from => Moved(f, from, to)[i] = f[i]
BY DEF Moved

\* A merge keeps the types, the count of every identity, and the sessions of a
\* profile that takes over another name.
LEMMA MergeFits ==
    ASSUME VisitsTypeOK, EverySessionIsCounted, NEW from \in Identities, NEW to \in Identities
    PROVE  /\ Merge(from, to).profile \in [Identities -> {"absent", "offline", "online"}]
           /\ Merge(from, to).aliases \in [Identities -> SUBSET Names]
           /\ Merge(from, to).open \in [Identities -> Nat]
           /\ Merge(from, to).closed \in [Identities -> Nat]
           /\ Merge(from, to).calendar \in [Identities -> Nat]
           /\ \A i \in Identities :
                 Merge(from, to).calendar[i] = Merge(from, to).open[i] + Merge(from, to).closed[i]
           /\ \A i \in Identities : profile[i] = "absent" /\ i # to => Merge(from, to).profile[i] = "absent"
           /\ profile[to] = "absent" /\ SessionMatchesPresence /\ ~ overlap /\ ~ merged =>
                 \A i \in Identities : Merge(from, to).open[i] =
                    IF Merge(from, to).profile[i] = "online" THEN 1 ELSE 0
<1>0. /\ profile \in [Identities -> {"absent", "offline", "online"}]
      /\ aliases \in [Identities -> SUBSET Names]
      /\ open \in [Identities -> Nat] /\ closed \in [Identities -> Nat]
      /\ calendar \in [Identities -> Nat]
      /\ \A i \in Identities : calendar[i] = open[i] + closed[i]
    BY DEF VisitsTypeOK, EverySessionIsCounted
<1>1. CASE from = to \/ profile[from] = "absent"
    BY <1>0, <1>1 DEF Merge, SessionMatchesPresence
<1>2. CASE from # to /\ profile[from] # "absent"
    <2> DEFINE m == Merge(from, to)
    <2>1. /\ m.profile = [profile EXCEPT ![to] = IF @ = "absent" THEN profile[from] ELSE @,
                                         ![from] = "absent"]
          /\ m.aliases = [aliases EXCEPT ![to] = @ \cup aliases[from], ![from] = {}]
          /\ m.open = Moved(open, from, to)
          /\ m.closed = Moved(closed, from, to)
          /\ m.calendar = Moved(calendar, from, to)
        BY <1>2 DEF Merge, MergedDays
    <2> HIDE DEF m
    <2>2. /\ m.open \in [Identities -> Nat] /\ m.closed \in [Identities -> Nat]
          /\ m.calendar \in [Identities -> Nat]
        BY <1>0, <1>2, <2>1, MovedFits
    <2>3. ASSUME NEW i \in Identities PROVE m.calendar[i] = m.open[i] + m.closed[i]
        <3>1. CASE i = to
            BY SMTT(30), <1>0, <1>2, <2>1, <3>1, MovedFits
        <3>2. CASE i = from
            BY <1>0, <1>2, <2>1, <3>2, MovedFits
        <3>3. CASE i # to /\ i # from
            BY <1>0, <1>2, <2>1, <3>3, MovedFits
        <3> QED BY <3>1, <3>2, <3>3
    <2>4. ASSUME profile[to] = "absent", SessionMatchesPresence, ~ overlap, ~ merged, NEW i \in Identities
          PROVE  m.open[i] = IF m.profile[i] = "online" THEN 1 ELSE 0
        <3>1. \A j \in Identities : open[j] = IF profile[j] = "online" THEN 1 ELSE 0
            BY <2>4 DEF SessionMatchesPresence
        <3>2. CASE i = to
            <4>1. m.open[to] = open[to] + open[from] /\ open[to] = 0
                BY <1>0, <1>2, <2>1, <2>4, <3>1, MovedFits
            <4>2. m.profile[to] = profile[from]
                BY <1>0, <1>2, <2>1, <2>4
            <4> QED BY <1>0, <3>1, <3>2, <4>1, <4>2
        <3>3. CASE i = from
            BY <1>0, <1>2, <2>1, <3>3, MovedFits
        <3>4. CASE i # to /\ i # from
            BY <1>0, <1>2, <2>1, <3>1, <3>4, MovedFits
        <3> QED BY <3>2, <3>3, <3>4
    <2>5. /\ m.profile \in [Identities -> {"absent", "offline", "online"}]
          /\ m.aliases \in [Identities -> SUBSET Names]
          /\ \A i \in Identities : profile[i] = "absent" /\ i # to => m.profile[i] = "absent"
        BY <1>0, <1>2, <2>1
    <2> QED BY <2>2, <2>3, <2>4, <2>5 DEF m
<1> QED BY <1>1, <1>2

\* The death of the container closes a session that is open, and only that.
LEMMA CloseFits ==
    ASSUME VisitsTypeOK, EverySessionIsCounted, NEW online \in SUBSET Identities, CloseSessions(online)
    PROVE  /\ open' \in [Identities -> Nat] /\ closed' \in [Identities -> Nat]
           /\ \A i \in Identities : calendar[i] = open'[i] + closed'[i]
           /\ \A i \in online : open[i] \in {0, 1} => open'[i] = 0
           /\ \A i \in Identities \ online : open'[i] = open[i]
<1>0. /\ open \in [Identities -> Nat] /\ closed \in [Identities -> Nat]
      /\ \A i \in Identities : calendar[i] = open[i] + closed[i]
    BY DEF VisitsTypeOK, EverySessionIsCounted
<1>1. /\ open' = [i \in Identities |-> IF i \in online /\ open[i] > 0 THEN open[i] - 1 ELSE open[i]]
      /\ closed' = [i \in Identities |-> IF i \in online /\ open[i] > 0 THEN closed[i] + 1 ELSE closed[i]]
    BY DEF CloseSessions
<1> QED BY <1>0, <1>1

-----------------------------------------------------------------------------
(* The steps.                                                              *)

\* What Write stores: t observed o for the identity i.
LEMMA WriteKeepsInvariant ==
    ASSUME VisitsInv, NEW t \in {"log", "refresh"}, Write(t)
    PROVE  VisitsInv'
<1> DEFINE o == thread[t].what
           i == thread[t].identity
           m == IF thread[t].merge = Unknown THEN Merge(i, i) ELSE Merge(thread[t].merge, i)
           was == IF thread[t].merge = Unknown THEN thread[t].was ELSE m.profile[i] = "online"
           s == SessionsAfter(m.open, m.closed, i, o.connected, was)
<1>0. /\ VisitsTypeOK /\ t \in Threads /\ thread[t].step = "write"
      /\ o \in Observations /\ i \in Identities /\ thread[t].next \in Nexts
      /\ thread[t].merge \in Names \cup {Unknown} /\ thread = [u \in Threads |-> thread[u]]
      /\ \A u \in Threads : ThreadFits(u)
      /\ NamesFit /\ EverySessionIsCounted
    BY IdentityFacts DEF Write, VisitsInv, TypeInv, ThreadFits
<1>1. /\ profile' = [m.profile EXCEPT ![i] = IF o.connected THEN "online" ELSE "offline"]
      /\ current' = [current EXCEPT ![i] = o.name]
      /\ aliases' = [m.aliases EXCEPT ![i] = @ \cup {o.name}]
      /\ open' = s.open /\ closed' = s.closed
      /\ calendar' = IF o.connected /\ ~ was THEN [m.calendar EXCEPT ![i] = @ + 1] ELSE m.calendar
      /\ merged' = (merged \/ (thread[t].merge # Unknown /\ profile[i] # "absent"))
      /\ confirmed' = IF t = "refresh" /\ o.connected THEN confirmed \cup {i} ELSE confirmed
      /\ thread' = [thread EXCEPT ![t] = At(thread[t].next)]
      /\ overlap' = (overlap \/ \E u \in Threads \ {t} : thread[u].step \in {"write", "close"})
      /\ UNCHANGED <<gameVars, known, todo, refreshes>>
    BY DEF Write
<1>2. /\ m.profile \in [Identities -> {"absent", "offline", "online"}]
      /\ m.aliases \in [Identities -> SUBSET Names]
      /\ m.open \in [Identities -> Nat] /\ m.closed \in [Identities -> Nat]
      /\ m.calendar \in [Identities -> Nat]
      /\ \A j \in Identities : m.calendar[j] = m.open[j] + m.closed[j]
      /\ \A j \in Identities : profile[j] = "absent" /\ j # i => m.profile[j] = "absent"
    BY <1>0, MergeFits, IdentityFacts
<1> HIDE DEF m
<1>3. o.connected \in BOOLEAN /\ o.name \in Names
    BY <1>0 DEF Observations
<1>3a. was \in BOOLEAN
    BY <1>0 DEF ThreadFits
<1> DEFINE fresh == o.connected /\ ~ was
<1>4. /\ s.open \in [Identities -> Nat] /\ s.closed \in [Identities -> Nat]
      /\ \A j \in Identities \ {i} : s.open[j] = m.open[j] /\ s.closed[j] = m.closed[j]
      /\ s.open[i] + s.closed[i] = m.open[i] + m.closed[i] + (IF fresh THEN 1 ELSE 0)
      /\ m.open[i] = (IF was THEN 1 ELSE 0) => s.open[i] = IF o.connected THEN 1 ELSE 0
    <2> DEFINE connected == o.connected
    <2>1. i \in Identities /\ connected \in BOOLEAN /\ s = SessionsAfter(m.open, m.closed, i, connected, was)
        BY <1>0, <1>3
    <2> HIDE DEF was, i, connected, s
    <2>2. /\ s.open \in [Identities -> Nat] /\ s.closed \in [Identities -> Nat]
          /\ \A j \in Identities \ {i} : s.open[j] = m.open[j] /\ s.closed[j] = m.closed[j]
          /\ s.open[i] + s.closed[i] = m.open[i] + m.closed[i] + (IF connected /\ ~ was THEN 1 ELSE 0)
          /\ m.open[i] = (IF was THEN 1 ELSE 0) => s.open[i] = IF connected THEN 1 ELSE 0
        <3>1. CASE connected /\ ~ was
            BY <1>2, <2>1, <3>1 DEF SessionsAfter
        <3>2. CASE ~ connected /\ was /\ m.open[i] > 0
            BY <1>2, <2>1, <3>2 DEF SessionsAfter
        <3>3. CASE ~ (connected /\ ~ was) /\ ~ (~ connected /\ was /\ m.open[i] > 0)
            BY <1>2, <2>1, <3>3 DEF SessionsAfter
        <3> QED BY <3>1, <3>2, <3>3
    <2> QED BY <2>2 DEF connected
<1>4a. fresh \in BOOLEAN
    BY <1>3, <1>3a
<1> HIDE DEF s
<1>5. calendar' = IF fresh THEN [m.calendar EXCEPT ![i] = @ + 1] ELSE m.calendar
    BY <1>1
<1>5a. calendar' \in [Identities -> Nat]
    <2> HIDE DEF fresh, i
    <2>1. CASE fresh
        BY <1>0, <1>2, <1>5, <2>1
    <2>2. CASE ~ fresh
        BY <1>2, <1>5, <2>2
    <2> QED BY <2>1, <2>2
<1>5b. \A j \in Identities : calendar'[j] = s.open[j] + s.closed[j]
    <2> SUFFICES ASSUME NEW j \in Identities PROVE calendar'[j] = s.open[j] + s.closed[j]
        OBVIOUS
    <2> HIDE DEF fresh, i
    <2>1. CASE j # i
        <3>1. calendar'[j] = m.calendar[j]
            BY <1>2, <1>5, <2>1
        <3> QED BY <1>2, <1>4, <2>1, <3>1
    <2>2. CASE j = i /\ fresh
        <3>1. calendar'[i] = m.calendar[i] + 1
            BY <1>0, <1>2, <1>5, <2>2
        <3> QED BY <1>0, <1>2, <1>4, <2>2, <3>1
    <2>3. CASE j = i /\ ~ fresh
        <3>1. calendar'[i] = m.calendar[i]
            BY <1>5, <2>3
        <3> QED BY <1>0, <1>2, <1>4, <2>3, <3>1
    <2> QED BY <1>4a, <2>1, <2>2, <2>3
<1>6. /\ profile'[i] = (IF o.connected THEN "online" ELSE "offline")
      /\ \A j \in Identities : j # i => profile'[j] = m.profile[j]
      /\ current'[i] = o.name
      /\ \A j \in Identities : j # i => current'[j] = current[j]
    BY <1>0, <1>1, <1>2 DEF VisitsTypeOK
<1>7. \A u \in Threads : u # t => thread'[u] = thread[u]
    BY <1>0, <1>1
<1>8. thread'[t].step \in Nexts /\ thread' = [u \in Threads |-> thread'[u]]
    BY <1>0, <1>1 DEF At
<1>9. TypeInv'
    <2>1. /\ open' \in [Identities -> Nat] /\ closed' \in [Identities -> Nat]
          /\ calendar' \in [Identities -> Nat]
        BY <1>1, <1>4, <1>5a
    <2>2. /\ profile' \in [Identities -> {"absent", "offline", "online"}]
          /\ aliases' \in [Identities -> SUBSET Names]
          /\ current' \in [Identities -> Names \cup {Unknown}]
        BY <1>0, <1>1, <1>2, <1>3 DEF VisitsTypeOK
    <2>3. \A u \in Threads : ThreadFits(u)'
        BY <1>0, <1>7, <1>8 DEF ThreadFits, Nexts
    <2>4. NamesFit'
        BY <1>0, <1>2, <1>3, <1>6 DEF NamesFit
    <2>5. confirmed' \subseteq Identities /\ merged' \in BOOLEAN /\ overlap' \in BOOLEAN
        BY <1>0, <1>1 DEF VisitsTypeOK
    <2>6. VisitsTypeOK'
        <3>1. \A u \in Threads : thread'[u].step \in {"idle", "look", "write", "listed", "missing", "close"}
            BY <2>3 DEF ThreadFits
        <3>2. UNCHANGED <<present, gamertag, lines, known, todo>>
            BY <1>1 DEF gameVars
        <3>3. {open', closed', calendar'} \subseteq [Identities -> Nat] /\ {overlap', merged'} \subseteq BOOLEAN
            BY <2>1, <2>5
        <3> QED BY <1>0, <2>2, <2>5, <3>1, <3>2, <3>3 DEF VisitsTypeOK
    <2> QED BY <1>8, <2>3, <2>4, <2>6 DEF TypeInv
<1>10. EverySessionIsCounted'
    BY <1>1, <1>5b DEF EverySessionIsCounted
<1>11. ASSUME ~ overlap' PROVE \A u \in Threads : u # t => thread'[u].step \notin {"write", "close"}
    BY <1>1, <1>7, <1>11
<1>12. NothingIsStale'
    <2>1. thread'[t].step \notin {"write", "close"}
        BY <1>8 DEF Nexts
    <2>2. "events" \in Threads /\ "events" # t
        BY IdentityFacts
    <2> QED BY <1>11, <2>1, <2>2 DEF NothingIsStale
<1>13. SessionMatchesPresence'
    <2> SUFFICES ASSUME ~ overlap', ~ merged', NEW j \in Identities
                 PROVE  open'[j] = IF profile'[j] = "online" THEN 1 ELSE 0
        BY DEF SessionMatchesPresence
    <2>1. ~ overlap /\ ~ merged /\ (thread[t].merge = Unknown \/ profile[i] = "absent")
        BY <1>1
    <2>2. \A k \in Identities : open[k] = IF profile[k] = "online" THEN 1 ELSE 0
        BY <2>1 DEF VisitsInv, SessionMatchesPresence
    <2>3. \A k \in Identities : m.open[k] = IF m.profile[k] = "online" THEN 1 ELSE 0
        <3>1. CASE thread[t].merge = Unknown
            <4>1. m = Merge(i, i)
                BY <3>1 DEF m
            <4>2. m.open = open /\ m.profile = profile
                BY <4>1 DEF Merge
            <4> QED BY <2>2, <4>2
        <3>2. CASE thread[t].merge # Unknown
            <4>1. m = Merge(thread[t].merge, i) /\ thread[t].merge \in Identities
                BY <1>0, <3>2, IdentityFacts DEF m
            <4> QED BY <1>0, <2>1, <3>2, <4>1, MergeFits DEF VisitsInv
        <3> QED BY <3>1, <3>2
    <2>4. was <=> m.profile[i] = "online"
        <3>1. CASE thread[t].merge = Unknown
            <4>1. m = Merge(i, i)
                BY <3>1 DEF m
            <4>2. m.profile = profile
                BY <4>1 DEF Merge
            <4>3. thread[t].was <=> profile[i] = "online"
                BY <1>0, <2>1 DEF VisitsInv, NothingIsStale
            <4> QED BY <3>1, <4>2, <4>3
        <3>2. CASE thread[t].merge # Unknown
            BY <3>2
        <3> QED BY <3>1, <3>2
    <2>5. m.open[i] = IF was THEN 1 ELSE 0
        BY <1>0, <2>3, <2>4
    <2>6. CASE j = i
        <3>1. open'[i] = IF o.connected THEN 1 ELSE 0
            BY <1>1, <1>4, <2>5
        <3> QED BY <1>3, <1>6, <2>6, <3>1
    <2>7. CASE j # i
        BY <1>1, <1>4, <1>6, <2>3, <2>7
    <2> QED BY <2>6, <2>7
<1> QED BY <1>9, <1>10, <1>12, <1>13 DEF VisitsInv

\* A step that leaves the tables alone, and no observation less overlapping
\* than it was, keeps what is counted.
LEMMA TablesRest ==
    ASSUME VisitsInv, UNCHANGED <<tableVars, merged>>, overlap => overlap'
    PROVE  EverySessionIsCounted' /\ SessionMatchesPresence' /\ NamesFit'
BY DEF VisitsInv, TypeInv, tableVars, EverySessionIsCounted, SessionMatchesPresence, NamesFit

\* A step that leaves the threads alone too keeps the invariant if its types fit.
LEMMA ThreadsRest ==
    ASSUME VisitsInv, UNCHANGED <<tableVars, thread, overlap, merged>>, VisitsTypeOK'
    PROVE  VisitsInv'
<1>1. TypeInv' /\ NothingIsStale'
    BY TablesRest DEF VisitsInv, TypeInv, ThreadFits, NothingIsStale, tableVars
<1> QED BY <1>1, TablesRest DEF VisitsInv

\* A step of one thread that neither observes nor closes keeps the invariant.
LEMMA ThreadMoves ==
    ASSUME VisitsInv, NEW t \in Threads, NEW to, thread' = [thread EXCEPT ![t] = to],
           to.step \in {"idle", "listed", "missing", "look"},
           to.step = "look" => to.what \in Observations /\ to.next \in Nexts,
           UNCHANGED <<tableVars, overlap, merged, present, gamertag>>,
           lines' \in Seq(Observations), known' \in [Names -> Xuids \cup {Unknown}],
           todo' \in Seq(Observations), confirmed' \subseteq Identities
    PROVE  VisitsInv'
<1>1. thread = [u \in Threads |-> thread[u]] /\ VisitsTypeOK /\ \A u \in Threads : ThreadFits(u)
    BY DEF VisitsInv, TypeInv
<1>2. thread'[t] = to /\ \A u \in Threads : u # t => thread'[u] = thread[u]
    BY <1>1
<1>3. thread' = [u \in Threads |-> thread'[u]]
    BY <1>1
<1>4. \A u \in Threads : ThreadFits(u)'
    BY <1>1, <1>2 DEF ThreadFits
<1>5. VisitsTypeOK'
    <2>1. \A u \in Threads : thread'[u].step \in {"idle", "look", "write", "listed", "missing", "close"}
        BY <1>4 DEF ThreadFits
    <2> QED BY <1>1, <2>1 DEF VisitsTypeOK, tableVars
<1>6. NothingIsStale'
    <2>1. NothingIsStale /\ "events" \in Threads
        BY IdentityFacts DEF VisitsInv
    <2> QED BY <1>2, <2>1 DEF NothingIsStale, tableVars
<1> QED BY <1>3, <1>4, <1>5, <1>6, TablesRest DEF VisitsInv, TypeInv

\* Observations of what the game says are well formed.
LEMMA ObservationFacts ==
    ASSUME VisitsTypeOK
    PROVE  /\ \A x \in Xuids, c \in BOOLEAN : LineOf(x, c) \in Observations
           /\ \A q \in Seq(Observations) :
                 /\ \A o \in Observations : Append(q, o) \in Seq(Observations)
                 /\ q # <<>> => Head(q) \in Observations /\ Tail(q) \in Seq(Observations)
           /\ <<>> \in Seq(Observations)
<1>1. \A x \in Xuids, c \in BOOLEAN : LineOf(x, c) \in Observations
    BY DEF VisitsTypeOK, LineOf, Observations
<1> QED BY <1>1

\* Joins, leaves, renames and a broken stream touch the game only.
LEMMA GameStep ==
    ASSUME VisitsInv,
           StreamBreaks \/ \E x \in Xuids : Join(x) \/ Leave(x) \/ Rename(x)
    PROVE  VisitsInv'
<1>0. VisitsTypeOK
    BY DEF VisitsInv, TypeInv
<1>1. UNCHANGED <<known, tableVars, thread, refreshVars, overlap, merged>>
    BY DEF StreamBreaks, Join, Leave, Rename
<1> DEFINE GameTypes == present \subseteq Xuids /\ lines \in Seq(Observations) /\ gamertag \in [Xuids -> Names]
<1>2. GameTypes'
    <2>1. CASE StreamBreaks
        BY <1>0, <2>1, ObservationFacts DEF StreamBreaks, VisitsTypeOK
    <2>2. ASSUME NEW x \in Xuids, Join(x) PROVE GameTypes'
        <3>1. lines \in Seq(Observations) /\ LineOf(x, TRUE) \in Observations
            BY <1>0, ObservationFacts DEF VisitsTypeOK
        <3> QED BY <1>0, <2>2, <3>1, ObservationFacts DEF Join, VisitsTypeOK
    <2>3. ASSUME NEW x \in Xuids, Leave(x) PROVE GameTypes'
        <3>1. lines \in Seq(Observations) /\ LineOf(x, FALSE) \in Observations
            BY <1>0, ObservationFacts DEF VisitsTypeOK
        <3> QED BY <1>0, <2>3, <3>1, ObservationFacts DEF Leave, VisitsTypeOK
    <2>4. ASSUME NEW x \in Xuids, Rename(x) PROVE GameTypes'
        BY <1>0, <2>4 DEF Rename, VisitsTypeOK
    <2> QED BY <2>1, <2>2, <2>3, <2>4
<1>3. VisitsTypeOK'
    BY <1>0, <1>1, <1>2 DEF VisitsTypeOK, tableVars, refreshVars
<1> QED BY <1>1, <1>3, ThreadsRest

\* An observation remembers the presence it saw.
LEMMA LookKeepsInvariant ==
    ASSUME VisitsInv, NEW t \in {"log", "refresh"}, Look(t)
    PROVE  VisitsInv'
<1> DEFINE o == thread[t].what
<1>0. /\ VisitsTypeOK /\ t \in Threads /\ thread[t].step = "look"
      /\ o \in Observations /\ thread[t].next \in Nexts
      /\ thread = [u \in Threads |-> thread[u]]
      /\ \A u \in Threads : ThreadFits(u)
    BY IdentityFacts DEF Look, VisitsInv, TypeInv, ThreadFits
<1>1. PICK i \in IF o.xuid = Unknown THEN Named(o.name) ELSE {o.xuid} :
        thread' = [thread EXCEPT ![t] =
            [step |-> "write", next |-> thread[t].next, what |-> o, identity |-> i,
             merge |-> Temporary(o), was |-> profile[i] = "online"]]
    BY DEF Look
<1>2. /\ overlap' = (overlap \/ \E u \in Threads \ {t} : thread[u].step \in {"write", "close"})
      /\ UNCHANGED <<gameVars, known, tableVars, refreshVars, merged>>
    BY DEF Look
<1>3. o.name \in Names /\ o.xuid \in Xuids \cup {Unknown}
    BY <1>0 DEF Observations
<1>4. i \in Identities /\ (o.xuid # Unknown => i \in Xuids)
    BY <1>1, <1>3, IdentityFacts DEF Named
<1>5. Temporary(o) \in Names \cup {Unknown} /\ (Temporary(o) # Unknown => o.xuid # Unknown)
    BY <1>3 DEF Temporary
<1>6. /\ thread'[t] = [step |-> "write", next |-> thread[t].next, what |-> o, identity |-> i,
                       merge |-> Temporary(o), was |-> profile[i] = "online"]
      /\ \A u \in Threads : u # t => thread'[u] = thread[u]
      /\ thread' = [u \in Threads |-> thread'[u]]
    BY <1>0, <1>1
<1>7. /\ thread'[t].step = "write" /\ thread'[t].next = thread[t].next /\ thread'[t].what = o
      /\ thread'[t].identity = i /\ thread'[t].merge = Temporary(o)
      /\ thread'[t].was = (profile[i] = "online")
    BY <1>6
<1>8. \A u \in Threads : ThreadFits(u)'
    <2>1. ThreadFits(t)'
        <3>1. thread'[t].was \in BOOLEAN
            BY <1>7
        <3> QED BY <1>0, <1>4, <1>5, <1>7, <3>1 DEF ThreadFits
    <2>2. ASSUME NEW u \in Threads, u # t PROVE ThreadFits(u)'
        <3>1. thread'[u] = thread[u] /\ ThreadFits(u)
            BY <1>0, <1>6, <2>2
        <3> QED BY <3>1 DEF ThreadFits
    <2> QED BY <2>1, <2>2
<1>9. VisitsTypeOK'
    <2>1. \A u \in Threads : thread'[u].step \in {"idle", "look", "write", "listed", "missing", "close"}
        BY <1>8 DEF ThreadFits
    <2>2. {overlap', merged'} \subseteq BOOLEAN
        BY <1>0, <1>2 DEF VisitsTypeOK
    <2> QED BY <1>0, <1>2, <2>1, <2>2 DEF VisitsTypeOK, gameVars, tableVars, refreshVars
<1>10. NothingIsStale'
    <2>1. ASSUME ~ overlap' PROVE ~ overlap
        BY <1>2, <2>1
    <2>2. NothingIsStale /\ "events" \in Threads /\ "events" # t /\ profile' = profile
        BY <1>2, IdentityFacts DEF VisitsInv, tableVars
    <2> QED BY ZenonT(60), <1>6, <1>7, <2>1, <2>2 DEF NothingIsStale
<1> QED BY <1>2, <1>6, <1>8, <1>9, <1>10, TablesRest DEF VisitsInv, TypeInv

\* The thread of the log takes a line.
LEMMA ReadLineKeepsInvariant == VisitsInv /\ ReadLine => VisitsInv'
<1> SUFFICES ASSUME VisitsInv, ReadLine PROVE VisitsInv'
    OBVIOUS
<1>0. VisitsTypeOK /\ "log" \in Threads
    BY IdentityFacts DEF VisitsInv, TypeInv
<1>1. Head(lines) \in Observations /\ Tail(lines) \in Seq(Observations)
    BY <1>0, ObservationFacts DEF ReadLine, VisitsTypeOK
<1>2. known' \in [Names -> Xuids \cup {Unknown}]
    BY <1>0, <1>1 DEF ReadLine, VisitsTypeOK, Observations
<1> DEFINE to == Observe(Head(lines), "idle")
<1>3. /\ thread' = [thread EXCEPT !["log"] = to]
      /\ to.step = "look" /\ to.what \in Observations /\ to.next \in Nexts
    BY <1>1 DEF ReadLine, Observe, Nexts
<1>4. /\ UNCHANGED <<tableVars, overlap, merged, present, gamertag>>
      /\ lines' \in Seq(Observations) /\ todo' \in Seq(Observations) /\ confirmed' \subseteq Identities
    BY <1>0, <1>1 DEF ReadLine, VisitsTypeOK, refreshVars
<1> HIDE DEF to
<1> QED BY <1>0, <1>2, <1>3, <1>4, ThreadMoves

\* Sequences of a set of observations are sequences of observations.
LEMMA ListOfObservations ==
    ASSUME NEW S \in SUBSET Observations, IsFiniteSet(S)
    PROVE  SetToSeq(S) \in Seq(Observations)
BY ListFits

\* The refresh lists the players, takes one observation after the other, and
\* lists the profiles it has not confirmed.
LEMMA RefreshKeepsInvariant ==
    ASSUME VisitsInv, Refresh \/ RefreshNext \/ RefreshMissing \/ RefreshEnd
    PROVE  VisitsInv'
<1>0. VisitsTypeOK /\ NamesFit /\ "refresh" \in Threads /\ ThreadFits("refresh")
    BY IdentityFacts DEF VisitsInv, TypeInv
<1>1. CASE Refresh
    <2> DEFINE listed == {[name |-> gamertag[x], xuid |-> known[gamertag[x]], connected |-> TRUE] : x \in present}
    <2>1. listed \in SUBSET Observations
        <3>1. \A x \in present : gamertag[x] \in Names /\ known[gamertag[x]] \in Xuids \cup {Unknown}
            BY <1>0 DEF VisitsTypeOK
        <3>2. \A n \in Names, x \in Xuids \cup {Unknown} :
                [name |-> n, xuid |-> x, connected |-> TRUE] \in Observations
            BY DEF Observations
        <3> QED BY <3>1, <3>2
    <2>2. IsFiniteSet(present)
        BY <1>0, PlayersAssumption, FS_Subset DEF VisitsTypeOK
    <2>3. IsFiniteSet(listed)
        <3> DEFINE f == [x \in present |-> [name |-> gamertag[x], xuid |-> known[gamertag[x]], connected |-> TRUE]]
        <3>1. f \in Surjection(present, listed)
            BY DEF Surjection
        <3> QED BY <2>2, <3>1, FS_Surjection
    <2>4. todo' \in Seq(Observations)
        BY <1>1, <2>1, <2>3, ListOfObservations DEF Refresh
    <2> HIDE DEF listed
    <2>5. /\ thread' = [thread EXCEPT !["refresh"] = At("listed")] /\ At("listed").step = "listed"
          /\ UNCHANGED <<tableVars, overlap, merged, present, gamertag>>
          /\ lines' \in Seq(Observations) /\ known' \in [Names -> Xuids \cup {Unknown}]
          /\ confirmed' \subseteq Identities
        BY <1>0, <1>1 DEF Refresh, VisitsTypeOK, gameVars, At
    <2> QED BY <1>0, <2>4, <2>5, ThreadMoves
<1>2. CASE RefreshNext
    <2> DEFINE to == Observe(Head(todo), thread["refresh"].step)
    <2>1. Head(todo) \in Observations /\ Tail(todo) \in Seq(Observations)
        BY <1>0, <1>2, ObservationFacts DEF RefreshNext, VisitsTypeOK
    <2>2. /\ thread' = [thread EXCEPT !["refresh"] = to]
          /\ to.step = "look" /\ to.what \in Observations /\ to.next \in Nexts
        BY <1>2, <2>1 DEF RefreshNext, Observe, Nexts
    <2>3. /\ UNCHANGED <<tableVars, overlap, merged, present, gamertag>>
          /\ lines' \in Seq(Observations) /\ known' \in [Names -> Xuids \cup {Unknown}]
          /\ todo' \in Seq(Observations) /\ confirmed' \subseteq Identities
        BY <1>0, <1>2, <2>1 DEF RefreshNext, VisitsTypeOK, gameVars
    <2> HIDE DEF to
    <2> QED BY <1>0, <2>2, <2>3, ThreadMoves
<1>3. CASE RefreshMissing
    <2> DEFINE absent == {i \in Identities \ confirmed : profile[i] = "online"}
               missing == SetToSeq(absent)
    <2>1. IsFiniteSet(absent)
        <3>1. IsFiniteSet(Identities)
            BY PlayersAssumption, FS_Union DEF Identities
        <3> QED BY <3>1, FS_Subset
    <2>2. missing \in Seq(absent)
        BY <2>1, ListFits
    <2>3. \A i \in absent : current[i] \in Names
        BY <1>0 DEF NamesFit
    <2>4. todo' = [k \in DOMAIN missing |-> [name |-> current[missing[k]], xuid |-> Unknown, connected |-> FALSE]]
        BY <1>3 DEF RefreshMissing
    <2> HIDE DEF missing, absent
    <2>5. todo' \in Seq(Observations)
        <3>1. /\ Len(missing) \in Nat /\ DOMAIN missing = 1 .. Len(missing)
              /\ \A k \in 1 .. Len(missing) : missing[k] \in absent
            BY <2>2
        <3>2. \A k \in 1 .. Len(missing) :
                [name |-> current[missing[k]], xuid |-> Unknown, connected |-> FALSE] \in Observations
            BY <2>3, <3>1 DEF Observations
        <3>3. todo' \in [1 .. Len(missing) -> Observations]
            BY <2>4, <3>1, <3>2
        <3> QED BY <3>1, <3>3
    <2>6. /\ thread' = [thread EXCEPT !["refresh"] = At("missing")] /\ At("missing").step = "missing"
          /\ UNCHANGED <<tableVars, overlap, merged, present, gamertag>>
          /\ lines' \in Seq(Observations) /\ known' \in [Names -> Xuids \cup {Unknown}]
          /\ confirmed' \subseteq Identities
        BY <1>0, <1>3 DEF RefreshMissing, VisitsTypeOK, gameVars, At
    <2> QED BY <1>0, <2>5, <2>6, ThreadMoves
<1>4. CASE RefreshEnd
    <2>1. /\ thread' = [thread EXCEPT !["refresh"] = Idle] /\ Idle.step = "idle"
          /\ UNCHANGED <<tableVars, overlap, merged, present, gamertag>>
          /\ lines' \in Seq(Observations) /\ known' \in [Names -> Xuids \cup {Unknown}]
          /\ todo' \in Seq(Observations) /\ confirmed' \subseteq Identities
        BY <1>0, <1>4 DEF RefreshEnd, VisitsTypeOK, gameVars, Idle, At
    <2> QED BY <1>0, <2>1, ThreadMoves
<1> QED BY <1>1, <1>2, <1>3, <1>4

\* The event of the container's death remembers who was online.
LEMMA ContainerDiesKeepsInvariant == VisitsInv /\ ContainerDies => VisitsInv'
<1> SUFFICES ASSUME VisitsInv, ContainerDies PROVE VisitsInv'
    OBVIOUS
<1> DEFINE seen == {i \in Identities : profile[i] = "online"}
<1>0. /\ VisitsTypeOK /\ "events" \in Threads /\ thread = [u \in Threads |-> thread[u]]
      /\ \A u \in Threads : ThreadFits(u)
    BY IdentityFacts DEF VisitsInv, TypeInv
<1>1. /\ thread' = [thread EXCEPT !["events"] = [step |-> "close", online |-> seen]]
      /\ overlap' = (overlap \/ \E u \in Threads : thread[u].step = "write")
      /\ present' = {}
      /\ UNCHANGED <<gamertag, lines, known, tableVars, refreshVars, merged>>
    BY DEF ContainerDies
<1>2. /\ thread'["events"].step = "close" /\ thread'["events"].online = seen
      /\ \A u \in Threads : u # "events" => thread'[u] = thread[u]
      /\ thread' = [u \in Threads |-> thread'[u]]
    BY <1>0, <1>1
<1>3. \A u \in Threads : ThreadFits(u)'
    BY <1>0, <1>2 DEF ThreadFits
<1>4. VisitsTypeOK'
    <2>1. \A u \in Threads : thread'[u].step \in {"idle", "look", "write", "listed", "missing", "close"}
        BY <1>3 DEF ThreadFits
    <2>2. {overlap', merged'} \subseteq BOOLEAN
        BY <1>0, <1>1 DEF VisitsTypeOK
    <2> QED BY <1>0, <1>1, <2>1, <2>2 DEF VisitsTypeOK, tableVars, refreshVars
<1>5. NothingIsStale'
    BY <1>1, <1>2 DEF VisitsInv, NothingIsStale, tableVars
<1> QED BY <1>1, <1>2, <1>3, <1>4, <1>5, TablesRest DEF VisitsInv, TypeInv

\* The sessions of who was online end.
LEMMA CloseKeepsInvariant == VisitsInv /\ Close => VisitsInv'
<1> SUFFICES ASSUME VisitsInv, Close PROVE VisitsInv'
    OBVIOUS
<1> DEFINE online == thread["events"].online
<1>0. /\ VisitsTypeOK /\ "events" \in Threads /\ thread = [u \in Threads |-> thread[u]]
      /\ \A u \in Threads : ThreadFits(u)
      /\ EverySessionIsCounted /\ NamesFit /\ online \in SUBSET Identities
      /\ thread["events"].step = "close"
    BY IdentityFacts DEF VisitsInv, TypeInv, ThreadFits, Close
<1>1. /\ thread' = [thread EXCEPT !["events"] = Idle]
      /\ profile' = [i \in Identities |-> IF i \in online /\ profile[i] # "absent" THEN "offline" ELSE profile[i]]
      /\ overlap' = (overlap \/ \E u \in Threads : thread[u].step = "write")
      /\ UNCHANGED <<gameVars, known, current, aliases, calendar, refreshVars, merged>>
    BY DEF Close
<1>2. /\ open' \in [Identities -> Nat] /\ closed' \in [Identities -> Nat]
      /\ \A i \in Identities : calendar[i] = open'[i] + closed'[i]
      /\ \A i \in online : open[i] \in {0, 1} => open'[i] = 0
      /\ \A i \in Identities \ online : open'[i] = open[i]
    BY <1>0, CloseFits DEF Close
<1>3. /\ thread'["events"].step = "idle"
      /\ \A u \in Threads : u # "events" => thread'[u] = thread[u]
      /\ thread' = [u \in Threads |-> thread'[u]]
    BY <1>0, <1>1 DEF Idle, At
<1>4. \A u \in Threads : ThreadFits(u)'
    BY <1>0, <1>3 DEF ThreadFits
<1>5. VisitsTypeOK'
    <2>1. \A u \in Threads : thread'[u].step \in {"idle", "look", "write", "listed", "missing", "close"}
        BY <1>4 DEF ThreadFits
    <2>2. {overlap', merged'} \subseteq BOOLEAN
        BY <1>0, <1>1 DEF VisitsTypeOK
    <2>3. profile' \in [Identities -> {"absent", "offline", "online"}]
        BY <1>0, <1>1 DEF VisitsTypeOK
    <2> QED BY <1>0, <1>1, <1>2, <2>1, <2>2, <2>3 DEF VisitsTypeOK, gameVars, refreshVars
<1>6. NamesFit'
    BY <1>0, <1>1 DEF NamesFit
<1>7. EverySessionIsCounted'
    BY <1>1, <1>2 DEF EverySessionIsCounted
<1>8. ASSUME ~ overlap' PROVE \A u \in Threads : thread'[u].step \notin {"write", "close"}
    <2>1. \A u \in {"log", "refresh"} : thread[u].step # "close"
        BY <1>0, IdentityFacts DEF ThreadFits
    <2> QED BY <1>1, <1>3, <1>8, <2>1 DEF Threads
<1>9. NothingIsStale'
    BY <1>8, <1>0 DEF NothingIsStale
<1>10. SessionMatchesPresence'
    <2> SUFFICES ASSUME ~ overlap', ~ merged', NEW i \in Identities
                 PROVE  open'[i] = IF profile'[i] = "online" THEN 1 ELSE 0
        BY DEF SessionMatchesPresence
    <2>1. ~ overlap /\ ~ merged
        BY <1>1
    <2>2. open[i] = IF profile[i] = "online" THEN 1 ELSE 0
        BY <2>1 DEF VisitsInv, SessionMatchesPresence
    <2>3. online = {j \in Identities : profile[j] = "online"}
        BY <1>0, <2>1 DEF VisitsInv, NothingIsStale
    <2> QED BY <1>1, <1>2, <2>2, <2>3
<1> QED BY <1>3, <1>4, <1>5, <1>6, <1>7, <1>9, <1>10 DEF VisitsInv, TypeInv

-----------------------------------------------------------------------------
(* The theorems.                                                           *)

\* Nobody is known, and every thread is idle.
LEMMA InvariantInit == VisitsInit => VisitsInv
<1> SUFFICES ASSUME VisitsInit PROVE VisitsInv
    OBVIOUS
<1>1. \A t \in Threads : thread[t] = Idle
    BY DEF VisitsInit
<1>2. \A t \in Threads : ThreadFits(t)
    BY <1>1 DEF ThreadFits, Idle, At
<1>3. VisitsTypeOK
    <2>1. \A t \in Threads : thread[t].step \in {"idle", "look", "write", "listed", "missing", "close"}
        BY <1>2 DEF ThreadFits
    <2>2. <<>> \in Seq(Observations)
        OBVIOUS
    <2>3. open \in [Identities -> Nat] /\ closed = open /\ calendar = open
        BY DEF VisitsInit
    <2>4. {open, closed, calendar} \subseteq [Identities -> Nat] /\ {overlap, merged} \subseteq BOOLEAN
        BY <2>3 DEF VisitsInit
    <2>5. /\ known \in [Names -> Xuids \cup {Unknown}]
          /\ profile \in [Identities -> {"absent", "offline", "online"}]
          /\ current \in [Identities -> Names \cup {Unknown}]
          /\ aliases \in [Identities -> SUBSET Names]
        BY DEF VisitsInit
    <2>6. present \subseteq Xuids /\ gamertag \in [Xuids -> Names] /\ confirmed \subseteq Identities
        BY DEF VisitsInit
    <2>7. lines \in Seq(Observations) /\ todo \in Seq(Observations)
        BY <2>2 DEF VisitsInit
    <2> QED BY <2>1, <2>4, <2>5, <2>6, <2>7 DEF VisitsTypeOK
<1>4. thread = [t \in Threads |-> thread[t]]
    BY DEF VisitsInit
<1>5. NamesFit /\ EverySessionIsCounted /\ SessionMatchesPresence
    BY DEF VisitsInit, NamesFit, EverySessionIsCounted, SessionMatchesPresence
<1>6. NothingIsStale
    BY <1>1, IdentityFacts DEF NothingIsStale, Idle, At
<1> QED BY <1>2, <1>3, <1>4, <1>5, <1>6 DEF VisitsInv, TypeInv

\* Every step keeps the invariant.
LEMMA InvariantStep == VisitsInv /\ [VisitsNext]_visitVars => VisitsInv'
<1> SUFFICES ASSUME VisitsInv, [VisitsNext]_visitVars PROVE VisitsInv'
    OBVIOUS
<1>1. CASE UNCHANGED visitVars
    <2>1. UNCHANGED <<tableVars, thread, overlap, merged>> /\ UNCHANGED <<gameVars, known, refreshVars>>
        BY <1>1 DEF visitVars
    <2>2. VisitsTypeOK'
        BY <2>1 DEF VisitsInv, TypeInv, VisitsTypeOK, tableVars, gameVars, refreshVars
    <2> QED BY <2>1, <2>2, ThreadsRest
<1>2. CASE StreamBreaks \/ \E x \in Xuids : Join(x) \/ Leave(x) \/ Rename(x)
    BY <1>2, GameStep
<1>3. ASSUME NEW t \in {"log", "refresh"}, Look(t) \/ Write(t) PROVE VisitsInv'
    BY <1>3, LookKeepsInvariant, WriteKeepsInvariant
<1>4. CASE Refresh \/ RefreshNext \/ RefreshMissing \/ RefreshEnd
    BY <1>4, RefreshKeepsInvariant
<1> QED BY <1>1, <1>2, <1>3, <1>4, ReadLineKeepsInvariant, ContainerDiesKeepsInvariant,
           CloseKeepsInvariant DEF VisitsNext

\* The invariant holds in every state.
LEMMA Invariant == VisitsSpec => []VisitsInv
BY InvariantInit, InvariantStep, PTL DEF VisitsSpec

\* The tables hold what they may, and the lists of the refresh and of the log
\* are observations.
THEOREM VisitsTypeCorrect == VisitsSpec => []VisitsTypeOK
<1>1. VisitsInv => VisitsTypeOK
    BY DEF VisitsInv, TypeInv
<1> QED BY <1>1, Invariant, PTL

\* The calendar counts each session once under one identity, for every
\* interleaving of observations, renames, merges and deaths.
THEOREM SessionsAreCounted == VisitsSpec => []EverySessionIsCounted
<1>1. VisitsInv => EverySessionIsCounted
    BY DEF VisitsInv
<1> QED BY <1>1, Invariant, PTL

\* While no observations overlapped and no profiles were merged, a profile is
\* online exactly while one of its sessions is open.
THEOREM PresenceHasItsSession == VisitsSpec => []SessionMatchesPresence
<1>1. VisitsInv => SessionMatchesPresence
    BY DEF VisitsInv
<1> QED BY <1>1, Invariant, PTL
=============================================================================
