--------------------------- MODULE PlayerSessions ---------------------------
(***************************************************************************)
(* Profiles and sessions of players (players/service.py,                   *)
(* players/repository.py, players/sqlite.py).                              *)
(*                                                                         *)
(* Three threads write them: the one that follows the Bedrock log, the     *)
(* refresh that compares the profiles with the console's list, and the one *)
(* that hears of the container's death.  A connection of Python's sqlite3  *)
(* reads outside any transaction until it first writes, so each looks in   *)
(* one step and writes in another.  Times and durations are left out.      *)
(***************************************************************************)
EXTENDS Naturals, FiniteSets, Sequences, SequencesExt

CONSTANTS
    Xuids,       \* players; also their canonical identities
    Names,       \* gamertags; also the temporary identities
    Unknown,     \* no xuid, no name
    MaxJoins,    \* bound: connections
    MaxRenames,  \* bound: changes of gamertag
    MaxRefreshes,\* bound: refreshes
    MaxBreaks,   \* bound: breaks of the log stream
    MaxDeaths    \* bound: deaths of Bedrock

ASSUME PlayersAssumption ==
    /\ IsFiniteSet(Xuids) /\ IsFiniteSet(Names)
    /\ Xuids \cap Names = {} /\ Unknown \notin Xuids \cup Names
    /\ Cardinality(Names) >= Cardinality(Xuids)
    /\ \A bound \in {MaxJoins, MaxRenames, MaxRefreshes, MaxBreaks, MaxDeaths} : bound \in Nat

VARIABLES
    present,  \* players in the game
    gamertag, \* player |-> name
    lines,    \* unread lines: name, xuid, connected
    known,    \* known_players
    profile,  \* identity |-> "absent", "offline" or "online"
    current,  \* identity |-> current_name
    aliases,  \* identity |-> names
    open,     \* identity |-> sessions without an end
    closed,   \* identity |-> sessions with one
    calendar, \* identity |-> sessions counted in player_daily
    thread,   \* thread |-> what it is doing
    todo,     \* observations the refresh has still to make
    confirmed,\* online_identities of the refresh
    overlap,  \* an observation was made between the look and the write of another
    merged,   \* two profiles were merged
    joins, renames, refreshes, breaks, deaths

Identities == Xuids \cup Names
Threads == {"log", "refresh", "events"}
Observations == [name : Names, xuid : Xuids \cup {Unknown}, connected : BOOLEAN]

gameVars == <<present, gamertag, lines, joins, renames, breaks, deaths>>
tableVars == <<profile, current, aliases, open, closed, calendar>>
refreshVars == <<todo, confirmed, refreshes>>
visitVars == <<gameVars, known, tableVars, thread, refreshVars, overlap, merged>>

At(step) == [step |-> step]
Idle == At("idle")

VisitsTypeOK ==
    /\ present \subseteq Xuids /\ gamertag \in [Xuids -> Names]
    /\ lines \in Seq(Observations)
    /\ known \in [Names -> Xuids \cup {Unknown}]
    /\ profile \in [Identities -> {"absent", "offline", "online"}]
    /\ current \in [Identities -> Names \cup {Unknown}]
    /\ aliases \in [Identities -> SUBSET Names]
    /\ {open, closed, calendar} \subseteq [Identities -> Nat]
    /\ \A t \in Threads : thread[t].step \in {"idle", "look", "write", "listed", "missing", "close"}
    /\ todo \in Seq(Observations) /\ confirmed \subseteq Identities
    /\ {overlap, merged} \subseteq BOOLEAN

VisitsInit ==
    /\ present = {}
    /\ gamertag \in {g \in [Xuids -> Names] : \A x, y \in Xuids : g[x] = g[y] => x = y}
    /\ lines = <<>>
    /\ known = [n \in Names |-> Unknown]
    /\ profile = [i \in Identities |-> "absent"]
    /\ current = [i \in Identities |-> Unknown]
    /\ aliases = [i \in Identities |-> {}]
    /\ open = [i \in Identities |-> 0] /\ closed = open /\ calendar = open
    /\ thread = [t \in Threads |-> Idle]
    /\ todo = <<>> /\ confirmed = {}
    /\ overlap = FALSE /\ merged = FALSE
    /\ joins = 0 /\ renames = 0 /\ refreshes = 0 /\ breaks = 0 /\ deaths = 0

-----------------------------------------------------------------------------
(* The game and its log                                                    *)

LineOf(x, connected) == [name |-> gamertag[x], xuid |-> x, connected |-> connected]

Join(x) ==
    /\ x \notin present /\ joins < MaxJoins
    /\ joins' = joins + 1
    /\ present' = present \cup {x}
    /\ lines' = Append(lines, LineOf(x, TRUE))
    /\ UNCHANGED <<gamertag, renames, breaks, deaths, known, tableVars, thread, refreshVars, overlap, merged>>

Leave(x) ==
    /\ x \in present
    /\ present' = present \ {x}
    /\ lines' = Append(lines, LineOf(x, FALSE))
    /\ UNCHANGED <<gamertag, joins, renames, breaks, deaths, known, tableVars, thread, refreshVars, overlap, merged>>

\* a player takes a name nobody has
Rename(x) ==
    /\ x \notin present /\ renames < MaxRenames
    /\ renames' = renames + 1
    /\ \E n \in Names \ {gamertag[y] : y \in Xuids} : gamertag' = [gamertag EXCEPT ![x] = n]
    /\ UNCHANGED <<present, lines, joins, breaks, deaths, known, tableVars, thread, refreshVars, overlap, merged>>

\* the stream breaks: what was not read is lost
StreamBreaks ==
    /\ breaks < MaxBreaks /\ lines # <<>>
    /\ breaks' = breaks + 1
    /\ lines' = <<>>
    /\ UNCHANGED <<present, gamertag, joins, renames, deaths, known, tableVars, thread, refreshVars, overlap, merged>>

-----------------------------------------------------------------------------
(* observe_player                                                          *)

\* player_identity without an xuid: a profile that has or had the name
Named(name) ==
    LET matches == {i \in Identities : profile[i] # "absent" /\ (current[i] = name \/ name \in aliases[i])}
    IN  IF matches = {} THEN {name} ELSE matches

\* What one identity has goes to another
Moved(f, from, to) == [f EXCEPT ![to] = @ + f[from], ![from] = 0]

\* mutant: the days stay with the temporary identity
MergedDays_Kept(from, to) == calendar

\* _merge_daily_records
MergedDays(from, to) == Moved(calendar, from, to)

\* player_identity with an xuid renames the temporary profile, or merges it
\* into the player's own, whose presence stays as it was
Merge(from, to) ==
    IF from = to \/ profile[from] = "absent"
    THEN [profile |-> profile, aliases |-> aliases, open |-> open, closed |-> closed, calendar |-> calendar]
    ELSE [profile |-> [profile EXCEPT ![to] = IF @ = "absent" THEN profile[from] ELSE @, ![from] = "absent"],
          aliases |-> [aliases EXCEPT ![to] = @ \cup aliases[from], ![from] = {}],
          open |-> Moved(open, from, to),
          closed |-> Moved(closed, from, to),
          calendar |-> MergedDays(from, to)]

Temporary(o) == IF o.xuid = Unknown \/ profile[o.name] = "absent" THEN Unknown ELSE o.name

Look(t) ==
    /\ thread[t].step = "look"
    /\ LET o == thread[t].what
       IN  \E i \in IF o.xuid = Unknown THEN Named(o.name) ELSE {o.xuid} :
             thread' = [thread EXCEPT ![t] =
               [step |-> "write", next |-> thread[t].next, what |-> o, identity |-> i, merge |-> Temporary(o), was |-> profile[i] = "online"]]
    /\ overlap' = (overlap \/ \E u \in Threads \ {t} : thread[u].step \in {"write", "close"})
    /\ UNCHANGED <<gameVars, known, tableVars, refreshVars, merged>>

\* mutant: a disconnect leaves the session open
SessionsAfter_KeptOpen(opened, ended, i, connected, was) ==
    [open |-> IF connected /\ ~ was THEN [opened EXCEPT ![i] = @ + 1] ELSE opened, closed |-> ended]

\* A session begins with a presence and its last one ends with it
SessionsAfter(opened, ended, i, connected, was) ==
    LET ends == ~ connected /\ was /\ opened[i] > 0
    IN  [open |-> IF connected /\ ~ was THEN [opened EXCEPT ![i] = @ + 1]
                  ELSE IF ends THEN [opened EXCEPT ![i] = @ - 1] ELSE opened,
         closed |-> IF ends THEN [ended EXCEPT ![i] = @ + 1] ELSE ended]

\* The writing transaction.  One that merges reads the presence inside; one
\* whose rename meets a profile created since then raises and rolls back
Write(t) ==
    /\ thread[t].step = "write"
    /\ LET o == thread[t].what
           i == thread[t].identity
           m == IF thread[t].merge = Unknown THEN Merge(i, i) ELSE Merge(thread[t].merge, i)
           was == IF thread[t].merge = Unknown THEN thread[t].was ELSE m.profile[i] = "online"
           s == SessionsAfter(m.open, m.closed, i, o.connected, was)
       IN  /\ profile' = [m.profile EXCEPT ![i] = IF o.connected THEN "online" ELSE "offline"]
           /\ current' = [current EXCEPT ![i] = o.name]
           /\ aliases' = [m.aliases EXCEPT ![i] = @ \cup {o.name}]
           /\ open' = s.open /\ closed' = s.closed
           /\ calendar' = IF o.connected /\ ~ was THEN [m.calendar EXCEPT ![i] = @ + 1] ELSE m.calendar
           /\ merged' = (merged \/ (thread[t].merge # Unknown /\ profile[i] # "absent"))
           /\ confirmed' = IF t = "refresh" /\ o.connected THEN confirmed \cup {i} ELSE confirmed
    /\ thread' = [thread EXCEPT ![t] = At(thread[t].next)]
    /\ overlap' = (overlap \/ \E u \in Threads \ {t} : thread[u].step \in {"write", "close"})
    /\ UNCHANGED <<gameVars, known, todo, refreshes>>

-----------------------------------------------------------------------------
(* The threads                                                             *)

Observe(o, next) == [step |-> "look", next |-> next, what |-> o]

\* observe_presence: the xuid of the name is stored, then the player observed
ReadLine ==
    /\ thread["log"] = Idle /\ lines # <<>>
    /\ lines' = Tail(lines)
    /\ known' = [known EXCEPT ![Head(lines).name] = Head(lines).xuid]
    /\ thread' = [thread EXCEPT !["log"] = Observe(Head(lines), "idle")]
    /\ UNCHANGED <<present, gamertag, joins, renames, breaks, deaths, tableVars, refreshVars, overlap, merged>>

\* reconcile_online_players: the console's list, with the xuids known by name
Refresh ==
    /\ thread["refresh"] = Idle /\ refreshes < MaxRefreshes
    /\ refreshes' = refreshes + 1
    /\ todo' = SetToSeq({[name |-> gamertag[x], xuid |-> known[gamertag[x]], connected |-> TRUE] : x \in present})
    /\ confirmed' = {}
    /\ thread' = [thread EXCEPT !["refresh"] = At("listed")]
    /\ UNCHANGED <<gameVars, known, tableVars, overlap, merged>>

RefreshNext ==
    /\ thread["refresh"].step \in {"listed", "missing"} /\ todo # <<>>
    /\ todo' = Tail(todo)
    /\ thread' = [thread EXCEPT !["refresh"] = Observe(Head(todo), thread["refresh"].step)]
    /\ UNCHANGED <<gameVars, known, tableVars, confirmed, refreshes, overlap, merged>>

\* the profiles that are online and were not listed, by their names
RefreshMissing ==
    /\ thread["refresh"] = At("listed") /\ todo = <<>>
    /\ LET missing == SetToSeq({i \in Identities \ confirmed : profile[i] = "online"})
       IN  todo' = [k \in DOMAIN missing |->
                      [name |-> current[missing[k]], xuid |-> Unknown, connected |-> FALSE]]
    /\ thread' = [thread EXCEPT !["refresh"] = At("missing")]
    /\ UNCHANGED <<gameVars, known, tableVars, confirmed, refreshes, overlap, merged>>

RefreshEnd ==
    /\ thread["refresh"] = At("missing") /\ todo = <<>>
    /\ thread' = [thread EXCEPT !["refresh"] = Idle]
    /\ confirmed' = {}
    /\ UNCHANGED <<gameVars, known, tableVars, todo, refreshes, overlap, merged>>

\* Bedrock dies with everybody in it; the event comes to close_online_sessions
ContainerDies ==
    /\ thread["events"] = Idle /\ deaths < MaxDeaths
    /\ deaths' = deaths + 1
    /\ present' = {}
    /\ thread' = [thread EXCEPT !["events"] =
                    [step |-> "close", online |-> {i \in Identities : profile[i] = "online"}]]
    /\ overlap' = (overlap \/ \E u \in Threads : thread[u].step = "write")
    /\ UNCHANGED <<gamertag, lines, joins, renames, breaks, known, tableVars, refreshVars, merged>>

\* mutant: ends a session that has its end already
CloseSessions_Ended(online) ==
    /\ open' = [i \in Identities |-> IF i \in online THEN open[i] - 1 ELSE open[i]]
    /\ closed' = [i \in Identities |-> IF i \in online THEN closed[i] + 1 ELSE closed[i]]

CloseSessions(online) ==
    LET ended == {i \in online : open[i] > 0}
    IN  /\ open' = [i \in Identities |-> IF i \in ended THEN open[i] - 1 ELSE open[i]]
        /\ closed' = [i \in Identities |-> IF i \in ended THEN closed[i] + 1 ELSE closed[i]]

Close ==
    /\ thread["events"].step = "close"
    /\ CloseSessions(thread["events"].online)
    /\ profile' = [i \in Identities |->
                     IF i \in thread["events"].online /\ profile[i] # "absent" THEN "offline" ELSE profile[i]]
    /\ thread' = [thread EXCEPT !["events"] = Idle]
    /\ overlap' = (overlap \/ \E u \in Threads : thread[u].step = "write")
    /\ UNCHANGED <<gameVars, known, current, aliases, calendar, refreshVars, merged>>

VisitsNext ==
    \/ \E x \in Xuids : Join(x) \/ Leave(x) \/ Rename(x)
    \/ \E t \in {"log", "refresh"} : Look(t) \/ Write(t)
    \/ StreamBreaks \/ ReadLine
    \/ Refresh \/ RefreshNext \/ RefreshMissing \/ RefreshEnd
    \/ ContainerDies \/ Close

VisitsSpec == VisitsInit /\ [][VisitsNext]_visitVars

-----------------------------------------------------------------------------
(* Properties                                                              *)

\* The calendar counts every session row once, under the same identity: no
\* interleaving, rename or merge of profiles loses or doubles one
EverySessionIsCounted ==
    \A i \in Identities : calendar[i] = open[i] + closed[i]

\* A profile is online exactly while one session of it is open, unless two
\* observations overlapped or two profiles were merged
SessionMatchesPresence ==
    ~ overlap /\ ~ merged =>
        \A i \in Identities : open[i] = IF profile[i] = "online" THEN 1 ELSE 0

=============================================================================
