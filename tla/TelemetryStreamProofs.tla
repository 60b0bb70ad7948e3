------------------------ MODULE TelemetryStreamProofs ------------------------
(***************************************************************************)
(* Theorems about TelemetryStream, for any players and any number of       *)
(* changes, samples, snapshots, deaths and breaks of the stream.           *)
(*                                                                         *)
(* The counters the pack had at each number it published are a function    *)
(* the log determines; the invariant says that there is one (History), and *)
(* what the manager has is compared with it.                               *)
(***************************************************************************)
EXTENDS TelemetryStream, FiniteSetTheorems, SequenceTheorems, TLAPS

Counts == [Seen -> Nat]
Topics == Frames \cup {"blocks.changed", "player.gamemode.changed", "telemetry.started"}
Lines == [type : Topics, sequence : Nat, player : {<<>>} \cup {<<p>> : p \in Seen}, count : Nat]

-----------------------------------------------------------------------------
(* What the log is like.                                                   *)

\* A batch leads from the counters of one number to those of the next; a frame
\* shows those of its own number
LineFits(line, F) ==
    /\ line.type = "blocks.changed" =>
          \E p \in Seen : /\ line.player = <<p>>
                          /\ F[line.sequence] = [F[line.sequence - 1] EXCEPT ![p] = @ + line.count]
    /\ line.type = "snapshot.player" =>
          \E p \in Seen : line.player = <<p>> /\ line.count = F[line.sequence][p]
    /\ line.type \in {"telemetry.started", "snapshot.started", "snapshot.finished"} => line.player = <<>>

\* Numbers lie between low and high, and only frames have that of another line
Numbered(lines, low, high) ==
    /\ \A i \in 1 .. Len(lines) :
          /\ low <= lines[i].sequence /\ lines[i].sequence <= high
          /\ lines[i].type \notin Frames => low < lines[i].sequence
    /\ \A i, j \in 1 .. Len(lines) : i < j =>
          /\ lines[i].sequence <= lines[j].sequence
          /\ lines[j].type \notin Frames => lines[i].sequence < lines[j].sequence

\* Lines from j to k are of one snapshot's players
Run(lines, j, k) == \A m \in j .. k : lines[m].type = "snapshot.player"

\* A snapshot is in one piece and has everybody
Framed(lines) ==
    /\ \A i \in 1 .. Len(lines) : lines[i].type \in {"snapshot.player", "snapshot.finished"} =>
          /\ i > 1
          /\ lines[i - 1].type \in {"snapshot.started", "snapshot.player"}
          /\ lines[i - 1].sequence = lines[i].sequence
    /\ \A j, k \in 1 .. Len(lines) : j <= k /\ Run(lines, j, k) => lines[j].sequence = lines[k].sequence
    /\ \A i \in 1 .. Len(lines) : lines[i].type = "snapshot.finished" =>
          \A p \in Seen : \E j \in 1 .. (i - 1) : lines[j].player = <<p>> /\ Run(lines, j, i - 1)

Fits(lines, F, low, high) ==
    /\ lines \in Seq(Lines)
    /\ \A i \in 1 .. Len(lines) : LineFits(lines[i], F)
    /\ Numbered(lines, low, high)
    /\ Framed(lines)

\* What is queued is what the world has not saved; nobody changes more than
\* the bound
PackFits ==
    /\ pack \in States /\ saved \in States /\ queued \in [Seen -> 0 .. MaxBlocks]
    /\ saved.sequence = pack.sequence /\ pack.sequence > 0
    /\ \A p \in Seen : pack.blocks[p] = saved.blocks[p] + queued[p] /\ pack.blocks[p] <= blocksDone
    /\ blocksDone \in 0 .. MaxBlocks

LogFits(F) ==
    /\ F \in [Nat -> Counts]
    /\ Fits(log, F, 1, pack.sequence)
    /\ F[pack.sequence] = saved.blocks

-----------------------------------------------------------------------------
(* What the manager has.                                                   *)

Taken(i) == EventKey(i) \in received

\* The last line, in the order of the log, that was ingested
Furthest(f) == f \in 1 .. Len(log) /\ Taken(f) /\ \A j \in (f + 1) .. Len(log) : ~ Taken(j)

\* The players of the snapshot that is being ingested have its counters
Shown(f) == \A j \in 1 .. f : Run(log, j, f) => \A p \in Seen : log[j].player = <<p>> => mirror[p] = log[j].count

\* Nobody is about to read the inside of a snapshot he did not begin
ReadersFit ==
    /\ window \in [first : Nat, end : Nat]
    /\ sync \in {"wait", "ingest"} => window.first \in 1 .. (Len(log) + 1) /\ window.end \in 0 .. Len(log)
    /\ ~ cut => /\ ~ Inside(read + 1) /\ ~ Inside(opened + 1)
                /\ sync \in {"wait", "ingest"} => ~ Inside(window.first)

ReceivedFits == \A key \in received : \E i \in 1 .. Len(log) : key = EventKey(i)

\* A snapshot was asked for on this stream, and the request has begun
Asked == fresh /\ sync # "ask"

\* Health is earned: by a whole snapshot, and then by every line since
HealthFits(F) ==
    /\ due \/ fresh
    /\ Asked => health # "waiting"
    /\ last <= pack.sequence
    /\ ~ cut /\ ~ late => \A f \in 1 .. Len(log) : Furthest(f) => Shown(f)
    /\ Asked /\ health = "healthy" /\ ~ cut /\ ~ late =>
          /\ last # 0 /\ mirror = F[last]
          /\ \A f \in 1 .. Len(log) : Furthest(f) => log[f].type \notin {"snapshot.started", "snapshot.player"}

History(F) == LogFits(F) /\ HealthFits(F)

MirrorInv ==
    /\ TelemetryTypeOK /\ PackFits /\ ReceivedFits /\ ReadersFit
    /\ \E F \in [Nat -> Counts] : History(F)

-----------------------------------------------------------------------------
(* Lists and what is published from them.                                  *)

\* The list of a finite set has each member once
LEMMA SetListFits ==
    ASSUME NEW S, IsFiniteSet(S)
    PROVE  /\ SetToSeq(S) \in Seq(S) /\ Len(SetToSeq(S)) \in Nat
           /\ \A x \in S : \E i \in 1 .. Len(SetToSeq(S)) : SetToSeq(S)[i] = x
           /\ \A i \in 1 .. Len(SetToSeq(S)) : SetToSeq(S)[i] \in S
           /\ \A i, j \in 1 .. Len(SetToSeq(S)) : SetToSeq(S)[i] = SetToSeq(S)[j] => i = j
<1>1. Cardinality(S) \in Nat /\ ExistsBijection(1..Cardinality(S), S)
  BY FS_CardinalityType
<1>2. PICK f \in [1..Cardinality(S) -> S] : IsInjective(f) /\ \A x \in S : \E i \in 1..Cardinality(S) : f[i] = x
  BY <1>1 DEF ExistsBijection, Bijection, Injection, Surjection, IsInjective
<1>3. SetToSeq(S) \in [1..Cardinality(S) -> S] /\ IsInjective(SetToSeq(S))
  BY <1>2 DEF SetToSeq
<1>4. SetToSeq(S) \in Seq(S) /\ Len(SetToSeq(S)) = Cardinality(S)
  BY <1>1, <1>3
<1>5. \A i, j \in 1 .. Cardinality(S) : SetToSeq(S)[i] = SetToSeq(S)[j] => i = j
  BY <1>3 DEF IsInjective
<1>6. \A x \in S : \E i \in 1 .. Cardinality(S) : SetToSeq(S)[i] = x
  <2>1. SetToSeq(S) \in Injection(1..Cardinality(S), S)
    BY <1>3, <1>5 DEF Injection, IsInjective
  <2>2. IsFiniteSet(1..Cardinality(S)) /\ Cardinality(1..Cardinality(S)) = Cardinality(S)
    BY <1>1, FS_Interval
  <2>3. SetToSeq(S) \in Surjection(1..Cardinality(S), S)
    BY <2>1, <2>2, FS_Injection
  <2>. QED BY <2>3 DEF Surjection
<1>. QED BY <1>1, <1>3, <1>4, <1>5, <1>6

\* There is a line for each member of a list
LEMMA PublishFits ==
    ASSUME NEW type \in Topics, NEW n \in Nat, NEW what \in Seq(Seen), NEW counts \in [Seen -> Nat]
    PROVE  /\ Publish(type, n, what, counts) \in Seq(Lines)
           /\ Len(Publish(type, n, what, counts)) = Len(what) /\ Len(what) \in Nat
<1>1. Len(what) \in Nat /\ \A i \in 1 .. Len(what) : what[i] \in Seen
  OBVIOUS
<1>2. \A i \in 1 .. Len(what) : Line(type, n + i, <<what[i]>>, counts[what[i]]) \in Lines
  BY <1>1 DEF Line, Lines
<1>. DEFINE e(i) == Line(type, n + i, <<what[i]>>, counts[what[i]])
<1>3. [i \in 1 .. Len(what) |-> e(i)] \in Seq(Lines)
  <2>. HIDE DEF e
  <2>1. \A i \in 1 .. Len(what) : e(i) \in Lines
    BY <1>2 DEF e
  <2>. QED BY <1>1, <2>1, IsASeq
<1>. QED BY <1>1, <1>3 DEF Publish, Line

\* Changes, numbered one after the other
LEMMA DeltasFit ==
    ASSUME NEW type \in {"blocks.changed", "player.gamemode.changed"}, NEW n \in Nat, n > 0,
           NEW what \in Seq(Seen), NEW counts \in [Seen -> Nat], NEW F \in [Nat -> Counts],
           type = "blocks.changed" =>
             \A i \in 1 .. Len(what) : F[n + i] = [F[n + i - 1] EXCEPT ![what[i]] = @ + counts[what[i]]]
    PROVE  Fits(Publish(type, n, what, counts), F, n, n + Len(what))
<1>. DEFINE lines == Publish(type, n, what, counts)
<1>1. /\ lines \in Seq(Lines) /\ Len(lines) = Len(what) /\ Len(what) \in Nat
      /\ \A i \in 1 .. Len(what) :
           /\ what[i] \in Seen
           /\ lines[i].type = type /\ lines[i].sequence = n + i
           /\ lines[i].player = <<what[i]>> /\ lines[i].count = counts[what[i]]
  <2>1. type \in Topics
    BY DEF Topics
  <2>2. ASSUME NEW i \in 1 .. Len(what)
        PROVE  /\ what[i] \in Seen
               /\ lines[i].type = type /\ lines[i].sequence = n + i
               /\ lines[i].player = <<what[i]>> /\ lines[i].count = counts[what[i]]
    BY DEF Publish, Line
  <2>3. lines \in Seq(Lines)
    BY <2>1, PublishFits
  <2>4. Len(lines) = Len(what) /\ Len(what) \in Nat
    BY DEF Publish
  <2>. QED BY <2>2, <2>3, <2>4
<1>. HIDE DEF lines
<1>2. ASSUME NEW i \in 1 .. Len(lines) PROVE LineFits(lines[i], F)
  <2>1. /\ lines[i].type = type /\ lines[i].sequence = n + i /\ what[i] \in Seen
        /\ lines[i].player = <<what[i]>> /\ lines[i].count = counts[what[i]]
    BY <1>1
  <2>2. type = "blocks.changed" => F[n + i] = [F[n + i - 1] EXCEPT ![what[i]] = @ + counts[what[i]]]
    BY <1>1
  <2>3. CASE type = "blocks.changed"
    <3>1. n + i - 1 = lines[i].sequence - 1
      BY <1>1, <2>1
    <3>2. F[lines[i].sequence] = [F[lines[i].sequence - 1] EXCEPT ![what[i]] = @ + lines[i].count]
      BY <2>1, <2>2, <2>3, <3>1
    <3>. QED BY <2>1, <2>3, <3>2 DEF LineFits
  <2>4. CASE type = "player.gamemode.changed"
    BY <2>1, <2>4 DEF LineFits
  <2>. QED BY <2>3, <2>4
<1>3. Numbered(lines, n, n + Len(what))
  BY <1>1 DEF Numbered
<1>4. Framed(lines)
  <2>1. \A i \in 1 .. Len(lines) : lines[i].type \notin {"snapshot.player", "snapshot.finished"}
    BY <1>1
  <2>2. ASSUME NEW j \in 1 .. Len(lines), NEW k \in 1 .. Len(lines), j <= k PROVE ~ Run(lines, j, k)
    BY <1>1, <2>1, <2>2 DEF Run
  <2>. QED BY <2>1, <2>2 DEF Framed
<1>. QED BY <1>1, <1>2, <1>3, <1>4 DEF Fits, lines

\* The line of a pack that starts
LEMMA StartedFits ==
    ASSUME NEW n \in Nat, NEW F
    PROVE  Fits(<<Line("telemetry.started", n + 1, <<>>, 0)>>, F, n, n + 1)
<1>. DEFINE line == Line("telemetry.started", n + 1, <<>>, 0)
            lines == <<line>>
<1>1. line \in Lines /\ line.type = "telemetry.started" /\ line.sequence = n + 1 /\ line.player = <<>>
  BY DEF Line, Lines, Topics
<1>2. lines \in Seq(Lines) /\ Len(lines) = 1 /\ \A i \in 1 .. 1 : lines[i] = line
  BY <1>1
<1>. HIDE DEF lines, line
<1>3. \A i \in 1 .. Len(lines) : LineFits(lines[i], F)
  BY <1>1, <1>2 DEF LineFits
<1>4. Numbered(lines, n, n + 1)
  <2>1. \A i \in 1 .. Len(lines) : i = 1 /\ lines[i].sequence = n + 1
    BY <1>1, <1>2
  <2>. QED BY <2>1 DEF Numbered
<1>5. Framed(lines)
  <2>1. \A i \in 1 .. Len(lines) : i = 1 /\ lines[i].type = "telemetry.started"
    BY <1>1, <1>2
  <2>. QED BY <2>1 DEF Framed, Run
<1>. QED BY <1>2, <1>3, <1>4, <1>5 DEF Fits, lines, line

\* A snapshot shows the counters of its number, everybody's, in one piece
LEMMA SnapshotFits ==
    ASSUME NEW state, state.sequence \in Nat, state.blocks \in Counts,
           NEW F \in [Nat -> Counts], F[state.sequence] = state.blocks
    PROVE  Fits(Snapshot(state), F, state.sequence, state.sequence)
<1>. DEFINE n == state.sequence
            who == SetToSeq(Seen)
            N == Len(who)
            lines == Snapshot(state)
            first == Line("snapshot.started", n, <<>>, 0)
            line(i) == Line("snapshot.player", n, <<who[i]>>, state.blocks[who[i]])
            middle == [i \in 1 .. N |-> line(i)]
            final == Line("snapshot.finished", n, <<>>, 0)
<1>1. /\ who \in Seq(Seen) /\ N \in Nat
      /\ \A p \in Seen : \E i \in 1 .. N : who[i] = p
      /\ \A i \in 1 .. N : who[i] \in Seen
  BY SetListFits, SeenAssumption
<1>2. first \in Lines /\ final \in Lines /\ \A i \in 1 .. N : line(i) \in Lines
  BY <1>1 DEF Line, Lines, Topics, Frames, Counts
<1>3. middle \in Seq(Lines) /\ Len(middle) = N /\ \A i \in 1 .. N : middle[i] = line(i)
  <2>1. middle \in Seq(Lines)
    <3>. HIDE DEF line
    <3>. QED BY <1>1, <1>2, IsASeq
  <2>. QED BY <1>1, <2>1
<1>4. lines = <<first>> \o middle \o <<final>>
  BY DEF Snapshot
<1>5. /\ lines \in Seq(Lines) /\ Len(lines) = N + 2
      /\ lines[1] = first /\ lines[N + 2] = final
      /\ \A i \in 2 .. (N + 1) : lines[i] = line(i - 1)
  <2>. HIDE DEF first, final, middle, line, lines
  <2>1. <<first>> \in Seq(Lines) /\ Len(<<first>>) = 1 /\ <<first>>[1] = first
        /\ <<final>> \in Seq(Lines) /\ Len(<<final>>) = 1 /\ <<final>>[1] = final
    BY <1>2
  <2>2. /\ <<first>> \o middle \in Seq(Lines) /\ Len(<<first>> \o middle) = 1 + N
        /\ \A i \in 1 .. (1 + N) : (<<first>> \o middle)[i] = IF i <= 1 THEN <<first>>[i] ELSE middle[i - 1]
    BY <1>3, <2>1, ConcatProperties
  <2>3. /\ lines \in Seq(Lines) /\ Len(lines) = 1 + N + 1
        /\ \A i \in 1 .. (1 + N + 1) : lines[i] = IF i <= 1 + N THEN (<<first>> \o middle)[i] ELSE <<final>>[i - (1 + N)]
    BY <1>4, <2>1, <2>2, ConcatProperties
  <2>4. lines[1] = first /\ lines[N + 2] = final
    BY SMTT(30), <1>1, <2>1, <2>2, <2>3
  <2>5. ASSUME NEW i \in 2 .. (N + 1) PROVE lines[i] = line(i - 1)
    <3>1. i \in 1 .. (1 + N + 1) /\ i <= 1 + N /\ i \in 1 .. (1 + N) /\ ~ (i <= 1) /\ i - 1 \in 1 .. N
      BY <1>1
    <3>2. lines[i] = (<<first>> \o middle)[i]
      BY <2>3, <3>1
    <3>3. (<<first>> \o middle)[i] = middle[i - 1]
      BY <2>2, <3>1
    <3>. QED BY <1>3, <3>1, <3>2, <3>3
  <2>. QED BY <1>1, <2>3, <2>4, <2>5
<1>6. /\ first.type = "snapshot.started" /\ first.sequence = n /\ first.player = <<>>
      /\ final.type = "snapshot.finished" /\ final.sequence = n /\ final.player = <<>>
      /\ \A i \in 1 .. N : /\ line(i).type = "snapshot.player" /\ line(i).sequence = n
                           /\ line(i).player = <<who[i]>> /\ line(i).count = F[n][who[i]]
  BY DEF Line
<1>7. /\ \A i \in 2 .. (N + 1) :
            /\ lines[i].type = "snapshot.player" /\ lines[i].sequence = n
            /\ lines[i].player = <<who[i - 1]>> /\ lines[i].count = F[n][who[i - 1]] /\ who[i - 1] \in Seen
      /\ lines[1].type = "snapshot.started" /\ lines[1].sequence = n /\ lines[1].player = <<>>
      /\ lines[N + 2].type = "snapshot.finished" /\ lines[N + 2].sequence = n /\ lines[N + 2].player = <<>>
  <2>. HIDE DEF first, final, line, lines, n
  <2>1. ASSUME NEW i \in 2 .. (N + 1)
        PROVE  /\ lines[i].type = "snapshot.player" /\ lines[i].sequence = n
               /\ lines[i].player = <<who[i - 1]>> /\ lines[i].count = F[n][who[i - 1]] /\ who[i - 1] \in Seen
    <3>1. i - 1 \in 1 .. N
      BY <1>1
    <3>2. lines[i] = line(i - 1)
      BY <1>5
    <3>. QED BY <1>1, <1>6, <3>1, <3>2
  <2>2. lines[1] = first /\ lines[N + 2] = final
    BY <1>5
  <2>. QED BY <1>6, <2>1, <2>2
<1>8. \A i \in 1 .. Len(lines) : i = 1 \/ i = N + 2 \/ i \in 2 .. (N + 1)
  BY <1>1, <1>5
<1>. HIDE DEF lines, first, final, line, middle
<1>9. ASSUME NEW i \in 1 .. Len(lines) PROVE LineFits(lines[i], F) /\ lines[i].sequence = n /\ lines[i].type \in Frames
  BY <1>7, <1>8 DEF LineFits, Frames
<1>10. Numbered(lines, n, n)
  BY <1>9 DEF Numbered
<1>11. Framed(lines)
  <2>1. ASSUME NEW i \in 1 .. Len(lines), lines[i].type \in {"snapshot.player", "snapshot.finished"}
        PROVE  i > 1 /\ lines[i - 1].type \in {"snapshot.started", "snapshot.player"} /\ lines[i - 1].sequence = lines[i].sequence
    <3>1. i \in 2 .. (N + 2) /\ i - 1 \in 1 .. (N + 1)
      BY <1>1, <1>5, <1>7, <2>1
    <3>2. i - 1 = 1 \/ i - 1 \in 2 .. (N + 1)
      BY <1>1, <3>1
    <3>. QED BY <1>7, <1>9, <3>1, <3>2
  <2>2. ASSUME NEW i \in 1 .. Len(lines), lines[i].type = "snapshot.finished", NEW p \in Seen
        PROVE  \E j \in 1 .. (i - 1) : lines[j].player = <<p>> /\ Run(lines, j, i - 1)
    <3>1. i = N + 2
      BY <1>7, <1>8, <2>2
    <3>2. PICK k \in 1 .. N : who[k] = p
      BY <1>1
    <3>3. k + 1 \in 2 .. (N + 1) /\ k + 1 \in 1 .. (i - 1) /\ (k + 1) - 1 = k
      BY <1>1, <3>1
    <3>4. lines[k + 1].player = <<p>>
      BY <1>7, <3>2, <3>3
    <3>5. \A m \in (k + 1) .. (i - 1) : m \in 2 .. (N + 1)
      BY <1>1, <3>1
    <3>6. Run(lines, k + 1, i - 1)
      BY <1>7, <3>5 DEF Run
    <3>. QED BY <3>3, <3>4, <3>6
  <2>. QED BY <1>9, <2>1, <2>2 DEF Framed
<1>. QED BY <1>5, <1>9, <1>10, <1>11 DEF Fits, lines

\* Lines that fit stay so when the counters of later numbers are known
LEMMA FitsKept ==
    ASSUME NEW lines, NEW n \in Nat, NEW F \in [Nat -> Counts], NEW G \in [Nat -> Counts],
           Fits(lines, F, 1, n), \A k \in 0 .. n : G[k] = F[k]
    PROVE  Fits(lines, G, 1, n)
<1>. SUFFICES ASSUME NEW i \in 1 .. Len(lines) PROVE LineFits(lines[i], G)
  BY DEF Fits
<1>1. LineFits(lines[i], F) /\ lines[i].sequence \in 1 .. n
  <2>1. lines[i] \in Lines
    BY DEF Fits
  <2>. QED BY <2>1 DEF Fits, Numbered, Lines
<1>2. G[lines[i].sequence] = F[lines[i].sequence] /\ G[lines[i].sequence - 1] = F[lines[i].sequence - 1]
  BY <1>1
<1>. QED BY <1>1, <1>2 DEF LineFits

\* Lines that fit may be followed by lines that fit
LEMMA ConcatFits ==
    ASSUME NEW a, NEW b, NEW F, NEW low \in Nat, NEW mid \in Nat, NEW high \in Nat,
           low <= mid, mid <= high, Fits(a, F, low, mid), Fits(b, F, mid, high)
    PROVE  /\ Fits(a \o b, F, low, high)
           /\ Len(a \o b) = Len(a) + Len(b) /\ Len(a) \in Nat /\ Len(b) \in Nat
           /\ \A i \in 1 .. Len(a) : (a \o b)[i] = a[i]
           /\ \A i \in 1 .. Len(b) : (a \o b)[Len(a) + i] = b[i]
<1>. DEFINE c == a \o b
            A == Len(a)
            B == Len(b)
<1>1. a \in Seq(Lines) /\ b \in Seq(Lines) /\ A \in Nat /\ B \in Nat
  BY DEF Fits
<1>2. c \in Seq(Lines) /\ Len(c) = A + B
  BY <1>1, ConcatProperties
<1>3. /\ \A i \in 1 .. A : c[i] = a[i]
      /\ \A i \in 1 .. B : c[A + i] = b[i]
  <2>1. \A i \in 1 .. (A + B) : c[i] = IF i <= A THEN a[i] ELSE b[i - A]
    BY <1>1, ConcatProperties
  <2>. HIDE DEF c, A, B
  <2>2. \A i \in 1 .. A : i \in 1 .. (A + B) /\ i <= A
    BY <1>1
  <2>3. \A i \in 1 .. B : A + i \in 1 .. (A + B) /\ ~ (A + i <= A) /\ (A + i) - A = i
    BY <1>1
  <2>. QED BY <2>1, <2>2, <2>3
<1>4. \A i \in 1 .. Len(c) : i \in 1 .. A \/ (i > A /\ i - A \in 1 .. B /\ A + (i - A) = i)
  BY <1>1, <1>2
<1>5. /\ \A i \in 1 .. A : a[i] \in Lines /\ a[i].sequence \in Nat
      /\ \A i \in 1 .. B : b[i] \in Lines /\ b[i].sequence \in Nat
  <2>1. /\ \A i \in 1 .. A : a[i] \in Lines
        /\ \A i \in 1 .. B : b[i] \in Lines
    BY <1>1, ElementOfSeq
  <2>2. \A line \in Lines : line.sequence \in Nat
    BY DEF Lines
  <2>. QED BY <2>1, <2>2
<1>. HIDE DEF c, A, B
<1>6. ASSUME NEW i \in 1 .. Len(c), i > A
      PROVE  i - A \in 1 .. B /\ c[i] = b[i - A]
  <2>1. i - A \in 1 .. B /\ A + (i - A) = i
    BY <1>1, <1>4, <1>6
  <2>. QED BY <1>3, <2>1
<1>7. \A i \in 1 .. Len(c) : LineFits(c[i], F)
  <2>1. /\ \A i \in 1 .. A : LineFits(a[i], F)
        /\ \A i \in 1 .. B : LineFits(b[i], F)
    BY DEF Fits, A, B
  <2>. QED BY <1>3, <1>4, <1>6, <2>1
<1>8. Numbered(c, low, high)
  <2>a. Numbered(a, low, mid) /\ Numbered(b, mid, high)
    BY DEF Fits
  <2>1. \A i \in 1 .. A : low <= a[i].sequence /\ a[i].sequence <= mid /\ (a[i].type \notin Frames => low < a[i].sequence)
    BY <2>a DEF Numbered, A
  <2>2. \A i \in 1 .. B : mid <= b[i].sequence /\ b[i].sequence <= high /\ (b[i].type \notin Frames => mid < b[i].sequence)
    BY <2>a DEF Numbered, B
  <2>3. ASSUME NEW i \in 1 .. Len(c)
        PROVE  /\ low <= c[i].sequence /\ c[i].sequence <= high
               /\ c[i].type \notin Frames => low < c[i].sequence
    <3>1. CASE i \in 1 .. A
      BY <1>3, <1>5, <2>1, <3>1
    <3>2. CASE i > A
      <4>1. i - A \in 1 .. B /\ c[i] = b[i - A]
        BY <1>6, <3>2
      <4>. QED BY <1>5, <2>2, <4>1
    <3>. QED BY <1>4, <3>1, <3>2
  <2>4. ASSUME NEW i \in 1 .. Len(c), NEW j \in 1 .. Len(c), i < j
        PROVE  /\ c[i].sequence <= c[j].sequence
               /\ c[j].type \notin Frames => c[i].sequence < c[j].sequence
    <3>1. CASE i \in 1 .. A /\ j \in 1 .. A
      BY <1>3, <2>a, <2>4, <3>1 DEF Numbered, A
    <3>2. CASE i \in 1 .. A /\ j > A
      <4>1. j - A \in 1 .. B /\ c[j] = b[j - A] /\ c[i] = a[i]
        BY <1>3, <1>6, <3>2
      <4>. QED BY SMTT(30), <1>5, <2>1, <2>2, <3>2, <4>1
    <3>3. CASE i > A /\ j > A
      <4>1. i - A \in 1 .. B /\ c[i] = b[i - A] /\ j - A \in 1 .. B /\ c[j] = b[j - A] /\ i - A < j - A
        BY <1>1, <1>6, <2>4, <3>3
      <4>. QED BY <2>a, <4>1 DEF Numbered, B
    <3>. QED BY <1>1, <1>4, <2>4, <3>1, <3>2, <3>3
  <2>. QED BY <2>3, <2>4 DEF Numbered
<1>9. Framed(c)
  <2>a. Framed(a) /\ Framed(b)
    BY DEF Fits
  <2>1. ASSUME NEW i \in 1 .. Len(c), c[i].type \in {"snapshot.player", "snapshot.finished"}
        PROVE  i > 1 /\ c[i - 1].type \in {"snapshot.started", "snapshot.player"} /\ c[i - 1].sequence = c[i].sequence
    <3>1. CASE i \in 1 .. A
      <4>1. i > 1 /\ a[i - 1].type \in {"snapshot.started", "snapshot.player"} /\ a[i - 1].sequence = a[i].sequence
        BY <1>3, <2>a, <2>1, <3>1 DEF Framed, A
      <4>2. i - 1 \in 1 .. A
        BY <1>1, <3>1, <4>1
      <4>. QED BY <1>3, <3>1, <4>1, <4>2
    <3>2. CASE i > A
      <4>1. i - A \in 1 .. B /\ c[i] = b[i - A]
        BY <1>6, <3>2
      <4>2. /\ i - A > 1 /\ b[i - A - 1].type \in {"snapshot.started", "snapshot.player"}
            /\ b[i - A - 1].sequence = b[i - A].sequence
        BY <2>a, <2>1, <4>1 DEF Framed, B
      <4>3. i - 1 \in 1 .. Len(c) /\ i - 1 > A /\ (i - 1) - A = i - A - 1
        BY <1>1, <1>2, <4>1, <4>2
      <4>4. c[i - 1] = b[i - A - 1]
        BY <1>6, <4>3
      <4>. QED BY <1>1, <4>1, <4>2, <4>4
    <3>. QED BY <1>4, <3>1, <3>2
  <2>2. ASSUME NEW j \in 1 .. Len(c), NEW k \in 1 .. Len(c), j <= k, Run(c, j, k)
        PROVE  c[j].sequence = c[k].sequence
    <3>1. CASE k \in 1 .. A
      <4>1. j \in 1 .. A /\ \A m \in j .. k : m \in 1 .. A
        BY <1>1, <2>2, <3>1
      <4>2. Run(a, j, k)
        BY <1>3, <2>2, <4>1 DEF Run
      <4>. QED BY <1>3, <2>a, <2>2, <3>1, <4>1, <4>2 DEF Framed, A
    <3>2. CASE j > A
      <4>1. k > A /\ j - A \in 1 .. B /\ k - A \in 1 .. B /\ j - A <= k - A /\ c[j] = b[j - A] /\ c[k] = b[k - A]
        BY SMTT(30), <1>1, <1>6, <2>2, <3>2
      <4>2. Run(b, j - A, k - A)
        <5>. SUFFICES ASSUME NEW m \in (j - A) .. (k - A) PROVE b[m].type = "snapshot.player"
          BY DEF Run
        <5>1. m \in 1 .. B /\ A + m \in j .. k
          BY <1>1, <4>1
        <5>. QED BY <1>3, <2>2, <5>1 DEF Run
      <4>. QED BY <2>a, <4>1, <4>2 DEF Framed, B
    <3>3. CASE j \in 1 .. A /\ k > A
      <4>1. A + 1 \in j .. k /\ 1 \in 1 .. B
        BY <1>1, <1>6, <3>3
      <4>2. b[1].type = "snapshot.player"
        BY <1>3, <2>2, <4>1 DEF Run
      <4>. QED BY <2>a, <4>1, <4>2 DEF Framed, B
    <3>. QED BY <1>1, <1>4, <3>1, <3>2, <3>3
  <2>3. ASSUME NEW i \in 1 .. Len(c), c[i].type = "snapshot.finished", NEW p \in Seen
        PROVE  \E j \in 1 .. (i - 1) : c[j].player = <<p>> /\ Run(c, j, i - 1)
    <3>1. CASE i \in 1 .. A
      <4>1. PICK j \in 1 .. (i - 1) : a[j].player = <<p>> /\ Run(a, j, i - 1)
        BY <1>3, <2>a, <2>3, <3>1 DEF Framed, A
      <4>2. j \in 1 .. A /\ \A m \in j .. (i - 1) : m \in 1 .. A
        BY <1>1, <3>1
      <4>. QED BY <1>3, <4>1, <4>2 DEF Run
    <3>2. CASE i > A
      <4>1. i - A \in 1 .. B /\ c[i] = b[i - A]
        BY <1>6, <3>2
      <4>2. PICK j \in 1 .. (i - A - 1) : b[j].player = <<p>> /\ Run(b, j, i - A - 1)
        BY <2>a, <2>3, <4>1 DEF Framed, B
      <4>3. A + j \in 1 .. (i - 1) /\ j \in 1 .. B
        BY <1>1, <4>1, <4>2
      <4>4. Run(c, A + j, i - 1)
        <5>. SUFFICES ASSUME NEW m \in (A + j) .. (i - 1) PROVE c[m].type = "snapshot.player"
          BY DEF Run
        <5>1. m > A /\ m \in 1 .. Len(c) /\ m - A \in j .. (i - A - 1)
          BY <1>1, <4>3
        <5>2. c[m] = b[m - A]
          BY <1>6, <5>1
        <5>. QED BY <4>2, <5>1, <5>2 DEF Run
      <4>5. c[A + j].player = <<p>>
        BY <1>3, <4>2, <4>3
      <4>. QED BY <4>3, <4>4, <4>5
    <3>. QED BY <1>4, <3>1, <3>2
  <2>. QED BY <2>1, <2>2, <2>3 DEF Framed
<1>. QED BY <1>1, <1>2, <1>3, <1>7, <1>8, <1>9 DEF Fits, c, A, B

-----------------------------------------------------------------------------
(* Keys.                                                                   *)

\* EventKey, of any list of lines
Key(lines, i) ==
    IF lines[i].type = "blocks.changed" THEN <<lines[i].sequence, lines[i].type, lines[i].player>> ELSE <<i>>

LEMMA KeyFacts ==
    /\ \A i : EventKey(i) = Key(log, i)
    /\ \A i : EventKey(i)' = Key(log', i)
BY DEF EventKey, Key

\* Two lines have two keys
LEMMA KeysDiffer ==
    ASSUME NEW lines, NEW F, NEW n \in Nat, Fits(lines, F, 1, n),
           NEW i \in 1 .. Len(lines), NEW j \in 1 .. Len(lines), Key(lines, i) = Key(lines, j)
    PROVE  i = j
<1>1. Len(lines) \in Nat /\ lines[i].sequence \in Nat /\ lines[j].sequence \in Nat
  <2>1. lines \in Seq(Lines) /\ Len(lines) \in Nat /\ lines[i] \in Lines /\ lines[j] \in Lines
    BY DEF Fits
  <2>. QED BY <2>1 DEF Lines
<1>2. CASE lines[i].type = "blocks.changed" /\ lines[j].type = "blocks.changed"
  <2>1. lines[i].sequence = lines[j].sequence
    BY <1>2 DEF Key
  <2>2. ~ (i < j) /\ ~ (j < i)
    BY <1>1, <1>2, <2>1 DEF Fits, Numbered, Frames
  <2>. QED BY <1>1, <2>2
<1>3. CASE lines[i].type # "blocks.changed" /\ lines[j].type # "blocks.changed"
  BY <1>3 DEF Key
<1>4. CASE lines[i].type = "blocks.changed" /\ lines[j].type # "blocks.changed"
  BY <1>4 DEF Key
<1>5. CASE lines[i].type # "blocks.changed" /\ lines[j].type = "blocks.changed"
  BY <1>5 DEF Key
<1>. QED BY <1>2, <1>3, <1>4, <1>5

-----------------------------------------------------------------------------
(* What the pack writes.                                                   *)

\* The batches lead from the counters that were published to those the pack has
LEMMA BatchesLead ==
    ASSUME PackFits, NEW F \in [Nat -> Counts], LogFits(F), NEW n \in Nat, pack.sequence <= n
    PROVE  \E G \in [Nat -> Counts] :
              /\ \A k \in 0 .. pack.sequence : G[k] = F[k]
              /\ Fits(BlockLines(n), G, n, n + Len(BlockLines(n)))
              /\ Len(BlockLines(n)) \in Nat
              /\ G[n + Len(BlockLines(n))] = pack.blocks
<1>. DEFINE B == Len(Waiting)
            Partial(i) == [p \in Seen |-> saved.blocks[p] + (IF \E j \in 1 .. i : j <= B /\ Waiting[j] = p THEN queued[p] ELSE 0)]
            G == [k \in Nat |-> IF k <= pack.sequence THEN F[k] ELSE Partial(k - n)]
<1>1. /\ queued \in [Seen -> Nat] /\ saved.blocks \in Counts /\ pack.blocks \in Counts
      /\ pack.sequence \in Nat /\ pack.sequence > 0
      /\ \A p \in Seen : pack.blocks[p] = saved.blocks[p] + queued[p]
      /\ F[pack.sequence] = saved.blocks
  <2>1. MaxBlocks \in Nat
    BY TelemetryBoundsAssumption
  <2>. QED BY <2>1 DEF PackFits, States, Counts, LogFits
<1>2. /\ Waiting \in Seq(Seen) /\ B \in Nat
      /\ \A p \in Seen : queued[p] > 0 <=> \E i \in 1 .. B : Waiting[i] = p
      /\ \A i \in 1 .. B : Waiting[i] \in Seen
      /\ \A i, j \in 1 .. B : Waiting[i] = Waiting[j] => i = j
  <2>. DEFINE S == {p \in Seen : queued[p] > 0}
  <2>1. IsFiniteSet(S)
    BY SeenAssumption, FS_Subset
  <2>2. /\ Waiting \in Seq(S) /\ B \in Nat
        /\ \A x \in S : \E i \in 1 .. B : Waiting[i] = x
        /\ \A i \in 1 .. B : Waiting[i] \in S
        /\ \A i, j \in 1 .. B : Waiting[i] = Waiting[j] => i = j
    BY <2>1, SetListFits DEF Waiting
  <2>3. Waiting \in Seq(Seen)
    BY <2>2, SeqMonotonic
  <2>. QED BY <2>2, <2>3
<1>3. \A i \in Int : Partial(i) \in Counts
  <2>1. ASSUME NEW i \in Int, NEW p \in Seen
        PROVE  saved.blocks[p] + (IF \E j \in 1 .. i : j <= B /\ Waiting[j] = p THEN queued[p] ELSE 0) \in Nat
    <3>1. saved.blocks[p] \in Nat /\ queued[p] \in Nat
      BY <1>1 DEF Counts
    <3>2. CASE \E j \in 1 .. i : j <= B /\ Waiting[j] = p
      BY <3>1, <3>2
    <3>3. CASE ~ \E j \in 1 .. i : j <= B /\ Waiting[j] = p
      BY <3>1, <3>3
    <3>. QED BY <3>2, <3>3
  <2>. QED BY <2>1 DEF Counts
<1>4. G \in [Nat -> Counts]
  <2>. HIDE DEF Partial
  <2>. QED BY <1>1, <1>3
<1>5. \A k \in 0 .. pack.sequence : G[k] = F[k]
  BY <1>1
<1>6. \A i \in 0 .. B : G[n + i] = Partial(i)
  <2>1. Partial(0) = saved.blocks
    BY <1>1 DEF Counts
  <2>. HIDE DEF Partial
  <2>2. ASSUME NEW i \in 0 .. B PROVE G[n + i] = Partial(i)
    <3>1. CASE n + i <= pack.sequence
      <4>1. i = 0 /\ n = pack.sequence
        BY <1>1, <1>2, <3>1
      <4>. QED BY <1>1, <2>1, <4>1
    <3>2. CASE ~ (n + i <= pack.sequence)
      <4>1. n + i \in Nat /\ (n + i) - n = i
        BY <1>2
      <4>. QED BY <3>2, <4>1
    <3>. QED BY <3>1, <3>2
  <2>. QED BY <2>2
<1>7. ASSUME NEW i \in 1 .. B
      PROVE  Partial(i) = [Partial(i - 1) EXCEPT ![Waiting[i]] = @ + queued[Waiting[i]]]
  <2>1. \A p \in Seen : (\E j \in 1 .. i : j <= B /\ Waiting[j] = p) <=> (p = Waiting[i] \/ \E j \in 1 .. (i - 1) : j <= B /\ Waiting[j] = p)
    <3>1. \A j \in 1 .. i : j = i \/ j \in 1 .. (i - 1)
      BY <1>2
    <3>2. i <= B /\ i \in 1 .. i /\ \A j \in 1 .. (i - 1) : j \in 1 .. i
      BY <1>2
    <3>. QED BY <3>1, <3>2
  <2>2. ~ \E j \in 1 .. (i - 1) : j <= B /\ Waiting[j] = Waiting[i]
    <3>1. \A j \in 1 .. (i - 1) : j \in 1 .. B /\ j # i
      BY <1>2
    <3>. QED BY <1>2, <3>1
  <2>3. Waiting[i] \in Seen
    BY <1>2
  <2>4. ASSUME NEW p \in Seen
        PROVE  Partial(i)[p] = [Partial(i - 1) EXCEPT ![Waiting[i]] = @ + queued[Waiting[i]]][p]
    <3>1. CASE p = Waiting[i]
      <4>1. Partial(i)[p] = saved.blocks[p] + queued[p]
        BY <2>1, <3>1
      <4>2. Partial(i - 1)[p] = saved.blocks[p] + 0
        BY <2>2, <3>1
      <4>3. saved.blocks[p] \in Nat /\ queued[p] \in Nat
        BY <1>1 DEF Counts
      <4>. HIDE DEF Partial
      <4>4. Partial(i - 1) \in [Seen -> Nat]
        <5>1. i - 1 \in Int
          BY <1>2
        <5>2. Partial(i - 1) \in Counts
          BY <1>3, <5>1
        <5>. QED BY <5>2 DEF Counts
      <4>5. Partial(i)[p] = Partial(i - 1)[p] + queued[p]
        BY <4>1, <4>2, <4>3
      <4>. QED BY <3>1, <4>4, <4>5
    <3>2. CASE p # Waiting[i]
      BY <2>1, <2>3, <3>2
    <3>. QED BY <3>1, <3>2
  <2>. QED BY <2>3, <2>4
<1>8. Partial(B) = pack.blocks
  <2>1. ASSUME NEW p \in Seen PROVE Partial(B)[p] = pack.blocks[p]
    <3>1. (\E j \in 1 .. B : j <= B /\ Waiting[j] = p) <=> queued[p] > 0
      BY <1>2
    <3>2. queued[p] \in Nat /\ saved.blocks[p] \in Nat /\ pack.blocks[p] = saved.blocks[p] + queued[p]
      BY <1>1 DEF Counts
    <3>3. CASE queued[p] > 0
      BY <3>1, <3>2, <3>3
    <3>4. CASE queued[p] = 0
      BY <3>1, <3>2, <3>4
    <3>. QED BY <3>2, <3>3, <3>4
  <2>2. Partial(B) \in Counts
    BY <1>2, <1>3
  <2>. QED BY <1>1, <2>1, <2>2 DEF Counts
<1>. HIDE DEF Partial, G
<1>9. ASSUME NEW i \in 1 .. B
      PROVE  G[n + i] = [G[n + i - 1] EXCEPT ![Waiting[i]] = @ + queued[Waiting[i]]]
  <2>1. i \in 0 .. B /\ i - 1 \in 0 .. B /\ n + (i - 1) = n + i - 1
    BY <1>2
  <2>2. G[n + i] = Partial(i) /\ G[n + i - 1] = Partial(i - 1)
    BY <1>6, <2>1
  <2>. QED BY <1>7, <2>2
<1>10. Fits(BlockLines(n), G, n, n + B)
  <2>1. n > 0
    BY <1>1
  <2>. QED BY <1>1, <1>2, <1>4, <1>9, <2>1, DeltasFit DEF BlockLines
<1>11. Len(BlockLines(n)) = B
  BY <1>2 DEF BlockLines, Publish
<1>12. G[n + B] = pack.blocks
  BY <1>2, <1>6, <1>8
<1>. QED BY <1>2, <1>4, <1>5, <1>10, <1>11, <1>12

\* Whoever waits before a line that is no inside of a snapshot still does when
\* lines are added
LEMMA EmitFacts ==
    ASSUME PackFits, NEW F \in [Nat -> Counts], LogFits(F), ReceivedFits,
           NEW lines, NEW state \in States, NEW G \in [Nat -> Counts],
           Emit(lines, state), UNCHANGED received,
           \A k \in 0 .. pack.sequence : G[k] = F[k],
           pack.sequence <= state.sequence,
           Fits(lines, G, pack.sequence, state.sequence),
           G[state.sequence] = state.blocks
    PROVE  /\ LogFits(G)' /\ ReceivedFits'
           /\ Len(log) \in Nat /\ Len(log') \in Nat /\ Len(log) <= Len(log')
           /\ \A i \in 1 .. Len(log) : log'[i] = log[i] /\ (Taken(i)' <=> Taken(i))
           /\ \A i \in 1 .. Len(log') : i > Len(log) => ~ Taken(i)'
           /\ \A i \in 1 .. (Len(log) + 1) : ~ Inside(i) => ~ Inside(i)'
<1>1. /\ log' = log \o lines /\ pack' = state /\ saved' = state
      /\ pack.sequence \in Nat /\ state.sequence \in Nat /\ 1 <= pack.sequence
  BY DEF Emit, PackFits, States
<1>2. Fits(log, G, 1, pack.sequence)
  BY <1>1, FitsKept DEF LogFits
<1>3. /\ Fits(log', G, 1, state.sequence)
      /\ Len(log') = Len(log) + Len(lines) /\ Len(log) \in Nat /\ Len(lines) \in Nat
      /\ \A i \in 1 .. Len(log) : log'[i] = log[i]
      /\ \A i \in 1 .. Len(lines) : log'[Len(log) + i] = lines[i]
  <2>1. PICK n, m : n = pack.sequence /\ m = state.sequence
    OBVIOUS
  <2>2. n \in Nat /\ m \in Nat /\ 1 <= n /\ n <= m /\ Fits(log, G, 1, n) /\ Fits(lines, G, n, m)
    BY <1>1, <1>2, <2>1
  <2>3. Fits(log \o lines, G, 1, m)
    BY <2>2, ConcatFits
  <2>4. Len(log \o lines) = Len(log) + Len(lines) /\ Len(log) \in Nat /\ Len(lines) \in Nat
    BY <2>2, ConcatFits
  <2>5. \A i \in 1 .. Len(log) : (log \o lines)[i] = log[i]
    BY <2>2, ConcatFits
  <2>6. \A i \in 1 .. Len(lines) : (log \o lines)[Len(log) + i] = lines[i]
    BY <2>2, ConcatFits
  <2>. QED BY <1>1, <2>1, <2>3, <2>4, <2>5, <2>6
<1>4. LogFits(G)'
  BY <1>1, <1>3 DEF LogFits
<1>5. ASSUME NEW i \in 1 .. Len(log) PROVE i \in 1 .. Len(log') /\ EventKey(i)' = EventKey(i)
  <2>1. log'[i] = log[i] /\ i \in 1 .. Len(log')
    BY <1>3
  <2>. QED BY <2>1 DEF EventKey
<1>6. ReceivedFits'
  BY <1>5 DEF ReceivedFits
<1>7. ASSUME NEW i \in 1 .. Len(log'), i > Len(log) PROVE ~ Taken(i)'
  <2>1. SUFFICES ASSUME Taken(i)' PROVE FALSE
    OBVIOUS
  <2>2. PICK key : key = EventKey(i)' /\ key \in received
    BY <2>1 DEF Taken
  <2>3. PICK j \in 1 .. Len(log) : key = EventKey(j)
    BY <2>2 DEF ReceivedFits
  <2>4. j \in 1 .. Len(log') /\ Key(log', j) = Key(log', i)
    BY <1>5, <2>2, <2>3, KeyFacts
  <2>5. i = j
    BY <1>1, <1>3, <2>4, KeysDiffer
  <2>. QED BY <1>3, <1>7, <2>5
<1>8. ASSUME NEW i \in 1 .. (Len(log) + 1), Inside(i)' PROVE Inside(i)
  <2>1. i <= Len(log') /\ log'[i].type \in {"snapshot.player", "snapshot.finished"} /\ ~ Taken(i - 1)'
    BY <1>8 DEF Inside, Taken
  <2>2. i \in 1 .. Len(log') /\ i > 1
    BY <1>3, <2>1 DEF Fits, Framed
  <2>3. i <= Len(log)
    <3>1. CASE i = Len(log) + 1
      <4>1. 1 \in 1 .. Len(lines) /\ log'[i] = lines[1]
        BY <1>3, <2>2, <3>1
      <4>2. Framed(lines)
        BY DEF Fits
      <4>3. lines[1].type \notin {"snapshot.player", "snapshot.finished"}
        BY <4>1, <4>2 DEF Framed
      <4>. QED BY <2>1, <4>1, <4>3
    <3>. QED BY <1>3, <3>1
  <2>4. i - 1 \in 1 .. Len(log) /\ i \in 1 .. Len(log)
    BY <1>3, <2>2, <2>3
  <2>5. EventKey(i - 1)' = EventKey(i - 1) /\ log'[i] = log[i]
    BY <1>3, <1>5, <2>4
  <2>. QED BY <2>1, <2>3, <2>5 DEF Inside, Taken
<1>9. ASSUME NEW i \in 1 .. Len(log) PROVE Taken(i)' <=> Taken(i)
  BY <1>5 DEF Taken
<1>10. Len(log) <= Len(log')
  BY <1>3
<1>11. \A i \in 1 .. (Len(log) + 1) : ~ Inside(i) => ~ Inside(i)'
  BY <1>8
<1>12. \A i \in 1 .. Len(log') : i > Len(log) => ~ Taken(i)'
  BY <1>7
<1>13. Len(log) \in Nat /\ Len(log') \in Nat /\ \A i \in 1 .. Len(log) : log'[i] = log[i]
  BY <1>3
<1>. QED BY <1>4, <1>6, <1>9, <1>10, <1>11, <1>12, <1>13

\* The manager has what it had when the pack writes
LEMMA EmitKeeps ==
    ASSUME PackFits, TelemetryTypeOK, NEW F \in [Nat -> Counts], LogFits(F), HealthFits(F), ReceivedFits, ReadersFit,
           NEW lines, NEW state \in States, NEW G \in [Nat -> Counts],
           Emit(lines, state), UNCHANGED <<received, mirror, last, late, health, read, opened, due, cut, sync, window, fresh>>,
           \A k \in 0 .. pack.sequence : G[k] = F[k],
           pack.sequence <= state.sequence,
           Fits(lines, G, pack.sequence, state.sequence),
           G[state.sequence] = state.blocks
    PROVE  ReceivedFits' /\ ReadersFit' /\ History(G)'
<1>1. /\ LogFits(G)' /\ ReceivedFits'
      /\ Len(log) \in Nat /\ Len(log') \in Nat /\ Len(log) <= Len(log')
      /\ \A i \in 1 .. Len(log) : log'[i] = log[i] /\ (Taken(i)' <=> Taken(i))
      /\ \A i \in 1 .. Len(log') : i > Len(log) => ~ Taken(i)'
      /\ \A i \in 1 .. (Len(log) + 1) : ~ Inside(i) => ~ Inside(i)'
  BY EmitFacts
<1>2. ReadersFit'
  <2>1. read + 1 \in 1 .. (Len(log) + 1) /\ opened + 1 \in 1 .. (Len(log) + 1)
    BY <1>1 DEF TelemetryTypeOK
  <2>2. sync \in {"wait", "ingest"} => window'.first \in 1 .. (Len(log') + 1) /\ window'.end \in 0 .. Len(log')
    BY <1>1 DEF ReadersFit
  <2>3. ~ cut' => ~ Inside(read + 1)' /\ ~ Inside(opened + 1)'
    <3>. SUFFICES ASSUME ~ cut' PROVE ~ Inside(read + 1)' /\ ~ Inside(opened + 1)'
      OBVIOUS
    <3>1. \A i \in 1 .. (Len(log) + 1) : ~ Inside(i) => ~ Inside(i)'
      BY <1>1
    <3>2. ASSUME NEW i, i = read + 1 PROVE ~ Inside(i)'
      BY <2>1, <3>1, <3>2 DEF ReadersFit
    <3>3. ASSUME NEW i, i = opened + 1 PROVE ~ Inside(i)'
      BY <2>1, <3>1, <3>3 DEF ReadersFit
    <3>4. read' = read /\ opened' = opened
      OBVIOUS
    <3>. QED BY <3>2, <3>3, <3>4 DEF Inside, EventKey
  <2>4. ~ cut' /\ sync' \in {"wait", "ingest"} => ~ Inside(window.first)'
    <3>. SUFFICES ASSUME ~ cut', sync' \in {"wait", "ingest"} PROVE ~ Inside(window.first)'
      OBVIOUS
    <3>1. window.first \in 1 .. (Len(log) + 1) /\ ~ Inside(window.first)
      BY DEF ReadersFit
    <3>2. ASSUME NEW i, i = window.first PROVE ~ Inside(i)'
      BY <1>1, <3>1, <3>2
    <3>3. window' = window
      OBVIOUS
    <3>. QED BY <3>2, <3>3 DEF Inside, EventKey
  <2>. QED BY <2>2, <2>3, <2>4 DEF ReadersFit
<1>3. ASSUME NEW f \in 1 .. Len(log'), Furthest(f)' PROVE f \in 1 .. Len(log) /\ Furthest(f)
  <2>1. Taken(f)' /\ \A j \in (f + 1) .. Len(log') : ~ Taken(j)'
    BY <1>3 DEF Furthest, Taken, EventKey
  <2>2. f \in 1 .. Len(log)
    BY <1>1, <2>1
  <2>3. \A j \in (f + 1) .. Len(log) : j \in (f + 1) .. Len(log') /\ j \in 1 .. Len(log)
    BY <1>1, <2>2
  <2>. QED BY <1>1, <2>1, <2>2, <2>3 DEF Furthest
<1>4. ASSUME NEW f \in 1 .. Len(log), Shown(f) PROVE Shown(f)'
  <2>1. \A j \in 1 .. f : j \in 1 .. Len(log) /\ \A m \in j .. f : m \in 1 .. Len(log)
    BY <1>1
  <2>2. \A m \in 1 .. Len(log) : log'[m] = log[m]
    BY <1>1
  <2>. QED BY <1>4, <2>1, <2>2 DEF Shown, Run
<1>5. HealthFits(G)'
  <2>1. pack'.sequence = state.sequence /\ pack.sequence \in Nat /\ state.sequence \in Nat /\ last \in Nat /\ last <= pack.sequence
    BY DEF Emit, PackFits, States, TelemetryTypeOK, HealthFits
  <2>2. last' <= pack'.sequence /\ G[last] = F[last]
    BY <2>1
  <2>3. ~ cut' /\ ~ late' => \A f \in 1 .. Len(log') : Furthest(f)' => Shown(f)'
    BY <1>3, <1>4 DEF HealthFits
  <2>4. \A f \in 1 .. Len(log) : log'[f] = log[f]
    BY <1>1
  <2>5. Asked' = Asked
    BY DEF Asked
  <2>6. Asked' /\ health' = "healthy" /\ ~ cut' /\ ~ late' =>
          /\ last' # 0 /\ mirror' = G[last']
          /\ \A f \in 1 .. Len(log') : Furthest(f)' => log'[f].type \notin {"snapshot.started", "snapshot.player"}
    BY <1>3, <2>2, <2>4, <2>5 DEF HealthFits
  <2>. QED BY <2>2, <2>3, <2>5, <2>6 DEF HealthFits
<1>. QED BY <1>1, <1>2, <1>5 DEF History

-----------------------------------------------------------------------------
(* What an ingested line does.                                             *)

LogTyped == Len(log) \in Nat /\ \A i \in 1 .. Len(log) : log[i] \in Lines

LEMMA LogTypes ==
    ASSUME NEW F, LogFits(F) PROVE LogTyped
BY DEF LogFits, Fits, LogTyped

\* Who reads a line leaves no inside of a snapshot before himself
LEMMA ReadOn ==
    ASSUME NEW F, LogFits(F), NEW i \in 1 .. Len(log), Taken(i) \/ log[i].type \notin Frames
    PROVE  ~ Inside(i + 1)
<1>. SUFFICES ASSUME Inside(i + 1) PROVE FALSE
  OBVIOUS
<1>1. Len(log) \in Nat
  BY LogTypes DEF LogTyped
<1>2. i + 1 \in 1 .. Len(log) /\ (i + 1) - 1 = i
  BY <1>1 DEF Inside
<1>3. log[i].type \in Frames
  BY <1>2 DEF Inside, LogFits, Fits, Framed, Frames
<1>. QED BY <1>2, <1>3 DEF Inside, Taken

\* A line that is ingested in order is the furthest one; one of a snapshot's
\* frames follows the furthest one before
LEMMA AcceptFacts ==
    ASSUME NEW F \in [Nat -> Counts], LogFits(F), TelemetryTypeOK, NEW i \in 1 .. Len(log), ~ Taken(i), Accept(i), UNCHANGED log
    PROVE  /\ \A j \in 1 .. Len(log) : Taken(j)' <=> (Taken(j) \/ j = i)
           /\ ReceivedFits => ReceivedFits'
           /\ ~ late' => /\ ~ late
                         /\ \A j \in (i + 1) .. Len(log) : ~ Taken(j)
                         /\ \A f \in 1 .. Len(log) : Furthest(f)' => f = i
           /\ \A k : ~ Inside(k) => ~ Inside(k)'
<1>0. pack.sequence \in Nat /\ Fits(log, F, 1, pack.sequence) /\ Len(log) \in Nat
  BY LogTypes DEF LogFits, LogTyped, TelemetryTypeOK, States
<1>1. received' = received \cup {EventKey(i)} /\ \A j : EventKey(j)' = EventKey(j)
  BY DEF Accept, EventKey
<1>2. \A j \in 1 .. Len(log) : EventKey(j) = EventKey(i) => j = i
  <2>1. \A j : EventKey(j) = Key(log, j)
    BY KeyFacts
  <2>2. ASSUME NEW j \in 1 .. Len(log), EventKey(j) = EventKey(i) PROVE j = i
    <3>1. Key(log, j) = Key(log, i)
      BY <2>1, <2>2
    <3>. QED BY <1>0, <3>1, KeysDiffer
  <2>. QED BY <2>2
<1>3. \A j \in 1 .. Len(log) : Taken(j)' <=> (Taken(j) \/ j = i)
  BY <1>1, <1>2 DEF Taken
<1>4. ReceivedFits => ReceivedFits'
  BY <1>1 DEF ReceivedFits
<1>5. ASSUME ~ late'
      PROVE  /\ ~ late
             /\ \A j \in (i + 1) .. Len(log) : ~ Taken(j)
             /\ \A f \in 1 .. Len(log) : Furthest(f)' => f = i
  <2>1. ~ late /\ \A j \in (i + 1) .. Len(log) : ~ Taken(j)
    BY <1>5 DEF Accept, Taken, TelemetryTypeOK
  <2>2. ASSUME NEW f \in 1 .. Len(log), Furthest(f)' PROVE f = i
    <3>1. Taken(f)' /\ \A j \in (f + 1) .. Len(log) : ~ Taken(j)'
      BY <1>1, <2>2 DEF Furthest, Taken
    <3>2. Taken(i)'
      BY <1>3
    <3>3. ~ (i > f)
      BY <1>0, <3>1, <3>2
    <3>4. ~ (f > i)
      <4>. SUFFICES ASSUME f > i PROVE FALSE
        OBVIOUS
      <4>1. f \in (i + 1) .. Len(log)
        BY <1>0
      <4>2. ~ Taken(f) /\ f # i
        BY <1>0, <2>1, <4>1
      <4>. QED BY <1>3, <3>1, <4>2
    <3>. QED BY <1>0, <3>3, <3>4
  <2>. QED BY <2>1, <2>2
<1>6. \A k : ~ Inside(k) => ~ Inside(k)'
  BY <1>1 DEF Inside
<1>. QED BY <1>3, <1>4, <1>5, <1>6

\* What a line does to the counters of a player
LEMMA CountersFacts ==
    ASSUME NEW F \in [Nat -> Counts], LogFits(F), mirror \in Counts, NEW i \in 1 .. Len(log), InTopics(log[i])
    PROVE  /\ Counters(log[i]) \in Counts
           /\ log[i].type \in Topics /\ log[i].sequence \in Nat
           /\ log[i].type \in {"telemetry.started", "snapshot.started", "snapshot.finished"} => Counters(log[i]) = mirror
           /\ log[i].type = "snapshot.player" =>
                \A p \in Seen : Counters(log[i])[p] = IF log[i].player = <<p>> THEN log[i].count ELSE mirror[p]
           /\ log[i].type = "blocks.changed" /\ mirror = F[log[i].sequence - 1] => Counters(log[i]) = F[log[i].sequence]
<1>1. log[i] \in Lines /\ LineFits(log[i], F)
  BY LogTypes DEF LogTyped, LogFits, Fits
<1>2. log[i].count \in Nat /\ log[i].sequence \in Nat /\ log[i].type \in Topics
  BY <1>1 DEF Lines
<1>3. Counters(log[i]) \in Counts
  <2>1. ASSUME NEW p \in Seen PROVE mirror[p] + log[i].count \in Nat /\ mirror[p] \in Nat
    <3>1. mirror[p] \in Nat
      BY DEF Counts
    <3>. QED BY <1>2, <3>1
  <2>. QED BY <1>2, <2>1 DEF Counters, AddBatch, Counts
<1>4. CASE log[i].type \in {"telemetry.started", "snapshot.started", "snapshot.finished"}
  <2>1. log[i].player = <<>>
    BY <1>1, <1>4 DEF LineFits
  <2>2. \A p : <<>> # <<p>>
    OBVIOUS
  <2>3. Counters(log[i]) = [p \in Seen |-> mirror[p]]
    BY <2>1, <2>2 DEF Counters
  <2>. QED BY <1>2, <1>3, <1>4, <2>3 DEF Counts
<1>5. CASE log[i].type = "snapshot.player"
  BY <1>2, <1>3, <1>5 DEF Counters
<1>6. CASE log[i].type = "blocks.changed"
  <2>1. PICK p \in Seen : log[i].player = <<p>> /\ F[log[i].sequence] = [F[log[i].sequence - 1] EXCEPT ![p] = @ + log[i].count]
    BY <1>1, <1>6 DEF LineFits
  <2>2. ASSUME mirror = F[log[i].sequence - 1] PROVE Counters(log[i]) = F[log[i].sequence]
    <3>1. \A q \in Seen : log[i].player = <<q>> <=> q = p
      BY <2>1
    <3>2. Counters(log[i]) = [q \in Seen |-> IF q # p THEN mirror[q] ELSE mirror[q] + log[i].count]
      BY <1>6, <3>1 DEF Counters, AddBatch
    <3>3. [mirror EXCEPT ![p] = @ + log[i].count] = [q \in Seen |-> IF q # p THEN mirror[q] ELSE mirror[q] + log[i].count]
      BY DEF Counts
    <3>. QED BY <2>1, <2>2, <3>2, <3>3
  <2>. QED BY <1>2, <1>3, <1>6, <2>2
<1>7. log[i].type # "player.gamemode.changed"
  BY DEF InTopics
<1>. QED BY <1>2, <1>3, <1>4, <1>5, <1>6, <1>7 DEF Topics, Frames

\* The players of a snapshot have its counters as far as it was ingested
LEMMA AcceptShows ==
    ASSUME NEW F \in [Nat -> Counts], LogFits(F), HealthFits(F), TelemetryTypeOK,
           NEW i \in 1 .. Len(log), InTopics(log[i]), ~ Taken(i), Accept(i), UNCHANGED log,
           ~ cut, ~ late', ~ Inside(i)
    PROVE  /\ Shown(i)'
           /\ log[i].type \in {"snapshot.player", "snapshot.finished"} =>
                i - 1 \in 1 .. Len(log) /\ Furthest(i - 1) /\ Shown(i - 1)
<1>0. Len(log) \in Nat /\ mirror \in Counts /\ mirror' = Counters(log[i]) /\ Fits(log, F, 1, pack.sequence)
  BY LogTypes DEF LogTyped, LogFits, Accept, TelemetryTypeOK, Counts
<1>1. ~ late /\ \A j \in (i + 1) .. Len(log) : ~ Taken(j)
  BY AcceptFacts
<1>2. ASSUME log[i].type \in {"snapshot.player", "snapshot.finished"}
      PROVE  i - 1 \in 1 .. Len(log) /\ Furthest(i - 1) /\ Shown(i - 1)
  <2>1. i > 1
    BY <1>0, <1>2 DEF Fits, Framed
  <2>2. i - 1 \in 1 .. Len(log) /\ Taken(i - 1)
    BY <1>0, <1>2, <2>1 DEF Inside, Taken
  <2>3. \A j \in ((i - 1) + 1) .. Len(log) : j = i \/ j \in (i + 1) .. Len(log)
    BY <1>0
  <2>4. Furthest(i - 1)
    BY <1>1, <2>2, <2>3 DEF Furthest
  <2>. QED BY <1>1, <2>2, <2>4 DEF HealthFits
<1>3. Shown(i)'
  <2>. SUFFICES ASSUME NEW j \in 1 .. i, Run(log, j, i), NEW p \in Seen, log[j].player = <<p>>
                PROVE  mirror'[p] = log[j].count
    BY DEF Shown
  <2>1. log[i].type = "snapshot.player" /\ j \in 1 .. Len(log) /\ log[j].type = "snapshot.player"
    BY <1>0 DEF Run
  <2>2. \A q \in Seen : mirror'[q] = IF log[i].player = <<q>> THEN log[i].count ELSE mirror[q]
    BY <1>0, <2>1, CountersFacts
  <2>3. CASE log[i].player = <<p>>
    <3>1. log[j].sequence = log[i].sequence
      BY <1>0, <2>1 DEF Fits, Framed
    <3>2. LineFits(log[i], F) /\ LineFits(log[j], F)
      BY <1>0, <2>1 DEF Fits
    <3>3. log[j].count = F[log[j].sequence][p] /\ log[i].count = F[log[i].sequence][p]
      BY <2>1, <2>3, <3>2 DEF LineFits
    <3>. QED BY <2>2, <2>3, <3>1, <3>3
  <2>4. CASE log[i].player # <<p>>
    <3>1. j # i
      BY <2>4
    <3>2. j \in 1 .. (i - 1) /\ \A m \in j .. (i - 1) : m \in j .. i
      BY <1>0, <3>1
    <3>3. Run(log, j, i - 1)
      BY <3>2 DEF Run
    <3>4. mirror[p] = log[j].count
      BY <1>2, <2>1, <3>2, <3>3 DEF Shown
    <3>. QED BY <2>2, <2>4, <3>4
  <2>. QED BY <2>3, <2>4
<1>. QED BY <1>2, <1>3

\* Health that a line brings or leaves is earned
LEMMA AcceptHealth ==
    ASSUME NEW F \in [Nat -> Counts], LogFits(F), HealthFits(F), TelemetryTypeOK, PackFits,
           NEW i \in 1 .. Len(log), InTopics(log[i]), ~ Refused(i), Accept(i), UNCHANGED log,
           last' = log[i].sequence, health' = StatusAfter(log[i]),
           Asked, health' = "healthy", ~ cut, ~ late', ~ Inside(i)
    PROVE  /\ last' # 0 /\ mirror' = F[last']
           /\ log[i].type \notin {"snapshot.started", "snapshot.player"}
<1>1. /\ Len(log) \in Nat /\ mirror \in Counts /\ mirror' = Counters(log[i]) /\ Fits(log, F, 1, pack.sequence)
      /\ log[i] \in Lines /\ log[i].type \in Topics /\ log[i].sequence \in Nat /\ ~ Taken(i) /\ ~ Stale(log[i])
      /\ log[i].type # "player.gamemode.changed"
  BY LogTypes DEF LogTyped, LogFits, Accept, TelemetryTypeOK, Counts, Lines, Refused, Taken, InTopics
<1>2. log[i].sequence > 0
  BY <1>1 DEF Fits, Numbered
<1>3. ~ late /\ \A j \in (i + 1) .. Len(log) : ~ Taken(j)
  BY <1>1, AcceptFacts
<1>4. log[i].type \in {"snapshot.player", "snapshot.finished"} =>
        i - 1 \in 1 .. Len(log) /\ Furthest(i - 1) /\ Shown(i - 1)
  BY <1>1, AcceptShows
<1>5. log[i].type # "snapshot.started" /\ log[i].type # "telemetry.started"
  BY DEF StatusAfter, Gap, Frames
<1>6. CASE log[i].type = "snapshot.player"
  <2>1. health = "healthy"
    BY <1>6 DEF StatusAfter
  <2>2. log[i - 1].type \notin {"snapshot.started", "snapshot.player"}
    BY <1>3, <1>4, <1>6, <2>1 DEF HealthFits
  <2>3. log[i - 1].type \in {"snapshot.started", "snapshot.player"}
    BY <1>1, <1>6 DEF Fits, Framed
  <2>. QED BY <2>2, <2>3
<1>7. CASE log[i].type = "snapshot.finished"
  <2>1. mirror' = mirror
    BY <1>1, <1>7, CountersFacts DEF InTopics
  <2>2. ASSUME NEW p \in Seen PROVE mirror[p] = F[log[i].sequence][p]
    <3>1. PICK j \in 1 .. (i - 1) : log[j].player = <<p>> /\ Run(log, j, i - 1)
      BY <1>1, <1>7 DEF Fits, Framed
    <3>2. mirror[p] = log[j].count
      BY <1>4, <1>7, <3>1 DEF Shown
    <3>3. i - 1 \in 1 .. Len(log) /\ j \in 1 .. Len(log) /\ j <= i - 1
      BY <1>1, <1>4, <1>7, <3>1
    <3>4. log[j].sequence = log[i - 1].sequence /\ log[i - 1].sequence = log[i].sequence
      BY <1>1, <1>7, <3>1, <3>3 DEF Fits, Framed
    <3>5. log[j].type = "snapshot.player" /\ LineFits(log[j], F)
      BY <1>1, <3>1, <3>3 DEF Run, Fits
    <3>6. log[j].count = F[log[j].sequence][p]
      BY <3>1, <3>5 DEF LineFits
    <3>. QED BY <3>2, <3>4, <3>6
  <2>3. F[log[i].sequence] \in Counts
    BY <1>1
  <2>4. mirror = F[log[i].sequence]
    BY <1>1, <2>2, <2>3 DEF Counts
  <2>. QED BY <1>2, <1>7, <2>1, <2>4
<1>8. CASE log[i].type = "blocks.changed"
  <2>1. ~ Gap(log[i]) /\ health \notin {"syncing", "degraded"}
    BY <1>8 DEF StatusAfter
  <2>2. health = "healthy"
    BY <2>1 DEF TelemetryTypeOK, HealthFits
  <2>3. last # 0 /\ mirror = F[last] /\ last \in Nat
    BY <1>3, <2>2 DEF HealthFits, TelemetryTypeOK
  <2>4. ~ (log[i].sequence <= last) /\ ~ (log[i].sequence > last + 1)
    BY <1>1, <1>8, <2>1, <2>3 DEF Stale, Gap, PackReset, Frames
  <2>5. log[i].sequence - 1 = last
    BY <1>1, <2>3, <2>4
  <2>6. mirror' = F[log[i].sequence]
    BY <1>1, <1>8, <2>3, <2>5, CountersFacts
  <2>. QED BY <1>2, <1>8, <2>6
<1>. QED BY <1>1, <1>5, <1>6, <1>7, <1>8 DEF Topics, Frames

\* A line is ingested, or refused
LEMMA IngestKeeps ==
    ASSUME NEW F \in [Nat -> Counts], LogFits(F), HealthFits(F), ReceivedFits, TelemetryTypeOK, PackFits,
           NEW i \in 1 .. Len(log), InTopics(log[i]), ~ cut => ~ Inside(i), Ingest(i),
           UNCHANGED <<pack, saved, log, due, cut>>, due' \/ fresh', Asked' => Asked
    PROVE  /\ ReceivedFits' /\ History(F)'
           /\ mirror' \in Counts /\ last' \in Nat /\ {gaps', late'} \subseteq BOOLEAN
           /\ health' \in {"waiting", "syncing", "degraded", "healthy"}
           /\ \A k : ~ Inside(k) => ~ Inside(k)'
           /\ ~ Inside(i + 1)'
<1>1. LogFits(F)'
  BY DEF LogFits
<1>2. CASE Refused(i)
  <2>1. UNCHANGED <<mirror, received, last, gaps, late, health>>
    BY <1>2 DEF Ingest, mirrorVars
  <2>2. \A k : Inside(k)' <=> Inside(k)
    BY <2>1 DEF Inside, EventKey
  <2>3. ~ Inside(i + 1)
    BY <1>2, ReadOn DEF Refused, Stale, Taken
  <2>4. \A f : /\ Furthest(f)' <=> Furthest(f)
               /\ Shown(f)' <=> Shown(f)
    BY <2>1 DEF Furthest, Shown, Taken, EventKey, Run
  <2>5. HealthFits(F)'
    BY <2>1, <2>4 DEF HealthFits
  <2>6. ReceivedFits'
    BY <2>1 DEF ReceivedFits, EventKey
  <2>. QED BY <1>1, <2>1, <2>2, <2>3, <2>5, <2>6 DEF History, TelemetryTypeOK, Counts
<1>3. CASE ~ Refused(i)
  <2>1. /\ Accept(i) /\ ~ Taken(i) /\ last' = log[i].sequence /\ health' = StatusAfter(log[i])
        /\ gaps' = (gaps \/ Gap(log[i])) /\ mirror' = Counters(log[i])
    BY <1>3 DEF Ingest, Refused, Taken, Accept
  <2>2. /\ \A j \in 1 .. Len(log) : Taken(j)' <=> (Taken(j) \/ j = i)
        /\ ReceivedFits' /\ \A k : ~ Inside(k) => ~ Inside(k)'
        /\ ~ late' => /\ ~ late
                      /\ \A f \in 1 .. Len(log) : Furthest(f)' => f = i
    BY <2>1, AcceptFacts
  <2>3. mirror' \in Counts /\ last' \in Nat /\ log[i].type \in Topics
    BY <2>1, CountersFacts DEF TelemetryTypeOK, Counts
  <2>4. health' \in {"waiting", "syncing", "degraded", "healthy"} /\ {gaps', late'} \subseteq BOOLEAN
    BY <2>1 DEF StatusAfter, TelemetryTypeOK, Accept
  <2>5. ~ Inside(i + 1)'
    <3>. SUFFICES ASSUME Inside(i + 1)' PROVE FALSE
      OBVIOUS
    <3>1. Len(log) \in Nat
      BY LogTypes DEF LogTyped
    <3>2. ~ Taken((i + 1) - 1)' /\ (i + 1) - 1 = i
      BY <3>1 DEF Inside, Taken
    <3>3. ASSUME NEW k, k = (i + 1) - 1 PROVE ~ Taken(k)'
      BY <3>2, <3>3 DEF Taken, EventKey
    <3>. QED BY <2>2, <3>2, <3>3
  <2>6. HealthFits(F)'
    <3>1. due' \/ fresh'
      OBVIOUS
    <3>2. Asked' => health' # "waiting"
      <4>1. health # "waiting" => health' # "waiting"
        BY <2>1 DEF StatusAfter
      <4>. QED BY <4>1 DEF HealthFits
    <3>3. last' <= pack'.sequence
      BY <2>1 DEF LogFits, Fits, Numbered
    <3>4. ~ cut' /\ ~ late' => \A f \in 1 .. Len(log') : Furthest(f)' => Shown(f)'
      <4>. SUFFICES ASSUME ~ cut', ~ late', NEW f \in 1 .. Len(log), Furthest(f)' PROVE Shown(f)'
        OBVIOUS
      <4>1. f = i /\ Shown(i)'
        BY <2>1, <2>2, AcceptShows
      <4>. QED BY <4>1 DEF Shown, Run
    <3>5. Asked' /\ health' = "healthy" /\ ~ cut' /\ ~ late' =>
            /\ last' # 0 /\ mirror' = F[last']
            /\ \A f \in 1 .. Len(log') : Furthest(f)' => log'[f].type \notin {"snapshot.started", "snapshot.player"}
      <4>. SUFFICES ASSUME Asked', health' = "healthy", ~ cut', ~ late'
                    PROVE  /\ last' # 0 /\ mirror' = F[last']
                           /\ \A f \in 1 .. Len(log) : Furthest(f)' => log[f].type \notin {"snapshot.started", "snapshot.player"}
        OBVIOUS
      <4>1. Asked /\ ~ cut /\ ~ Inside(i)
        OBVIOUS
      <4>2. last' # 0 /\ mirror' = F[last'] /\ log[i].type \notin {"snapshot.started", "snapshot.player"}
        BY <1>3, <2>1, <4>1, AcceptHealth
      <4>. QED BY <2>2, <4>2
    <3>. QED BY <3>1, <3>2, <3>3, <3>4, <3>5 DEF HealthFits
  <2>. QED BY <1>1, <2>2, <2>3, <2>4, <2>5, <2>6 DEF History
<1>. QED BY <1>2, <1>3

-----------------------------------------------------------------------------
(* The pack's steps.                                                       *)

\* What the pack emits says what the world has
LEMMA EmitPack ==
    ASSUME TelemetryTypeOK, NEW lines, NEW state \in States, Emit(lines, state), PackFits,
           state.sequence > 0, \A p \in Seen : state.blocks[p] <= blocksDone, UNCHANGED blocksDone
    PROVE  PackFits'
<1>1. pack' = state /\ saved' = state /\ queued' = NoBlocks /\ MaxBlocks \in Nat
  BY TelemetryBoundsAssumption DEF Emit
<1>2. queued' \in [Seen -> 0 .. MaxBlocks] /\ \A p \in Seen : queued'[p] = 0
  BY <1>1 DEF NoBlocks
<1>3. ASSUME NEW p \in Seen PROVE state.blocks[p] = state.blocks[p] + 0
  <2>1. state.blocks[p] \in Nat
    BY <1>1 DEF States
  <2>. QED BY <2>1
<1>. QED BY <1>1, <1>2, <1>3 DEF PackFits

\* The manager keeps its types while the pack writes
LEMMA EmitTypes ==
    ASSUME TelemetryTypeOK, PackFits', Len(log) \in Nat, Len(log') \in Nat, Len(log) <= Len(log'),
           UNCHANGED <<read, opened, mirror, last, health, gaps, late, sync, due, fresh, cut>>,
           answered' \in BOOLEAN
    PROVE  TelemetryTypeOK'
BY DEF TelemetryTypeOK, PackFits

LEMMA PackKeeps ==
    ASSUME NEW F \in [Nat -> Counts], TelemetryTypeOK, PackFits, ReceivedFits, ReadersFit, History(F),
           NEW lines, NEW state \in States, NEW G \in [Nat -> Counts], Emit(lines, state),
           UNCHANGED <<received, mirror, last, late, gaps, health, read, opened, due, cut, sync, window, fresh, blocksDone>>,
           answered' \in BOOLEAN,
           \A p \in Seen : state.blocks[p] <= blocksDone,
           \A k \in 0 .. pack.sequence : G[k] = F[k],
           pack.sequence <= state.sequence,
           Fits(lines, G, pack.sequence, state.sequence),
           G[state.sequence] = state.blocks
    PROVE  MirrorInv'
<1>1. LogFits(F) /\ HealthFits(F)
  BY DEF History
<1>2. ReceivedFits' /\ ReadersFit' /\ History(G)'
  BY <1>1, EmitKeeps
<1>3. PackFits'
  <2>1. pack.sequence \in Nat /\ state.sequence \in Nat /\ state.sequence > 0
    BY DEF PackFits, States
  <2>. QED BY <2>1, EmitPack
<1>4. Len(log) \in Nat /\ Len(log') \in Nat /\ Len(log) <= Len(log')
  BY <1>1, EmitFacts
<1>5. TelemetryTypeOK'
  BY <1>3, <1>4, EmitTypes
<1>. QED BY <1>2, <1>3, <1>5 DEF MirrorInv

LEMMA ChangeBlockKeeps ==
    ASSUME MirrorInv, NEW q \in Seen, ChangeBlock(q) PROVE MirrorInv'
<1>0. PICK F \in [Nat -> Counts] : History(F)
  BY DEF MirrorInv
<1>1. /\ pack' = [pack EXCEPT !.blocks[q] = @ + 1] /\ queued' = [queued EXCEPT ![q] = @ + 1]
      /\ blocksDone' = blocksDone + 1 /\ blocksDone < MaxBlocks
      /\ UNCHANGED <<saved, log, streamVars, mirrorVars, health, syncVars>>
  BY DEF ChangeBlock
<1>2. MaxBlocks \in Nat /\ blocksDone \in Nat
  BY TelemetryBoundsAssumption DEF MirrorInv, PackFits
<1>3. /\ pack'.sequence = pack.sequence
      /\ pack'.blocks = [pack.blocks EXCEPT ![q] = @ + 1]
      /\ pack' = [sequence |-> pack'.sequence, blocks |-> pack'.blocks]
  BY <1>1 DEF MirrorInv, PackFits, States
<1>4. PackFits'
  <2>1. ASSUME NEW p \in Seen
        PROVE  /\ pack'.blocks[p] = saved.blocks[p] + queued'[p] /\ pack'.blocks[p] <= blocksDone'
               /\ pack'.blocks[p] \in 0 .. MaxBlocks /\ queued'[p] \in 0 .. MaxBlocks
    <3>1. /\ pack.blocks[p] \in Nat /\ saved.blocks[p] \in Nat /\ queued[p] \in Nat
          /\ pack.blocks[p] = saved.blocks[p] + queued[p] /\ pack.blocks[p] <= blocksDone
          /\ pack.blocks \in [Seen -> 0 .. MaxBlocks] /\ queued \in [Seen -> 0 .. MaxBlocks]
      BY <1>2 DEF MirrorInv, PackFits, States
    <3>2. CASE p = q
      <4>1. pack'.blocks[p] = pack.blocks[p] + 1 /\ queued'[p] = queued[p] + 1
        BY <1>1, <1>3, <3>1, <3>2
      <4>. QED BY <1>1, <1>2, <3>1, <4>1
    <3>3. CASE p # q
      <4>1. pack'.blocks[p] = pack.blocks[p] /\ queued'[p] = queued[p]
        BY <1>1, <1>3, <3>1, <3>3
      <4>. QED BY <1>1, <1>2, <3>1, <4>1
    <3>. QED BY <3>2, <3>3
  <2>2. pack'.blocks \in [Seen -> 0 .. MaxBlocks] /\ queued' \in [Seen -> 0 .. MaxBlocks]
    BY <1>1, <1>3, <2>1 DEF MirrorInv, PackFits, States
  <2>3. pack' \in States
    BY <1>3, <2>2 DEF MirrorInv, PackFits, States
  <2>. QED BY <1>1, <1>2, <1>3, <2>1, <2>2, <2>3 DEF MirrorInv, PackFits
<1>5. TelemetryTypeOK'
  BY <1>1, <1>4 DEF MirrorInv, TelemetryTypeOK, PackFits, streamVars, mirrorVars, syncVars
<1>6. ReceivedFits' /\ ReadersFit'
  BY <1>1 DEF MirrorInv, ReceivedFits, ReadersFit, Inside, EventKey, streamVars, mirrorVars, syncVars
<1>7. History(F)'
  <2>1. UNCHANGED <<saved, log, received, mirror, last, late, health, due, fresh, cut, sync>>
    BY <1>1 DEF streamVars, mirrorVars, syncVars
  <2>2. LogFits(F)'
    BY <1>0, <1>3, <2>1 DEF History, LogFits
  <2>3. \A f : /\ Furthest(f)' <=> Furthest(f)
               /\ Shown(f)' <=> Shown(f)
    BY <2>1 DEF Furthest, Shown, Taken, EventKey, Run
  <2>4. Asked' <=> Asked
    BY <2>1 DEF Asked
  <2>5. HealthFits(F)'
    BY <1>0, <1>3, <2>1, <2>3, <2>4 DEF History, HealthFits
  <2>. QED BY <2>2, <2>5 DEF History
<1>. QED BY <1>4, <1>5, <1>6, <1>7 DEF MirrorInv

LEMMA SampleKeeps ==
    ASSUME MirrorInv, Sample PROVE MirrorInv'
<1>0. PICK F \in [Nat -> Counts] : History(F)
  BY DEF MirrorInv
<1>. PICK changed \in SUBSET Seen :
        LET modes == Publish("player.gamemode.changed", pack.sequence, SetToSeq(changed), NoBlocks)
            lines == modes \o BlockLines(pack.sequence + Len(modes))
        IN  /\ Emit(lines, [pack EXCEPT !.sequence = @ + Len(lines)])
            /\ UNCHANGED <<blocksDone, kills, streamVars, mirrorVars, health, syncVars, outages, crashes>>
  BY DEF Sample
<1>. DEFINE modes == Publish("player.gamemode.changed", pack.sequence, SetToSeq(changed), NoBlocks)
            n == pack.sequence + Len(modes)
            blocks == BlockLines(n)
            lines == modes \o blocks
            state == [pack EXCEPT !.sequence = @ + Len(lines)]
<1>1. Emit(lines, state) /\ UNCHANGED <<blocksDone, streamVars, mirrorVars, health, syncVars>>
  OBVIOUS
<1>2. pack \in States /\ pack.sequence \in Nat /\ pack.sequence > 0 /\ LogFits(F)
  BY <1>0 DEF MirrorInv, PackFits, States, History
<1>3. SetToSeq(changed) \in Seq(Seen) /\ Len(SetToSeq(changed)) \in Nat
  <2>1. IsFiniteSet(changed)
    BY SeenAssumption, FS_Subset
  <2>. QED BY <2>1, SetListFits, SeqMonotonic
<1>4. Len(modes) = Len(SetToSeq(changed)) /\ NoBlocks \in [Seen -> Nat]
  BY <1>3 DEF Publish, NoBlocks
<1>5. n \in Nat /\ pack.sequence <= n
  BY <1>2, <1>3, <1>4
<1>6. PICK G \in [Nat -> Counts] :
              /\ \A k \in 0 .. pack.sequence : G[k] = F[k]
              /\ Fits(blocks, G, n, n + Len(blocks))
              /\ Len(blocks) \in Nat
              /\ G[n + Len(blocks)] = pack.blocks
  BY <1>2, <1>5, BatchesLead DEF MirrorInv
<1>7. Fits(modes, G, pack.sequence, n)
  BY <1>2, <1>3, <1>4, DeltasFit
<1>8. Fits(lines, G, pack.sequence, n + Len(blocks)) /\ Len(lines) = Len(modes) + Len(blocks)
  <2>1. PICK low, mid, high : low = pack.sequence /\ mid = n /\ high = n + Len(blocks)
    OBVIOUS
  <2>. HIDE DEF n, modes, blocks
  <2>2. low \in Nat /\ mid \in Nat /\ high \in Nat /\ low <= mid /\ mid <= high
        /\ Fits(modes, G, low, mid) /\ Fits(blocks, G, mid, high)
    BY <1>2, <1>5, <1>6, <1>7, <2>1
  <2>3. Fits(modes \o blocks, G, low, high)
    BY <2>2, ConcatFits
  <2>4. Len(modes \o blocks) = Len(modes) + Len(blocks)
    BY <2>2, ConcatFits
  <2>. QED BY <2>1, <2>3, <2>4
<1>. HIDE DEF modes, blocks
<1>9. Len(modes) \in Nat
  BY <1>3, <1>4
<1>10. state \in States /\ state.sequence = n + Len(blocks) /\ state.blocks = pack.blocks
  <2>. HIDE DEF lines
  <2>1. pack.sequence + Len(lines) = n + Len(blocks) /\ n + Len(blocks) \in Nat
    BY <1>2, <1>6, <1>8, <1>9
  <2>. QED BY <1>2, <2>1 DEF States
<1>11. pack.sequence <= state.sequence
  BY <1>2, <1>5, <1>6, <1>10
<1>12. \A p \in Seen : state.blocks[p] <= blocksDone
  BY <1>10 DEF MirrorInv, PackFits
<1>. HIDE DEF lines, state, n
<1>13. UNCHANGED <<received, mirror, last, late, gaps, health, read, opened, due, cut, sync, window, fresh, blocksDone, answered>>
  BY <1>1 DEF streamVars, mirrorVars, syncVars
<1>. QED BY <1>0, <1>1, <1>6, <1>8, <1>10, <1>11, <1>12, <1>13, PackKeeps DEF MirrorInv, TelemetryTypeOK

LEMMA AnswerKeeps ==
    ASSUME MirrorInv, AnswerSync PROVE MirrorInv'
<1>0. PICK F \in [Nat -> Counts] : History(F)
  BY DEF MirrorInv
<1>. DEFINE n == pack.sequence
            blocks == BlockLines(n)
            state == [pack EXCEPT !.sequence = @ + Len(blocks)]
            lines == blocks \o Snapshot(state)
<1>1. Emit(lines, state) /\ answered' = TRUE
      /\ UNCHANGED <<blocksDone, streamVars, mirrorVars, health, sync, window, fresh>>
  BY DEF AnswerSync
<1>2. pack \in States /\ n \in Nat /\ n > 0 /\ n <= n /\ LogFits(F)
  BY <1>0 DEF MirrorInv, PackFits, States, History
<1>3. PICK G \in [Nat -> Counts] :
              /\ \A k \in 0 .. n : G[k] = F[k]
              /\ Fits(blocks, G, n, n + Len(blocks))
              /\ Len(blocks) \in Nat
              /\ G[n + Len(blocks)] = pack.blocks
  BY <1>2, BatchesLead DEF MirrorInv
<1>4. state \in States /\ state.sequence = n + Len(blocks) /\ state.blocks = pack.blocks /\ state.blocks \in Counts
  <2>1. n + Len(blocks) \in Nat /\ MaxBlocks \in Nat
    BY <1>2, <1>3, TelemetryBoundsAssumption
  <2>. HIDE DEF blocks, n
  <2>2. pack.sequence = n
    BY DEF n
  <2>3. pack.blocks \in [Seen -> 0 .. MaxBlocks]
    BY <1>2 DEF States
  <2>4. state.sequence = n + Len(blocks) /\ state.blocks = pack.blocks /\ state \in States
    BY <1>2, <2>1, <2>2, <2>3 DEF States
  <2>5. pack.blocks \in Counts
    BY <2>1, <2>3 DEF Counts
  <2>. QED BY <2>4, <2>5
<1>. HIDE DEF blocks, state, n
<1>5. Fits(Snapshot(state), G, state.sequence, state.sequence)
  BY <1>2, <1>3, <1>4, SnapshotFits
<1>6. Fits(lines, G, n, state.sequence)
  <2>1. PICK low, mid : low = n /\ mid = state.sequence
    OBVIOUS
  <2>2. low \in Nat /\ mid \in Nat /\ low <= mid /\ mid <= mid
        /\ Fits(blocks, G, low, mid) /\ Fits(Snapshot(state), G, mid, mid)
    BY <1>2, <1>3, <1>4, <1>5, <2>1
  <2>3. Fits(blocks \o Snapshot(state), G, low, mid)
    BY <2>2, ConcatFits
  <2>. QED BY <2>1, <2>3
<1>7. n <= state.sequence
  BY <1>2, <1>3, <1>4
<1>8. \A p \in Seen : state.blocks[p] <= blocksDone
  BY <1>4 DEF MirrorInv, PackFits
<1>. HIDE DEF lines
<1>9. UNCHANGED <<received, mirror, last, late, gaps, health, read, opened, due, cut, sync, window, fresh, blocksDone>> /\ answered' \in BOOLEAN
  BY <1>1 DEF streamVars, mirrorVars
<1>. QED BY <1>0, <1>1, <1>3, <1>4, <1>6, <1>7, <1>8, <1>9, PackKeeps DEF MirrorInv, n

LEMMA RestartKeeps ==
    ASSUME MirrorInv, Restart PROVE MirrorInv'
<1>0. PICK F \in [Nat -> Counts] : History(F)
  BY DEF MirrorInv
<1>. DEFINE n == pack.sequence
            state == [saved EXCEPT !.sequence = @ + 1]
            started == <<Line("telemetry.started", state.sequence, <<>>, 0)>>
            lines == started \o Snapshot(state)
            G == [F EXCEPT ![n + 1] = saved.blocks]
<1>1. Emit(lines, state) /\ UNCHANGED <<blocksDone, streamVars, mirrorVars, health, syncVars>>
  BY DEF Restart
<1>2. saved \in States /\ n \in Nat /\ n > 0 /\ saved.sequence = n /\ LogFits(F) /\ saved.blocks \in Counts
  <2>1. MaxBlocks \in Nat
    BY TelemetryBoundsAssumption
  <2>. QED BY <1>0, <2>1 DEF MirrorInv, PackFits, States, History, Counts
<1>3. state \in States /\ state.sequence = n + 1 /\ state.blocks = saved.blocks
  BY <1>2 DEF States
<1>4. /\ G \in [Nat -> Counts] /\ G[n + 1] = saved.blocks
      /\ \A k \in 0 .. n : G[k] = F[k]
  BY <1>2
<1>. HIDE DEF n, state, G
<1>5. Fits(started, G, n, n + 1)
  BY <1>2, <1>3, StartedFits
<1>6. Fits(Snapshot(state), G, n + 1, n + 1)
  BY <1>2, <1>3, <1>4, SnapshotFits
<1>7. Fits(lines, G, n, n + 1)
  <2>1. PICK low, mid : low = n /\ mid = n + 1
    OBVIOUS
  <2>. HIDE DEF started
  <2>2. low \in Nat /\ mid \in Nat /\ low <= mid /\ mid <= mid
        /\ Fits(started, G, low, mid) /\ Fits(Snapshot(state), G, mid, mid)
    BY <1>2, <1>5, <1>6, <2>1
  <2>3. Fits(started \o Snapshot(state), G, low, mid)
    BY <2>2, ConcatFits
  <2>. QED BY <2>1, <2>3
<1>8. \A p \in Seen : state.blocks[p] <= blocksDone
  <2>1. ASSUME NEW p \in Seen PROVE saved.blocks[p] <= blocksDone
    <3>1. /\ saved.blocks[p] \in Nat /\ queued[p] \in Nat /\ blocksDone \in Nat
          /\ pack.blocks[p] = saved.blocks[p] + queued[p] /\ pack.blocks[p] <= blocksDone
      BY <1>2, TelemetryBoundsAssumption DEF MirrorInv, PackFits, Counts
    <3>. QED BY <3>1
  <2>. QED BY <1>3, <2>1
<1>. HIDE DEF lines
<1>9. UNCHANGED <<received, mirror, last, late, gaps, health, read, opened, due, cut, sync, window, fresh, blocksDone, answered>>
  BY <1>1 DEF streamVars, mirrorVars, syncVars
<1>10. pack.sequence <= state.sequence
  BY <1>2, <1>3 DEF n
<1>. QED BY <1>0, <1>1, <1>3, <1>4, <1>7, <1>8, <1>9, <1>10, PackKeeps DEF MirrorInv, n, TelemetryTypeOK

-----------------------------------------------------------------------------
(* The manager's steps.                                                    *)

\* Steps that ingest nothing and earn no health
LEMMA QuietKeeps ==
    ASSUME NEW F \in [Nat -> Counts], History(F), ReceivedFits,
           UNCHANGED <<pack, saved, log, received, mirror, last, late>>, ~ cut' => ~ cut, due' \/ fresh',
           Asked' => health' # "waiting", Asked' /\ health' = "healthy" => Asked /\ health = "healthy"
    PROVE  /\ ReceivedFits' /\ History(F)'
           /\ \A k : Inside(k)' <=> Inside(k)
<1>1. \A k : Inside(k)' <=> Inside(k)
  BY DEF Inside, EventKey
<1>2. ReceivedFits'
  BY DEF ReceivedFits, EventKey
<1>3. LogFits(F)'
  BY DEF History, LogFits
<1>4. \A f : /\ Furthest(f)' <=> Furthest(f)
             /\ Shown(f)' <=> Shown(f)
  BY DEF Furthest, Shown, Taken, EventKey, Run
<1>5. HealthFits(F)'
  BY <1>4 DEF History, HealthFits
<1>. QED BY <1>1, <1>2, <1>3, <1>5 DEF History

\* The thread that follows the log reads a line
LEMMA FollowKeeps ==
    ASSUME MirrorInv, Follow PROVE MirrorInv'
<1>0. PICK F \in [Nat -> Counts] : History(F)
  BY DEF MirrorInv
<1>. PICK i : i = read + 1
  OBVIOUS
<1>1. /\ TelemetryTypeOK /\ PackFits /\ ReceivedFits /\ ReadersFit /\ LogFits(F) /\ HealthFits(F)
      /\ read < Len(log) /\ read' = i /\ read \in Nat /\ Len(log) \in Nat /\ i \in 1 .. Len(log)
      /\ opened \in 0 .. read
  BY <1>0, LogTypes DEF MirrorInv, History, Follow, TelemetryTypeOK, LogTyped
<1>2. UNCHANGED <<pack, saved, queued, log, blocksDone, opened, due, cut>>
  BY DEF Follow, packVars
<1>3. IF InTopics(log[i])
      THEN /\ Ingest(i)
           /\ IF ~ Refused(i) /\ Resync(log[i]) THEN RequestSnapshot(syncsDone > 0) ELSE UNCHANGED syncVars
      ELSE UNCHANGED <<mirrorVars, health, syncVars>>
  BY DEF Follow
<1>4. /\ UNCHANGED <<window, answered>>
      /\ (sync' = "ask" /\ fresh' = TRUE) \/ UNCHANGED <<sync, fresh>>
  BY <1>3 DEF RequestSnapshot, syncVars
<1>5. due' \/ fresh'
  BY <1>1, <1>2, <1>4 DEF HealthFits
<1>6. Asked' => Asked
  BY <1>4 DEF Asked
<1>7. ~ cut => ~ Inside(i)
  BY <1>1 DEF ReadersFit
<1>8. /\ ReceivedFits' /\ History(F)' /\ ~ Inside(i + 1)' /\ \A k : ~ Inside(k) => ~ Inside(k)'
      /\ mirror' \in Counts /\ last' \in Nat /\ {gaps', late'} \subseteq BOOLEAN
      /\ health' \in {"waiting", "syncing", "degraded", "healthy"}
  <2>1. CASE InTopics(log[i])
    BY <1>1, <1>2, <1>3, <1>5, <1>6, <1>7, <2>1, IngestKeeps
  <2>2. CASE ~ InTopics(log[i])
    <3>1. UNCHANGED <<mirror, received, last, gaps, late, health, sync, fresh>>
      BY <1>3, <2>2 DEF mirrorVars, syncVars
    <3>2. Asked' <=> Asked
      BY <3>1 DEF Asked
    <3>3. /\ ReceivedFits' /\ History(F)'
          /\ \A k : Inside(k)' <=> Inside(k)
      BY <1>0, <1>1, <1>2, <1>5, <3>1, <3>2, QuietKeeps DEF HealthFits
    <3>4. ~ Inside(i + 1)
      BY <1>1, <2>2, ReadOn DEF InTopics, Frames
    <3>. QED BY <1>1, <3>1, <3>3, <3>4 DEF TelemetryTypeOK, Counts
  <2>. QED BY <2>1, <2>2
<1>9. ReadersFit'
  <2>1. window' \in [first : Nat, end : Nat]
    BY <1>1, <1>4 DEF ReadersFit
  <2>2. sync' \in {"wait", "ingest"} => window'.first \in 1 .. (Len(log') + 1) /\ window'.end \in 0 .. Len(log')
    BY <1>1, <1>2, <1>4 DEF ReadersFit
  <2>3. ASSUME ~ cut'
        PROVE  /\ ~ Inside(read + 1)' /\ ~ Inside(opened + 1)'
               /\ sync' \in {"wait", "ingest"} => ~ Inside(window.first)'
    <3>1. ~ Inside(opened + 1) /\ (sync \in {"wait", "ingest"} => ~ Inside(window.first))
      BY <1>1, <1>2, <2>3 DEF ReadersFit
    <3>2. PICK o, w : o = opened + 1 /\ w = window.first
      OBVIOUS
    <3>3. ~ Inside(o)' /\ (sync \in {"wait", "ingest"} => ~ Inside(w)')
      BY <1>8, <3>1, <3>2
    <3>4. o = opened' + 1 /\ w = window'.first /\ i + 1 = read' + 1
      BY <1>1, <1>2, <1>4, <3>2
    <3>. QED BY <1>4, <1>8, <3>3, <3>4 DEF Inside, EventKey
  <2>. QED BY <2>1, <2>2, <2>3 DEF ReadersFit
<1>10. PackFits'
  BY <1>1, <1>2 DEF PackFits
<1>11. TelemetryTypeOK'
  <2>1. pack' \in States /\ saved' \in States /\ queued' \in [Seen -> 0 .. MaxBlocks]
    BY <1>10 DEF PackFits
  <2>2. opened' \in 0 .. read' /\ read' \in 0 .. Len(log')
    BY <1>1, <1>2
  <2>3. sync' \in {"idle", "ask", "send", "wait", "ingest", "check", "degrade"}
    BY <1>1, <1>4 DEF TelemetryTypeOK
  <2>4. {gaps', answered', due', fresh', cut', late'} \subseteq BOOLEAN
    BY <1>1, <1>2, <1>4, <1>8 DEF TelemetryTypeOK
  <2>. QED BY <1>8, <2>1, <2>2, <2>3, <2>4 DEF TelemetryTypeOK, Counts
<1>. QED BY <1>8, <1>9, <1>10, <1>11 DEF MirrorInv

\* The thread that asked for a snapshot reads a line
LEMMA SyncIngestKeeps ==
    ASSUME MirrorInv, SyncIngest PROVE MirrorInv'
<1>0. PICK F \in [Nat -> Counts] : History(F)
  BY DEF MirrorInv
<1>. PICK i : i = window.first
  OBVIOUS
<1>1. /\ TelemetryTypeOK /\ PackFits /\ ReceivedFits /\ ReadersFit /\ LogFits(F) /\ HealthFits(F)
      /\ sync = "ingest" /\ Len(log) \in Nat /\ i \in 1 .. Len(log)
      /\ window \in [first : Nat, end : Nat] /\ window.end \in 0 .. Len(log)
  BY <1>0, LogTypes DEF MirrorInv, History, SyncIngest, ReadersFit, LogTyped
<1>2. UNCHANGED <<pack, saved, queued, log, blocksDone, read, opened, due, cut, answered, fresh>>
  BY DEF SyncIngest, packVars, streamVars
<1>3. IF InTopics(log[i])
      THEN Ingest(i) /\ window' = [window EXCEPT !.first = @ + 1] /\ UNCHANGED sync
      ELSE sync' = "degrade" /\ UNCHANGED <<mirrorVars, health, window>>
  BY DEF SyncIngest
<1>4. due' \/ fresh'
  BY <1>1, <1>2 DEF HealthFits
<1>5. Asked' => Asked
  BY <1>1, <1>2 DEF Asked
<1>6. ~ cut => ~ Inside(i)
  BY <1>1 DEF ReadersFit
<1>7. /\ ReceivedFits' /\ History(F)' /\ \A k : ~ Inside(k) => ~ Inside(k)'
      /\ mirror' \in Counts /\ last' \in Nat /\ {gaps', late'} \subseteq BOOLEAN
      /\ health' \in {"waiting", "syncing", "degraded", "healthy"}
      /\ window' \in [first : Nat, end : Nat] /\ sync' \in {"ingest", "degrade"}
      /\ sync' = "ingest" => /\ window'.first = i + 1 /\ window'.end = window.end
                             /\ ~ Inside(i + 1)'
  <2>1. CASE InTopics(log[i])
    <3>1. Ingest(i) /\ window' = [window EXCEPT !.first = @ + 1] /\ sync' = sync
      BY <1>3, <2>1
    <3>2. /\ ReceivedFits' /\ History(F)' /\ ~ Inside(i + 1)' /\ \A k : ~ Inside(k) => ~ Inside(k)'
          /\ mirror' \in Counts /\ last' \in Nat /\ {gaps', late'} \subseteq BOOLEAN
          /\ health' \in {"waiting", "syncing", "degraded", "healthy"}
      BY <1>1, <1>2, <1>4, <1>5, <1>6, <2>1, <3>1, IngestKeeps
    <3>3. window' \in [first : Nat, end : Nat] /\ window'.first = i + 1 /\ window'.end = window.end
      BY <1>1, <3>1
    <3>. QED BY <1>1, <3>1, <3>2, <3>3
  <2>2. CASE ~ InTopics(log[i])
    <3>1. UNCHANGED <<mirror, received, last, gaps, late, health, window>> /\ sync' = "degrade"
      BY <1>3, <2>2 DEF mirrorVars
    <3>2. /\ ReceivedFits' /\ History(F)'
          /\ \A k : Inside(k)' <=> Inside(k)
      BY <1>0, <1>1, <1>2, <1>4, <1>5, <3>1, QuietKeeps DEF HealthFits
    <3>. QED BY <1>1, <3>1, <3>2 DEF TelemetryTypeOK, Counts
  <2>. QED BY <2>1, <2>2
<1>8. ReadersFit'
  <2>1. sync' \in {"wait", "ingest"} => window'.first \in 1 .. (Len(log') + 1) /\ window'.end \in 0 .. Len(log')
    BY <1>1, <1>2, <1>7
  <2>2. ASSUME ~ cut'
        PROVE  /\ ~ Inside(read + 1)' /\ ~ Inside(opened + 1)'
               /\ sync' \in {"wait", "ingest"} => ~ Inside(window.first)'
    <3>1. ~ Inside(read + 1) /\ ~ Inside(opened + 1)
      BY <1>1, <1>2, <2>2 DEF ReadersFit
    <3>2. PICK r, o : r = read + 1 /\ o = opened + 1
      OBVIOUS
    <3>3. ~ Inside(r)' /\ ~ Inside(o)'
      BY <1>7, <3>1, <3>2
    <3>4. r = read' + 1 /\ o = opened' + 1
      BY <1>2, <3>2
    <3>. QED BY <1>7, <3>3, <3>4 DEF Inside, EventKey
  <2>. QED BY <1>7, <2>1, <2>2 DEF ReadersFit
<1>9. PackFits'
  BY <1>1, <1>2 DEF PackFits
<1>10. TelemetryTypeOK'
  BY <1>1, <1>2, <1>7 DEF TelemetryTypeOK, Counts
<1>. QED BY <1>7, <1>8, <1>9, <1>10 DEF MirrorInv

\* The steps that ask, wait and judge
LEMMA AskingKeeps ==
    ASSUME MirrorInv, StreamConnected \/ SyncAsk \/ SyncSend \/ SyncRead \/ SyncCheck \/ SyncDegrade \/ SyncFails
    PROVE  MirrorInv'
<1>0. PICK F \in [Nat -> Counts] : History(F)
  BY DEF MirrorInv
<1>1. /\ TelemetryTypeOK /\ PackFits /\ ReceivedFits /\ ReadersFit /\ HealthFits(F)
      /\ Len(log) \in Nat /\ opened \in 0 .. read /\ read \in 0 .. Len(log)
      /\ window \in [first : Nat, end : Nat]
  BY <1>0, LogTypes DEF MirrorInv, History, LogTyped, TelemetryTypeOK, ReadersFit
<1>2. UNCHANGED <<packVars, mirrorVars, read, opened, cut>>
  BY DEF StreamConnected, SyncAsk, SyncSend, SyncRead, SyncCheck, SyncDegrade, SyncFails, streamVars
<1>3. /\ UNCHANGED <<pack, saved, queued, log, blocksDone, received, mirror, last, gaps, late, read, opened, cut>>
      /\ due' \in BOOLEAN /\ fresh' \in BOOLEAN /\ answered' \in BOOLEAN
      /\ sync' \in {"idle", "ask", "send", "wait", "ingest", "check", "degrade"}
      /\ health' \in {"waiting", "syncing", "degraded", "healthy"}
  <2>1. CASE StreamConnected
    <3>1. UNCHANGED <<health, answered>> /\ due' = FALSE /\ ((sync' = "ask" /\ fresh' = TRUE) \/ UNCHANGED <<sync, fresh>>)
      BY <2>1 DEF StreamConnected, RequestSnapshot, syncVars
    <3>. QED BY <1>1, <1>2, <3>1 DEF TelemetryTypeOK, packVars, mirrorVars
  <2>2. CASE SyncAsk \/ SyncSend \/ SyncRead \/ SyncCheck \/ SyncDegrade \/ SyncFails
    <3>1. /\ UNCHANGED <<due, fresh>>
          /\ answered' \in BOOLEAN \/ UNCHANGED answered
          /\ health' \in {"syncing", "degraded"} \/ UNCHANGED health
          /\ sync' \in {"idle", "send", "wait", "ingest", "degrade"}
      <4>1. UNCHANGED <<due, fresh>>
        BY <2>2 DEF SyncAsk, SyncSend, SyncRead, SyncCheck, SyncDegrade, SyncFails, streamVars
      <4>2. answered' \in BOOLEAN \/ UNCHANGED answered
        <5>1. SyncSend => answered' \in BOOLEAN
          BY DEF SyncSend
        <5>2. SyncRead => answered' \in BOOLEAN
          BY DEF SyncRead
        <5>3. SyncAsk \/ SyncCheck \/ SyncDegrade \/ SyncFails => UNCHANGED answered
          BY DEF SyncAsk, SyncCheck, SyncDegrade, SyncFails
        <5>. QED BY <2>2, <5>1, <5>2, <5>3
      <4>3. health' \in {"syncing", "degraded"} \/ UNCHANGED health
        BY <2>2 DEF SyncAsk, SyncSend, SyncRead, SyncCheck, SyncDegrade, SyncFails
      <4>4. sync' \in {"idle", "send", "wait", "ingest", "degrade"}
        BY <2>2 DEF SyncAsk, SyncSend, SyncRead, SyncCheck, SyncDegrade, SyncFails
      <4>. QED BY <4>1, <4>2, <4>3, <4>4
    <3>. QED BY <1>1, <1>2, <3>1 DEF TelemetryTypeOK, packVars, mirrorVars
  <2>. QED BY <2>1, <2>2
<1>4. /\ due' \/ fresh'
      /\ Asked' => health' # "waiting"
      /\ Asked' /\ health' = "healthy" => Asked /\ health = "healthy"
  <2>1. CASE StreamConnected
    <3>1. /\ health' = health /\ (fresh' \/ due')
          /\ (sync' = "ask" \/ UNCHANGED <<sync, fresh>>)
      BY <2>1 DEF StreamConnected, RequestSnapshot, syncVars
    <3>. QED BY <1>1, <3>1 DEF HealthFits, Asked
  <2>2. CASE SyncAsk
    BY <1>1, <2>2 DEF SyncAsk, streamVars, HealthFits, Asked
  <2>3. CASE SyncSend \/ SyncRead \/ SyncCheck \/ SyncFails
    BY <1>1, <2>3 DEF SyncSend, SyncRead, SyncCheck, SyncFails, streamVars, HealthFits, Asked
  <2>4. CASE SyncDegrade
    BY <1>1, <2>4 DEF SyncDegrade, streamVars, HealthFits, Asked
  <2>. QED BY <2>1, <2>2, <2>3, <2>4
<1>5. /\ ReceivedFits' /\ History(F)'
      /\ \A k : Inside(k)' <=> Inside(k)
  BY <1>0, <1>1, <1>3, <1>4, QuietKeeps
<1>6. /\ window' \in [first : Nat, end : Nat]
      /\ sync' \in {"wait", "ingest"} =>
           /\ window'.first \in 1 .. (Len(log') + 1) /\ window'.end \in 0 .. Len(log')
           /\ \/ window'.first = window.first /\ sync \in {"wait", "ingest"}
              \/ window'.first \in {opened + 1, Len(log) + 1}
  <2>1. CASE StreamConnected
    BY <1>1, <1>3, <2>1 DEF StreamConnected, RequestSnapshot, syncVars, ReadersFit
  <2>2. CASE SyncAsk \/ SyncCheck \/ SyncDegrade \/ SyncFails
    BY <1>1, <1>3, <2>2 DEF SyncAsk, SyncCheck, SyncDegrade, SyncFails, ReadersFit
  <2>3. CASE SyncSend
    <3>1. PICK first \in {opened, Len(log)} : window' = [first |-> first + 1, end |-> Len(log)]
      BY <2>3 DEF SyncSend
    <3>2. first \in 0 .. Len(log)
      BY <1>1, <3>1
    <3>. QED BY <1>1, <1>3, <3>1, <3>2
  <2>4. CASE SyncRead
    <3>1. sync = "wait" /\ window' = [window EXCEPT !.end = Len(log)]
      BY <2>4 DEF SyncRead
    <3>. QED BY <1>1, <1>3, <3>1 DEF ReadersFit
  <2>. QED BY <2>1, <2>2, <2>3, <2>4
<1>7. ReadersFit'
  <2>1. ASSUME ~ cut'
        PROVE  /\ ~ Inside(read + 1)' /\ ~ Inside(opened + 1)'
               /\ sync' \in {"wait", "ingest"} => ~ Inside(window.first)'
    <3>1. /\ ~ Inside(read + 1) /\ ~ Inside(opened + 1) /\ ~ Inside(Len(log) + 1)
          /\ sync \in {"wait", "ingest"} => ~ Inside(window.first)
      BY <1>1, <1>3, <2>1 DEF ReadersFit, Inside
    <3>2. PICK r, o, e, w : r = read + 1 /\ o = opened + 1 /\ e = Len(log) + 1 /\ w = window.first
      OBVIOUS
    <3>3. ~ Inside(r)' /\ ~ Inside(o)' /\ ~ Inside(e)' /\ (sync \in {"wait", "ingest"} => ~ Inside(w)')
      BY <1>5, <3>1, <3>2
    <3>4. r = read' + 1 /\ o = opened' + 1
      BY <1>3, <3>2
    <3>5. sync' \in {"wait", "ingest"} => (window'.first = w /\ sync \in {"wait", "ingest"}) \/ window'.first \in {o, e}
      BY <1>6, <3>2
    <3>6. PICK v : v = window'.first
      OBVIOUS
    <3>7. sync' \in {"wait", "ingest"} => ~ Inside(v)'
      BY <3>3, <3>5, <3>6
    <3>. QED BY <3>3, <3>4, <3>6, <3>7 DEF Inside, EventKey
  <2>. QED BY <1>6, <2>1 DEF ReadersFit
<1>8. PackFits'
  BY <1>1, <1>3 DEF PackFits
<1>9. TelemetryTypeOK'
  BY <1>1, <1>3 DEF TelemetryTypeOK
<1>. QED BY <1>5, <1>7, <1>8, <1>9 DEF MirrorInv

\* The stream breaks
LEMMA OutageKeeps ==
    ASSUME MirrorInv, Outage PROVE MirrorInv'
<1>0. PICK F \in [Nat -> Counts] : History(F)
  BY DEF MirrorInv
<1>1. /\ TelemetryTypeOK /\ PackFits /\ ReceivedFits /\ ReadersFit /\ HealthFits(F) /\ Len(log) \in Nat
  BY <1>0, LogTypes DEF MirrorInv, History, LogTyped
<1>2. /\ UNCHANGED <<pack, saved, queued, log, blocksDone, received, mirror, last, gaps, late, health, sync, window, answered>>
      /\ due' = TRUE /\ fresh' = FALSE
  BY DEF Outage, packVars, mirrorVars
<1>3. PICK next \in 0 .. Len(log) : read' = next /\ opened' = next /\ cut' = (cut \/ Inside(next + 1))
  BY DEF Outage
<1>4. /\ ReceivedFits' /\ History(F)'
      /\ \A k : Inside(k)' <=> Inside(k)
  BY <1>0, <1>1, <1>2, <1>3, QuietKeeps DEF Asked, TelemetryTypeOK
<1>5. ReadersFit'
  <2>1. ASSUME ~ cut'
        PROVE  /\ ~ Inside(read + 1)' /\ ~ Inside(opened + 1)'
               /\ sync' \in {"wait", "ingest"} => ~ Inside(window.first)'
    <3>1. ~ Inside(next + 1) /\ (sync \in {"wait", "ingest"} => ~ Inside(window.first))
      BY <1>1, <1>3, <2>1 DEF ReadersFit, TelemetryTypeOK
    <3>2. PICK n, w : n = next + 1 /\ w = window.first
      OBVIOUS
    <3>3. ~ Inside(n)' /\ (sync \in {"wait", "ingest"} => ~ Inside(w)')
      BY <1>4, <3>1, <3>2
    <3>. QED BY <1>2, <1>3, <3>2, <3>3 DEF Inside, EventKey
  <2>. QED BY <1>1, <1>2, <2>1 DEF ReadersFit
<1>6. PackFits'
  BY <1>1, <1>2 DEF PackFits
<1>7. TelemetryTypeOK'
  <2>1. {gaps', answered', due', fresh', cut', late'} \subseteq BOOLEAN
    BY <1>1, <1>2, <1>3 DEF TelemetryTypeOK
  <2>. QED BY <1>1, <1>2, <1>3, <2>1 DEF TelemetryTypeOK
<1>. QED BY <1>4, <1>5, <1>6, <1>7 DEF MirrorInv

\* The manager dies, maybe between the two transactions of a line
LEMMA CrashKeeps ==
    ASSUME MirrorInv, Crash PROVE MirrorInv'
<1>0. PICK F \in [Nat -> Counts] : History(F)
  BY DEF MirrorInv
<1>. PICK i : i = read + 1
  OBVIOUS
<1>1. /\ TelemetryTypeOK /\ PackFits /\ ReceivedFits /\ ReadersFit /\ LogFits(F) /\ HealthFits(F) /\ Len(log) \in Nat
      /\ read \in 0 .. Len(log)
  BY <1>0, LogTypes DEF MirrorInv, History, LogTyped, TelemetryTypeOK
<1>2. /\ UNCHANGED <<pack, saved, queued, log, blocksDone, last, gaps, health>>
      /\ due' = TRUE /\ fresh' = FALSE /\ answered' = FALSE
      /\ sync' = "idle" /\ window' = [first |-> 1, end |-> 0]
  BY DEF Crash, packVars
<1>3. PICK next \in 0 .. Len(log) : read' = next /\ opened' = next /\ cut' = (cut \/ Inside(next + 1))
  BY <1>1 DEF Crash
<1>4. /\ ReceivedFits' /\ History(F)'
      /\ \A k : ~ Inside(k) => ~ Inside(k)'
      /\ mirror' \in Counts /\ late' \in BOOLEAN
  <2>1. CASE UNCHANGED <<mirror, received, late>>
    <3>1. /\ ReceivedFits' /\ History(F)'
          /\ \A k : Inside(k)' <=> Inside(k)
      BY <1>0, <1>1, <1>2, <1>3, <2>1, QuietKeeps DEF Asked, TelemetryTypeOK
    <3>. QED BY <1>1, <2>1, <3>1 DEF TelemetryTypeOK, Counts
  <2>2. CASE read < Len(log) /\ InTopics(log[i]) /\ ~ Refused(i) /\ Accept(i)
    <3>1. i \in 1 .. Len(log) /\ ~ Taken(i)
      BY <1>1, <2>2 DEF Refused, Taken
    <3>2. /\ ReceivedFits' /\ \A k : ~ Inside(k) => ~ Inside(k)'
          /\ ~ late' => \A f \in 1 .. Len(log) : Furthest(f)' => f = i
      BY <1>1, <1>2, <2>2, <3>1, AcceptFacts
    <3>3. mirror' \in Counts /\ late' \in BOOLEAN
      BY <1>1, <2>2, <3>1, CountersFacts DEF Accept, TelemetryTypeOK, Counts
    <3>4. LogFits(F)'
      BY <1>1, <1>2 DEF LogFits
    <3>5. ASSUME ~ cut', ~ late', NEW f \in 1 .. Len(log), Furthest(f)' PROVE Shown(f)'
      <4>1. ~ cut /\ ~ Inside(i)
        BY <1>1, <1>3, <3>5 DEF ReadersFit, TelemetryTypeOK
      <4>2. f = i /\ Shown(i)'
        BY <1>1, <1>2, <2>2, <3>1, <3>2, <3>5, <4>1, AcceptShows
      <4>. QED BY <4>2 DEF Shown, Run
    <3>6. HealthFits(F)'
      BY <1>1, <1>2, <3>5 DEF HealthFits, Asked
    <3>. QED BY <3>2, <3>3, <3>4, <3>6 DEF History
  <2>. QED BY <2>1, <2>2 DEF Crash
<1>5. ReadersFit'
  <2>1. ASSUME ~ cut'
        PROVE  ~ Inside(read + 1)' /\ ~ Inside(opened + 1)'
    <3>1. ~ Inside(next + 1)
      BY <1>1, <1>3, <2>1 DEF TelemetryTypeOK
    <3>2. PICK n : n = next + 1
      OBVIOUS
    <3>3. ~ Inside(n)'
      BY <1>4, <3>1, <3>2
    <3>. QED BY <1>3, <3>2, <3>3 DEF Inside, EventKey
  <2>. QED BY <1>2, <2>1 DEF ReadersFit
<1>6. PackFits'
  BY <1>1, <1>2 DEF PackFits
<1>7. TelemetryTypeOK'
  <2>1. {gaps', answered', due', fresh', cut', late'} \subseteq BOOLEAN
    BY <1>1, <1>2, <1>3, <1>4 DEF TelemetryTypeOK
  <2>. QED BY <1>1, <1>2, <1>3, <1>4, <2>1 DEF TelemetryTypeOK, Counts
<1>. QED BY <1>4, <1>5, <1>6, <1>7 DEF MirrorInv

-----------------------------------------------------------------------------
(* The invariant and what follows from it.                                 *)

LEMMA InitFits == ASSUME TelemetryInit PROVE MirrorInv
<1>. DEFINE F == [n \in Nat |-> NoBlocks]
<1>1. /\ pack = [sequence |-> 1, blocks |-> NoBlocks] /\ saved = pack /\ queued = NoBlocks /\ log = <<>>
      /\ read = 0 /\ opened = 0 /\ mirror = NoBlocks /\ received = {} /\ last = 0 /\ health = "waiting"
      /\ ~ gaps /\ ~ late /\ sync = "idle" /\ window = [first |-> 1, end |-> 0] /\ ~ answered
      /\ due /\ ~ fresh /\ ~ cut /\ blocksDone = 0
      /\ gaps \in BOOLEAN /\ late \in BOOLEAN /\ answered \in BOOLEAN /\ due \in BOOLEAN /\ fresh \in BOOLEAN /\ cut \in BOOLEAN
  BY DEF TelemetryInit
<1>2. MaxBlocks \in Nat /\ NoBlocks \in [Seen -> 0 .. MaxBlocks] /\ NoBlocks \in Counts /\ \A p \in Seen : NoBlocks[p] = 0
  <2>1. MaxBlocks \in Nat
    BY TelemetryBoundsAssumption
  <2>2. NoBlocks = [p \in Seen |-> 0]
    BY DEF NoBlocks
  <2>. QED BY <2>1, <2>2 DEF Counts
<1>3. pack \in States /\ pack.sequence = 1 /\ pack.blocks = NoBlocks
  BY <1>1, <1>2 DEF States
<1>4. TelemetryTypeOK
  BY <1>1, <1>2, <1>3 DEF TelemetryTypeOK, Counts
<1>5. PackFits
  BY <1>1, <1>2, <1>3 DEF PackFits
<1>6. ReceivedFits /\ ReadersFit
  BY <1>1 DEF ReceivedFits, ReadersFit, Inside
<1>7. F \in [Nat -> Counts] /\ F[1] = NoBlocks
  BY <1>2
<1>. HIDE DEF F
<1>8. LogFits(F)
  <2>1. log \in Seq(Lines) /\ Len(log) = 0
    BY <1>1
  <2>. QED BY <1>1, <1>3, <1>7, <2>1 DEF LogFits, Fits, Numbered, Framed
<1>9. HealthFits(F)
  BY <1>1, <1>3 DEF HealthFits, Asked
<1>. QED BY <1>4, <1>5, <1>6, <1>7, <1>8, <1>9 DEF MirrorInv, History

LEMMA StutterKeeps ==
    ASSUME MirrorInv, UNCHANGED telemetryVars PROVE MirrorInv'
<1>0. PICK F \in [Nat -> Counts] : History(F)
  BY DEF MirrorInv
<1>1. UNCHANGED <<pack, saved, queued, log, blocksDone, read, opened, due, cut, mirror, received, last, gaps, late, health, sync, window, answered, fresh>>
  BY DEF telemetryVars, packVars, streamVars, mirrorVars, syncVars
<1>2. Asked' <=> Asked
  BY <1>1 DEF Asked
<1>3. /\ ReceivedFits' /\ History(F)'
      /\ \A k : Inside(k)' <=> Inside(k)
  BY <1>0, <1>1, <1>2, QuietKeeps DEF MirrorInv, History, HealthFits
<1>4. ReadersFit'
  BY <1>1 DEF MirrorInv, ReadersFit, Inside, EventKey
<1>5. PackFits'
  BY <1>1 DEF MirrorInv, PackFits
<1>6. TelemetryTypeOK'
  BY <1>1 DEF MirrorInv, TelemetryTypeOK
<1>. QED BY <1>3, <1>4, <1>5, <1>6 DEF MirrorInv

LEMMA Inductive == TelemetrySpec => []MirrorInv
<1>1. TelemetryInit => MirrorInv
  BY InitFits
<1>2. MirrorInv /\ [TelemetryNext]_telemetryVars => MirrorInv'
  <2>. SUFFICES ASSUME MirrorInv, [TelemetryNext]_telemetryVars PROVE MirrorInv'
    OBVIOUS
  <2>1. ASSUME NEW p \in Seen, ChangeBlock(p) PROVE MirrorInv'
    BY <2>1, ChangeBlockKeeps
  <2>2. CASE Sample
    BY <2>2, SampleKeeps
  <2>3. CASE Restart
    BY <2>3, RestartKeeps
  <2>4. CASE AnswerSync
    BY <2>4, AnswerKeeps
  <2>5. CASE Follow
    BY <2>5, FollowKeeps
  <2>6. CASE Outage
    BY <2>6, OutageKeeps
  <2>7. CASE StreamConnected \/ SyncAsk \/ SyncSend \/ SyncRead \/ SyncCheck \/ SyncDegrade \/ SyncFails
    BY <2>7, AskingKeeps
  <2>8. CASE SyncIngest
    BY <2>8, SyncIngestKeeps
  <2>9. CASE Crash
    BY <2>9, CrashKeeps
  <2>10. CASE UNCHANGED telemetryVars
    BY <2>10, StutterKeeps
  <2>. QED BY <2>1, <2>2, <2>3, <2>4, <2>5, <2>6, <2>7, <2>8, <2>9, <2>10 DEF TelemetryNext
<1>. QED BY <1>1, <1>2, PTL DEF TelemetrySpec

\* The pack, its log, the two readers and the mirror have their types: no
\* counter passes its bound and no reader the end of the log.
THEOREM TelemetryTypeCorrect == TelemetrySpec => []TelemetryTypeOK
<1>1. MirrorInv => TelemetryTypeOK
  BY DEF MirrorInv
<1>. QED BY <1>1, Inductive, PTL

\* Whatever two readers, lost and replayed lines, deaths of Bedrock and of the
\* manager do: on a stream for which a snapshot was asked, telemetry that
\* service.py calls healthy at the pack's own sequence has the pack's counters.
THEOREM HealthyIsCurrent == TelemetrySpec => []HealthyMirrorsPack
<1>1. MirrorInv => HealthyMirrorsPack
  <2>. SUFFICES ASSUME MirrorInv, health = "healthy", last = pack.sequence, ~ due, sync # "ask", ~ cut, ~ late
                PROVE  mirror = saved.blocks
    BY DEF HealthyMirrorsPack
  <2>1. PICK F \in [Nat -> Counts] : LogFits(F) /\ HealthFits(F)
    BY DEF MirrorInv, History
  <2>2. mirror = F[last]
    BY <2>1 DEF HealthFits, Asked
  <2>. QED BY <2>1, <2>2 DEF LogFits
<1>. QED BY <1>1, Inductive, PTL
=============================================================================
