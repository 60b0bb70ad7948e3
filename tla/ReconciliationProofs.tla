------------------------- MODULE ReconciliationProofs -------------------------
(***************************************************************************)
(* Theorems about Reconciliation, for any number of rules, threads,        *)
(* changes, failing calls and deaths of the process.                       *)
(***************************************************************************)
EXTENDS Reconciliation, FiniteSetTheorems, TLAPS

\* A deferred refresh was counted among those that were starting
StartingFits == deferred => starting <= MaxStarting

\* Who is in a critical section, and what the lock says meanwhile
LockFits ==
    /\ lock = "full" <=> full # "idle"
    /\ lock = "world" <=> \E w \in WorldThreads : world[w] = "refresh"
    /\ lock = "rules" <=> \E g \in RuleThreads : rule[g] \in InRuleLock
    /\ refreshing <=> lock \in {"full", "rules"}

\* One thread is in the loop of the world while the flag is up
WorldFits ==
    /\ \A w, v \in WorldThreads : world[w] \in InWorldLoop /\ world[v] \in InWorldLoop => w = v
    /\ worldRunning <=> \E w \in WorldThreads : world[w] \in InWorldLoop
    /\ worldPending => worldRunning \/ \E w \in WorldThreads : world[w] = "restart"

\* One thread is in the loop of the gamerules while the flag is up.  Only
\* between taking rules and leaving the lock it has some, and when a call raised
\* they are pending again
RulesFit ==
    /\ \A g, h \in RuleThreads : rule[g] \in InRuleLoop /\ rule[h] \in InRuleLoop => g = h
    /\ rulesRunning <=> \E g \in RuleThreads : rule[g] \in InRuleLoop
    /\ rulesPending # {} => rulesRunning \/ \E g \in RuleThreads : rule[g] = "restart"
    /\ \A g \in RuleThreads :
          /\ rule[g] \in {"idle", "sleep", "end", "restart"} => taken[g] = {}
          /\ rule[g] = "raised" => taken[g] \subseteq rulesPending

IInv == TypeOK /\ StartingFits /\ LockFits /\ WorldFits /\ RulesFit

-----------------------------------------------------------------------------
(* Types.                                                                  *)

\* Partial functions from rules to values
LEMMA ReadingFacts ==
    /\ Nothing \in Readings
    /\ \A R \in SUBSET Rules : [R -> Values] \subseteq Readings
    /\ TypeOK => \A f \in Readings : Stored(f) \in [Rules -> Values]
<1>1. \A R \in SUBSET Rules : [R -> Values] \subseteq Readings
  BY DEF Readings
<1>2. Nothing \in [{} -> Values]
  BY DEF Nothing
<1>3. Nothing \in Readings
  BY <1>1, <1>2
<1>4. ASSUME TypeOK, NEW f \in Readings
      PROVE  Stored(f) \in [Rules -> Values]
  <2>1. PICK R \in SUBSET Rules : f \in [R -> Values]
    BY DEF Readings
  <2>2. DOMAIN f = R /\ \A r \in R : f[r] \in Values
    BY <2>1
  <2>3. \A r \in Rules : cached[r] \in Values
    BY <1>4 DEF TypeOK
  <2> QED
    BY <2>2, <2>3 DEF Stored
<1> QED
  BY <1>1, <1>3, <1>4

\* What a console query answers
LEMMA QueryFacts ==
    ASSUME TypeOK, NEW R \in SUBSET Rules, Query(R)
    PROVE  /\ answer' \in Readings /\ log' \subseteq Rules /\ faults' \in 0 .. MaxFaults
           /\ UNCHANGED <<actual, edits>>
<1>1. PICK answered \in SUBSET R, echo \in SUBSET R :
          /\ answer' = [r \in answered |-> actual[r]]
          /\ log' = log \cup echo
          /\ IF answered = R THEN UNCHANGED faults ELSE Fault
          /\ UNCHANGED <<actual, edits>>
  BY DEF Query
<1>2. answer' \in [answered -> Values]
  BY <1>1 DEF TypeOK
<1>3. faults' \in 0 .. MaxFaults
  BY <1>1, BoundsAssumption DEF TypeOK, Fault
<1> QED
  BY <1>1, <1>2, <1>3, ReadingFacts DEF TypeOK

\* What a change of a rule does to Bedrock
LEMMA ChangeFacts ==
    ASSUME TypeOK, NEW r \in Rules, Change(r)
    PROVE  /\ actual' \in [Rules -> Values] /\ log' \subseteq Rules /\ edits' \in 0 .. MaxEdits
           /\ edits + 1 \in Values
BY BoundsAssumption DEF TypeOK, Change, Values

\* What set_gamerule has sent is a reading
LEMMA SentFacts ==
    ASSUME NEW r \in Rules, NEW v \in Values
    PROVE  [x \in {r} |-> v] \in Readings
<1>1. [x \in {r} |-> v] \in [{r} -> Values]
  OBVIOUS
<1>2. {r} \in SUBSET Rules
  OBVIOUS
<1> QED
  BY <1>1, <1>2, ReadingFacts

LEMMA TypesInit == Init => TypeOK /\ StartingFits
<1> SUFFICES ASSUME Init PROVE TypeOK /\ StartingFits
  OBVIOUS
<1>1. 0 \in Values /\ starting \in 0 .. MaxStarting + 1 /\ 0 \in 0 .. MaxFaults /\ 0 \in 0 .. MaxCrashes
  BY BoundsAssumption DEF Init, Values
<1>2. Nothing \in Readings
  BY ReadingFacts
<1>3. /\ world \in [WorldThreads -> InWorldLoop \cup {"idle", "restart"}]
      /\ rule \in [RuleThreads -> InRuleLoop \cup {"idle", "restart"}]
      /\ taken \in [RuleThreads -> SUBSET Rules] /\ setter \in [Setters -> Readings]
  BY <1>2 DEF Init, Idle
<1> QED
  BY <1>1, <1>2, <1>3 DEF Init, TypeOK, StartingFits, Values

\* Each step keeps the types, and refresh threads within their bound
LEMMA TypesKept == IInv /\ [Next]_vars => (TypeOK /\ StartingFits)'
<1> SUFFICES ASSUME IInv, [Next]_vars
             PROVE  (TypeOK /\ StartingFits)'
  OBVIOUS
<1>0. TypeOK /\ StartingFits
  BY DEF IInv
<1> USE DEF fullVars, worldVars, ruleVars, bedrock
<1>1. ASSUME RequestFull
      PROVE  (TypeOK /\ StartingFits)'
  BY <1>0, <1>1, BoundsAssumption, ReadingFacts DEF RequestFull, TypeOK, StartingFits, InWorldLoop, InRuleLoop, InRuleLock
<1>2. ASSUME FullAcquire
      PROVE  (TypeOK /\ StartingFits)'
  BY <1>0, <1>2, BoundsAssumption, ReadingFacts DEF FullAcquire, TypeOK, StartingFits, InWorldLoop, InRuleLoop, InRuleLock
<1>3. ASSUME FullDefer
      PROVE  (TypeOK /\ StartingFits)'
  BY <1>0, <1>3, BoundsAssumption, ReadingFacts DEF FullDefer, TypeOK, StartingFits, InWorldLoop, InRuleLoop, InRuleLock
<1>4. ASSUME FullQuery
      PROVE  (TypeOK /\ StartingFits)'
  <2>1. Query(Rules) /\ Rules \in SUBSET Rules
    BY <1>0, <1>4 DEF FullQuery, TypeOK
  <2>2. /\ answer' \in Readings /\ log' \subseteq Rules /\ faults' \in 0 .. MaxFaults
        /\ UNCHANGED <<actual, edits>>
    BY <1>0, <2>1, QueryFacts
  <2> QED
    BY <1>0, <1>4, <2>2 DEF FullQuery, TypeOK, StartingFits, InWorldLoop, InRuleLoop, InRuleLock
<1>5. ASSUME FullStore
      PROVE  (TypeOK /\ StartingFits)'
  <2>1. Stored(answer) \in [Rules -> Values] /\ Nothing \in Readings
    BY <1>0, ReadingFacts DEF TypeOK
  <2> QED
    BY <1>0, <1>5, <2>1 DEF FullStore, StoreAnswer, TypeOK, StartingFits, InWorldLoop, InRuleLoop, InRuleLock
<1>6. ASSUME FullFails
      PROVE  (TypeOK /\ StartingFits)'
  BY <1>0, <1>6, BoundsAssumption, ReadingFacts DEF FullFails, Fault, TypeOK, StartingFits, InWorldLoop, InRuleLoop, InRuleLock
<1>7. ASSUME FullLeave
      PROVE  (TypeOK /\ StartingFits)'
  <2>1. Nothing \in Readings /\ starting' \in 0 .. MaxStarting + 1 /\ ~deferred'
    BY <1>0, <1>7, BoundsAssumption, ReadingFacts DEF FullLeave, ReleaseRefreshLock, TypeOK, StartingFits
  <2> QED
    BY <1>0, <1>7, <2>1 DEF FullLeave, ReleaseRefreshLock, TypeOK, StartingFits
<1>8. ASSUME NEW w \in WorldThreads, RequestWorld(w)
      PROVE  (TypeOK /\ StartingFits)'
  BY <1>0, <1>8, BoundsAssumption, ReadingFacts DEF RequestWorld, StartWorld, TypeOK, StartingFits, InWorldLoop, InRuleLoop, InRuleLock
<1>9. ASSUME NEW w \in WorldThreads, WorldLock(w)
      PROVE  (TypeOK /\ StartingFits)'
  BY <1>0, <1>9, BoundsAssumption, ReadingFacts DEF WorldLock, LockIsFree, TypeOK, StartingFits, InWorldLoop, InRuleLoop, InRuleLock
<1>10. ASSUME NEW w \in WorldThreads, WorldTake(w)
      PROVE  (TypeOK /\ StartingFits)'
  BY <1>0, <1>10, BoundsAssumption, ReadingFacts DEF WorldTake, TypeOK, StartingFits, InWorldLoop, InRuleLoop, InRuleLock
<1>11. ASSUME NEW w \in WorldThreads, WorldRelease(w)
      PROVE  (TypeOK /\ StartingFits)'
  <2>1. Nothing \in Readings /\ starting' \in 0 .. MaxStarting + 1 /\ ~deferred'
    BY <1>0, <1>11, BoundsAssumption, ReadingFacts DEF WorldRelease, ReleaseRefreshLock, TypeOK, StartingFits
  <2>2. faults' \in 0 .. MaxFaults
    BY <1>0, <1>11, BoundsAssumption DEF WorldRelease, Fault, TypeOK
  <2>3. world' \in [WorldThreads -> InWorldLoop \cup {"idle", "restart"}]
    BY <1>0, <1>11 DEF WorldRelease, TypeOK, InWorldLoop
  <2> QED
    BY <1>0, <1>11, <2>1, <2>2, <2>3 DEF WorldRelease, ReleaseRefreshLock, TypeOK, StartingFits
<1>12. ASSUME NEW w \in WorldThreads, WorldEnd(w)
      PROVE  (TypeOK /\ StartingFits)'
  BY <1>0, <1>12, BoundsAssumption, ReadingFacts DEF WorldEnd, TypeOK, StartingFits, InWorldLoop, InRuleLoop, InRuleLock
<1>13. ASSUME NEW w \in WorldThreads, WorldRestart(w)
      PROVE  (TypeOK /\ StartingFits)'
  BY <1>0, <1>13, BoundsAssumption, ReadingFacts DEF WorldRestart, TypeOK, StartingFits, InWorldLoop, InRuleLoop, InRuleLock
<1>14. ASSUME NEW r \in Rules, NEW g \in RuleThreads, HandleLog(r, g)
      PROVE  (TypeOK /\ StartingFits)'
  BY ZenonT(60), <1>0, <1>14, BoundsAssumption, ReadingFacts DEF HandleLog, TypeOK, StartingFits, InWorldLoop, InRuleLoop, InRuleLock
<1>15. ASSUME NEW g \in RuleThreads, RuleLock(g)
      PROVE  (TypeOK /\ StartingFits)'
  BY <1>0, <1>15, BoundsAssumption, ReadingFacts DEF RuleLock, LockIsFree, TypeOK, StartingFits, InWorldLoop, InRuleLoop, InRuleLock
<1>16. ASSUME NEW g \in RuleThreads, RuleTake(g)
      PROVE  (TypeOK /\ StartingFits)'
  BY <1>0, <1>16, BoundsAssumption, ReadingFacts DEF RuleTake, TypeOK, StartingFits, InWorldLoop, InRuleLoop, InRuleLock
<1>17. ASSUME NEW g \in RuleThreads, RuleQuery(g)
      PROVE  (TypeOK /\ StartingFits)'
  <2>1. Query(taken[g]) /\ taken[g] \in SUBSET Rules
    BY <1>0, <1>17 DEF RuleQuery, TypeOK
  <2>2. /\ answer' \in Readings /\ log' \subseteq Rules /\ faults' \in 0 .. MaxFaults
        /\ UNCHANGED <<actual, edits>>
    BY <1>0, <2>1, QueryFacts
  <2> QED
    BY <1>0, <1>17, <2>2 DEF RuleQuery, TypeOK, StartingFits, InWorldLoop, InRuleLoop, InRuleLock
<1>18. ASSUME NEW g \in RuleThreads, RuleStore(g)
      PROVE  (TypeOK /\ StartingFits)'
  <2>1. Stored(answer) \in [Rules -> Values] /\ Nothing \in Readings
    BY <1>0, ReadingFacts DEF TypeOK
  <2> QED
    BY <1>0, <1>18, <2>1 DEF RuleStore, StoreAnswer, TypeOK, StartingFits, InWorldLoop, InRuleLoop, InRuleLock
<1>19. ASSUME NEW g \in RuleThreads, RuleFails(g)
      PROVE  (TypeOK /\ StartingFits)'
  BY <1>0, <1>19, BoundsAssumption, ReadingFacts DEF RuleFails, Fault, TypeOK, StartingFits, InWorldLoop, InRuleLoop, InRuleLock
<1>20. ASSUME NEW g \in RuleThreads, RuleLeave(g)
      PROVE  (TypeOK /\ StartingFits)'
  BY <1>0, <1>20, BoundsAssumption, ReadingFacts DEF RuleLeave, TypeOK, StartingFits, InWorldLoop, InRuleLoop, InRuleLock
<1>21. ASSUME NEW g \in RuleThreads, RuleEnd(g)
      PROVE  (TypeOK /\ StartingFits)'
  BY <1>0, <1>21, BoundsAssumption, ReadingFacts DEF RuleEnd, TypeOK, StartingFits, InWorldLoop, InRuleLoop, InRuleLock
<1>22. ASSUME NEW g \in RuleThreads, RuleRestart(g)
      PROVE  (TypeOK /\ StartingFits)'
  BY <1>0, <1>22, BoundsAssumption, ReadingFacts DEF RuleRestart, TypeOK, StartingFits, InWorldLoop, InRuleLoop, InRuleLock
<1>23. ASSUME NEW s \in Setters, NEW r \in Rules, SetSend(s, r)
      PROVE  (TypeOK /\ StartingFits)'
  <2>1. /\ actual' \in [Rules -> Values] /\ log' \subseteq Rules /\ edits' \in 0 .. MaxEdits
        /\ [x \in {r} |-> edits + 1] \in Readings
    BY <1>0, <1>23, ChangeFacts, SentFacts DEF SetSend
  <2> QED
    BY <1>0, <1>23, <2>1 DEF SetSend, TypeOK, StartingFits
<1>24. ASSUME NEW s \in Setters, SetStore(s)
      PROVE  (TypeOK /\ StartingFits)'
  <2>1. /\ setter[s] \in Readings /\ setter'[s] = Nothing /\ Nothing \in Readings
        /\ Stored(setter[s]) \in [Rules -> Values]
    BY <1>0, <1>24, ReadingFacts DEF SetStore, TypeOK
  <2>2. cached' \in [Rules -> Values] /\ faults' \in 0 .. MaxFaults /\ setter' \in [Setters -> Readings]
    BY <1>0, <1>24, <2>1, BoundsAssumption DEF SetStore, Fault, TypeOK
  <2> QED
    BY <1>0, <1>24, <2>2 DEF SetStore, TypeOK, StartingFits
<1>25. ASSUME NEW r \in Rules, ChangedElsewhere(r)
      PROVE  (TypeOK /\ StartingFits)'
  BY <1>0, <1>25, ChangeFacts DEF ChangedElsewhere, TypeOK, StartingFits
<1>26. ASSUME Crash
      PROVE  (TypeOK /\ StartingFits)'
  <2>1. starting' \in 0 .. MaxStarting + 1 /\ crashes' \in 0 .. MaxCrashes
    BY <1>0, <1>26, BoundsAssumption DEF Crash, TypeOK
  <2>2. Nothing \in Readings
    BY ReadingFacts
  <2>3. /\ world' \in [WorldThreads -> InWorldLoop \cup {"idle", "restart"}]
        /\ rule' \in [RuleThreads -> InRuleLoop \cup {"idle", "restart"}]
        /\ taken' \in [RuleThreads -> SUBSET Rules] /\ setter' \in [Setters -> Readings]
    BY <1>26, <2>2 DEF Crash, Idle
  <2> QED
    BY <1>0, <1>26, <2>1, <2>2, <2>3 DEF Crash, TypeOK, StartingFits
<1>27. CASE UNCHANGED vars
  BY <1>0, <1>27 DEF vars, TypeOK, StartingFits, InWorldLoop, InRuleLoop, InRuleLock
<1> QED
  BY <1>1, <1>2, <1>3, <1>4, <1>5, <1>6, <1>7, <1>8, <1>9, <1>10, <1>11, <1>12, <1>13, <1>14, <1>15, <1>16, <1>17, <1>18, <1>19, <1>20, <1>21, <1>22, <1>23, <1>24, <1>25, <1>26, <1>27
     DEF Next, FullStep, WorldTimer, WorldStep, ReadLog, RuleStep

-----------------------------------------------------------------------------
(* The lock and the workers.                                               *)

LEMMA FitsInit == Init => LockFits /\ WorldFits /\ RulesFit
BY DEF Init, Idle, LockFits, WorldFits, RulesFit, InWorldLoop, InRuleLoop, InRuleLock

\* The lock is taken when it is free and released by the thread that has it
LEMMA LockKept == IInv /\ [Next]_vars => LockFits'
<1> SUFFICES ASSUME IInv, [Next]_vars
             PROVE  LockFits'
  OBVIOUS
<1>0. TypeOK /\ LockFits /\ WorldFits /\ RulesFit
  BY DEF IInv
<1> USE DEF fullVars, worldVars, ruleVars, bedrock
<1>1. ASSUME RequestFull
      PROVE  LockFits'
  BY <1>0, <1>1 DEF RequestFull, TypeOK, LockFits, WorldFits, RulesFit, InWorldLoop, InRuleLoop, InRuleLock
<1>2. ASSUME FullAcquire
      PROVE  LockFits'
  BY <1>0, <1>2 DEF FullAcquire, TypeOK, LockFits, WorldFits, RulesFit, InWorldLoop, InRuleLoop, InRuleLock
<1>3. ASSUME FullDefer
      PROVE  LockFits'
  BY <1>0, <1>3 DEF FullDefer, TypeOK, LockFits, WorldFits, RulesFit, InWorldLoop, InRuleLoop, InRuleLock
<1>4. ASSUME FullQuery
      PROVE  LockFits'
  BY <1>0, <1>4 DEF FullQuery, Query, Fault, TypeOK, LockFits, WorldFits, RulesFit, InWorldLoop, InRuleLoop, InRuleLock
<1>5. ASSUME FullStore
      PROVE  LockFits'
  BY <1>0, <1>5 DEF FullStore, StoreAnswer, TypeOK, LockFits, WorldFits, RulesFit, InWorldLoop, InRuleLoop, InRuleLock
<1>6. ASSUME FullFails
      PROVE  LockFits'
  BY <1>0, <1>6 DEF FullFails, Fault, TypeOK, LockFits, WorldFits, RulesFit, InWorldLoop, InRuleLoop, InRuleLock
<1>7. ASSUME FullLeave
      PROVE  LockFits'
  BY <1>0, <1>7 DEF FullLeave, ReleaseRefreshLock, TypeOK, LockFits, WorldFits, RulesFit, InWorldLoop, InRuleLoop, InRuleLock
<1>8. ASSUME NEW w \in WorldThreads, RequestWorld(w)
      PROVE  LockFits'
  BY <1>0, <1>8 DEF RequestWorld, StartWorld, TypeOK, LockFits, WorldFits, RulesFit, InWorldLoop, InRuleLoop, InRuleLock
<1>9. ASSUME NEW w \in WorldThreads, WorldLock(w)
      PROVE  LockFits'
  BY <1>0, <1>9 DEF WorldLock, LockIsFree, TypeOK, LockFits, WorldFits, RulesFit, InWorldLoop, InRuleLoop, InRuleLock
<1>10. ASSUME NEW w \in WorldThreads, WorldTake(w)
      PROVE  LockFits'
  BY <1>0, <1>10 DEF WorldTake, TypeOK, LockFits, WorldFits, RulesFit, InWorldLoop, InRuleLoop, InRuleLock
<1>11. ASSUME NEW w \in WorldThreads, WorldRelease(w)
      PROVE  LockFits'
  BY <1>0, <1>11 DEF WorldRelease, ReleaseRefreshLock, Fault, TypeOK, LockFits, WorldFits, RulesFit, InWorldLoop, InRuleLoop, InRuleLock
<1>12. ASSUME NEW w \in WorldThreads, WorldEnd(w)
      PROVE  LockFits'
  BY <1>0, <1>12 DEF WorldEnd, TypeOK, LockFits, WorldFits, RulesFit, InWorldLoop, InRuleLoop, InRuleLock
<1>13. ASSUME NEW w \in WorldThreads, WorldRestart(w)
      PROVE  LockFits'
  BY <1>0, <1>13 DEF WorldRestart, TypeOK, LockFits, WorldFits, RulesFit, InWorldLoop, InRuleLoop, InRuleLock
<1>14. ASSUME NEW r \in Rules, NEW g \in RuleThreads, HandleLog(r, g)
      PROVE  LockFits'
  BY <1>0, <1>14 DEF HandleLog, TypeOK, LockFits, WorldFits, RulesFit, InWorldLoop, InRuleLoop, InRuleLock
<1>15. ASSUME NEW g \in RuleThreads, RuleLock(g)
      PROVE  LockFits'
  BY <1>0, <1>15 DEF RuleLock, LockIsFree, TypeOK, LockFits, WorldFits, RulesFit, InWorldLoop, InRuleLoop, InRuleLock
<1>16. ASSUME NEW g \in RuleThreads, RuleTake(g)
      PROVE  LockFits'
  BY <1>0, <1>16 DEF RuleTake, TypeOK, LockFits, WorldFits, RulesFit, InWorldLoop, InRuleLoop, InRuleLock
<1>17. ASSUME NEW g \in RuleThreads, RuleQuery(g)
      PROVE  LockFits'
  BY <1>0, <1>17 DEF RuleQuery, Query, Fault, TypeOK, LockFits, WorldFits, RulesFit, InWorldLoop, InRuleLoop, InRuleLock
<1>18. ASSUME NEW g \in RuleThreads, RuleStore(g)
      PROVE  LockFits'
  BY <1>0, <1>18 DEF RuleStore, StoreAnswer, TypeOK, LockFits, WorldFits, RulesFit, InWorldLoop, InRuleLoop, InRuleLock
<1>19. ASSUME NEW g \in RuleThreads, RuleFails(g)
      PROVE  LockFits'
  BY <1>0, <1>19 DEF RuleFails, Fault, TypeOK, LockFits, WorldFits, RulesFit, InWorldLoop, InRuleLoop, InRuleLock
<1>20. ASSUME NEW g \in RuleThreads, RuleLeave(g)
      PROVE  LockFits'
  BY <1>0, <1>20 DEF RuleLeave, TypeOK, LockFits, WorldFits, RulesFit, InWorldLoop, InRuleLoop, InRuleLock
<1>21. ASSUME NEW g \in RuleThreads, RuleEnd(g)
      PROVE  LockFits'
  BY <1>0, <1>21 DEF RuleEnd, TypeOK, LockFits, WorldFits, RulesFit, InWorldLoop, InRuleLoop, InRuleLock
<1>22. ASSUME NEW g \in RuleThreads, RuleRestart(g)
      PROVE  LockFits'
  BY <1>0, <1>22 DEF RuleRestart, TypeOK, LockFits, WorldFits, RulesFit, InWorldLoop, InRuleLoop, InRuleLock
<1>23. ASSUME NEW s \in Setters, NEW r \in Rules, SetSend(s, r)
      PROVE  LockFits'
  BY <1>0, <1>23 DEF SetSend, Change, TypeOK, LockFits, WorldFits, RulesFit, InWorldLoop, InRuleLoop, InRuleLock
<1>24. ASSUME NEW s \in Setters, SetStore(s)
      PROVE  LockFits'
  BY <1>0, <1>24 DEF SetStore, Fault, TypeOK, LockFits, WorldFits, RulesFit, InWorldLoop, InRuleLoop, InRuleLock
<1>25. ASSUME NEW r \in Rules, ChangedElsewhere(r)
      PROVE  LockFits'
  BY <1>0, <1>25 DEF ChangedElsewhere, Change, TypeOK, LockFits, WorldFits, RulesFit, InWorldLoop, InRuleLoop, InRuleLock
<1>26. ASSUME Crash
      PROVE  LockFits'
  BY <1>0, <1>26 DEF Crash, Idle, TypeOK, LockFits, WorldFits, RulesFit, InWorldLoop, InRuleLoop, InRuleLock
<1>27. CASE UNCHANGED vars
  BY <1>0, <1>27 DEF vars, TypeOK, LockFits, WorldFits, RulesFit, InWorldLoop, InRuleLoop, InRuleLock
<1> QED
  BY <1>1, <1>2, <1>3, <1>4, <1>5, <1>6, <1>7, <1>8, <1>9, <1>10, <1>11, <1>12, <1>13, <1>14, <1>15, <1>16, <1>17, <1>18, <1>19, <1>20, <1>21, <1>22, <1>23, <1>24, <1>25, <1>26, <1>27
     DEF Next, FullStep, WorldTimer, WorldStep, ReadLog, RuleStep

\* A thread enters the loop of the world when none is there
LEMMA WorldKept == IInv /\ [Next]_vars => WorldFits'
<1> SUFFICES ASSUME IInv, [Next]_vars
             PROVE  WorldFits'
  OBVIOUS
<1>0. TypeOK /\ WorldFits
  BY DEF IInv
<1> USE DEF fullVars, worldVars, ruleVars, bedrock
<1>1. ASSUME RequestFull
      PROVE  WorldFits'
  BY <1>0, <1>1 DEF RequestFull, TypeOK, WorldFits, InWorldLoop
<1>2. ASSUME FullAcquire
      PROVE  WorldFits'
  BY <1>0, <1>2 DEF FullAcquire, TypeOK, WorldFits, InWorldLoop
<1>3. ASSUME FullDefer
      PROVE  WorldFits'
  BY <1>0, <1>3 DEF FullDefer, TypeOK, WorldFits, InWorldLoop
<1>4. ASSUME FullQuery
      PROVE  WorldFits'
  BY <1>0, <1>4 DEF FullQuery, Query, Fault, TypeOK, WorldFits, InWorldLoop
<1>5. ASSUME FullStore
      PROVE  WorldFits'
  BY <1>0, <1>5 DEF FullStore, StoreAnswer, TypeOK, WorldFits, InWorldLoop
<1>6. ASSUME FullFails
      PROVE  WorldFits'
  BY <1>0, <1>6 DEF FullFails, Fault, TypeOK, WorldFits, InWorldLoop
<1>7. ASSUME FullLeave
      PROVE  WorldFits'
  BY <1>0, <1>7 DEF FullLeave, ReleaseRefreshLock, TypeOK, WorldFits, InWorldLoop
<1>8. ASSUME NEW w \in WorldThreads, RequestWorld(w)
      PROVE  WorldFits'
  BY <1>0, <1>8 DEF RequestWorld, StartWorld, TypeOK, WorldFits, InWorldLoop
<1>9. ASSUME NEW w \in WorldThreads, WorldLock(w)
      PROVE  WorldFits'
  BY <1>0, <1>9 DEF WorldLock, LockIsFree, TypeOK, WorldFits, InWorldLoop
<1>10. ASSUME NEW w \in WorldThreads, WorldTake(w)
      PROVE  WorldFits'
  BY <1>0, <1>10 DEF WorldTake, TypeOK, WorldFits, InWorldLoop
<1>11. ASSUME NEW w \in WorldThreads, WorldRelease(w)
      PROVE  WorldFits'
  BY <1>0, <1>11 DEF WorldRelease, ReleaseRefreshLock, Fault, TypeOK, WorldFits, InWorldLoop
<1>12. ASSUME NEW w \in WorldThreads, WorldEnd(w)
      PROVE  WorldFits'
  BY <1>0, <1>12 DEF WorldEnd, TypeOK, WorldFits, InWorldLoop
<1>13. ASSUME NEW w \in WorldThreads, WorldRestart(w)
      PROVE  WorldFits'
  BY <1>0, <1>13 DEF WorldRestart, TypeOK, WorldFits, InWorldLoop
<1>14. ASSUME NEW r \in Rules, NEW g \in RuleThreads, HandleLog(r, g)
      PROVE  WorldFits'
  BY <1>0, <1>14 DEF HandleLog, TypeOK, WorldFits, InWorldLoop
<1>15. ASSUME NEW g \in RuleThreads, RuleLock(g)
      PROVE  WorldFits'
  BY <1>0, <1>15 DEF RuleLock, LockIsFree, TypeOK, WorldFits, InWorldLoop
<1>16. ASSUME NEW g \in RuleThreads, RuleTake(g)
      PROVE  WorldFits'
  BY <1>0, <1>16 DEF RuleTake, TypeOK, WorldFits, InWorldLoop
<1>17. ASSUME NEW g \in RuleThreads, RuleQuery(g)
      PROVE  WorldFits'
  BY <1>0, <1>17 DEF RuleQuery, Query, Fault, TypeOK, WorldFits, InWorldLoop
<1>18. ASSUME NEW g \in RuleThreads, RuleStore(g)
      PROVE  WorldFits'
  BY <1>0, <1>18 DEF RuleStore, StoreAnswer, TypeOK, WorldFits, InWorldLoop
<1>19. ASSUME NEW g \in RuleThreads, RuleFails(g)
      PROVE  WorldFits'
  BY <1>0, <1>19 DEF RuleFails, Fault, TypeOK, WorldFits, InWorldLoop
<1>20. ASSUME NEW g \in RuleThreads, RuleLeave(g)
      PROVE  WorldFits'
  BY <1>0, <1>20 DEF RuleLeave, TypeOK, WorldFits, InWorldLoop
<1>21. ASSUME NEW g \in RuleThreads, RuleEnd(g)
      PROVE  WorldFits'
  BY <1>0, <1>21 DEF RuleEnd, TypeOK, WorldFits, InWorldLoop
<1>22. ASSUME NEW g \in RuleThreads, RuleRestart(g)
      PROVE  WorldFits'
  BY <1>0, <1>22 DEF RuleRestart, TypeOK, WorldFits, InWorldLoop
<1>23. ASSUME NEW s \in Setters, NEW r \in Rules, SetSend(s, r)
      PROVE  WorldFits'
  BY <1>0, <1>23 DEF SetSend, Change, TypeOK, WorldFits, InWorldLoop
<1>24. ASSUME NEW s \in Setters, SetStore(s)
      PROVE  WorldFits'
  BY <1>0, <1>24 DEF SetStore, Fault, TypeOK, WorldFits, InWorldLoop
<1>25. ASSUME NEW r \in Rules, ChangedElsewhere(r)
      PROVE  WorldFits'
  BY <1>0, <1>25 DEF ChangedElsewhere, Change, TypeOK, WorldFits, InWorldLoop
<1>26. ASSUME Crash
      PROVE  WorldFits'
  BY <1>0, <1>26 DEF Crash, Idle, TypeOK, WorldFits, InWorldLoop
<1>27. CASE UNCHANGED vars
  BY <1>0, <1>27 DEF vars, TypeOK, WorldFits, InWorldLoop
<1> QED
  BY <1>1, <1>2, <1>3, <1>4, <1>5, <1>6, <1>7, <1>8, <1>9, <1>10, <1>11, <1>12, <1>13, <1>14, <1>15, <1>16, <1>17, <1>18, <1>19, <1>20, <1>21, <1>22, <1>23, <1>24, <1>25, <1>26, <1>27
     DEF Next, FullStep, WorldTimer, WorldStep, ReadLog, RuleStep

\* A thread enters the loop of the gamerules when none is there
LEMMA RulesKept == IInv /\ [Next]_vars => RulesFit'
<1> SUFFICES ASSUME IInv, [Next]_vars
             PROVE  RulesFit'
  OBVIOUS
<1>0. TypeOK /\ RulesFit
  BY DEF IInv
<1> USE DEF fullVars, worldVars, ruleVars, bedrock
<1>1. ASSUME RequestFull
      PROVE  RulesFit'
  BY <1>0, <1>1 DEF RequestFull, TypeOK, RulesFit, InRuleLoop, InRuleLock
<1>2. ASSUME FullAcquire
      PROVE  RulesFit'
  BY <1>0, <1>2 DEF FullAcquire, TypeOK, RulesFit, InRuleLoop, InRuleLock
<1>3. ASSUME FullDefer
      PROVE  RulesFit'
  BY <1>0, <1>3 DEF FullDefer, TypeOK, RulesFit, InRuleLoop, InRuleLock
<1>4. ASSUME FullQuery
      PROVE  RulesFit'
  BY <1>0, <1>4 DEF FullQuery, Query, Fault, TypeOK, RulesFit, InRuleLoop, InRuleLock
<1>5. ASSUME FullStore
      PROVE  RulesFit'
  BY <1>0, <1>5 DEF FullStore, StoreAnswer, TypeOK, RulesFit, InRuleLoop, InRuleLock
<1>6. ASSUME FullFails
      PROVE  RulesFit'
  BY <1>0, <1>6 DEF FullFails, Fault, TypeOK, RulesFit, InRuleLoop, InRuleLock
<1>7. ASSUME FullLeave
      PROVE  RulesFit'
  BY <1>0, <1>7 DEF FullLeave, ReleaseRefreshLock, TypeOK, RulesFit, InRuleLoop, InRuleLock
<1>8. ASSUME NEW w \in WorldThreads, RequestWorld(w)
      PROVE  RulesFit'
  BY <1>0, <1>8 DEF RequestWorld, StartWorld, TypeOK, RulesFit, InRuleLoop, InRuleLock
<1>9. ASSUME NEW w \in WorldThreads, WorldLock(w)
      PROVE  RulesFit'
  BY <1>0, <1>9 DEF WorldLock, LockIsFree, TypeOK, RulesFit, InRuleLoop, InRuleLock
<1>10. ASSUME NEW w \in WorldThreads, WorldTake(w)
      PROVE  RulesFit'
  BY <1>0, <1>10 DEF WorldTake, TypeOK, RulesFit, InRuleLoop, InRuleLock
<1>11. ASSUME NEW w \in WorldThreads, WorldRelease(w)
      PROVE  RulesFit'
  BY <1>0, <1>11 DEF WorldRelease, ReleaseRefreshLock, Fault, TypeOK, RulesFit, InRuleLoop, InRuleLock
<1>12. ASSUME NEW w \in WorldThreads, WorldEnd(w)
      PROVE  RulesFit'
  BY <1>0, <1>12 DEF WorldEnd, TypeOK, RulesFit, InRuleLoop, InRuleLock
<1>13. ASSUME NEW w \in WorldThreads, WorldRestart(w)
      PROVE  RulesFit'
  BY <1>0, <1>13 DEF WorldRestart, TypeOK, RulesFit, InRuleLoop, InRuleLock
<1>14. ASSUME NEW r \in Rules, NEW g \in RuleThreads, HandleLog(r, g)
      PROVE  RulesFit'
  BY <1>0, <1>14 DEF HandleLog, TypeOK, RulesFit, InRuleLoop, InRuleLock
<1>15. ASSUME NEW g \in RuleThreads, RuleLock(g)
      PROVE  RulesFit'
  BY <1>0, <1>15 DEF RuleLock, LockIsFree, TypeOK, RulesFit, InRuleLoop, InRuleLock
<1>16. ASSUME NEW g \in RuleThreads, RuleTake(g)
      PROVE  RulesFit'
  BY <1>0, <1>16 DEF RuleTake, TypeOK, RulesFit, InRuleLoop, InRuleLock
<1>17. ASSUME NEW g \in RuleThreads, RuleQuery(g)
      PROVE  RulesFit'
  BY <1>0, <1>17 DEF RuleQuery, Query, Fault, TypeOK, RulesFit, InRuleLoop, InRuleLock
<1>18. ASSUME NEW g \in RuleThreads, RuleStore(g)
      PROVE  RulesFit'
  BY <1>0, <1>18 DEF RuleStore, StoreAnswer, TypeOK, RulesFit, InRuleLoop, InRuleLock
<1>19. ASSUME NEW g \in RuleThreads, RuleFails(g)
      PROVE  RulesFit'
  BY <1>0, <1>19 DEF RuleFails, Fault, TypeOK, RulesFit, InRuleLoop, InRuleLock
<1>20. ASSUME NEW g \in RuleThreads, RuleLeave(g)
      PROVE  RulesFit'
  BY <1>0, <1>20 DEF RuleLeave, TypeOK, RulesFit, InRuleLoop, InRuleLock
<1>21. ASSUME NEW g \in RuleThreads, RuleEnd(g)
      PROVE  RulesFit'
  BY <1>0, <1>21 DEF RuleEnd, TypeOK, RulesFit, InRuleLoop, InRuleLock
<1>22. ASSUME NEW g \in RuleThreads, RuleRestart(g)
      PROVE  RulesFit'
  BY <1>0, <1>22 DEF RuleRestart, TypeOK, RulesFit, InRuleLoop, InRuleLock
<1>23. ASSUME NEW s \in Setters, NEW r \in Rules, SetSend(s, r)
      PROVE  RulesFit'
  BY <1>0, <1>23 DEF SetSend, Change, TypeOK, RulesFit, InRuleLoop, InRuleLock
<1>24. ASSUME NEW s \in Setters, SetStore(s)
      PROVE  RulesFit'
  BY <1>0, <1>24 DEF SetStore, Fault, TypeOK, RulesFit, InRuleLoop, InRuleLock
<1>25. ASSUME NEW r \in Rules, ChangedElsewhere(r)
      PROVE  RulesFit'
  BY <1>0, <1>25 DEF ChangedElsewhere, Change, TypeOK, RulesFit, InRuleLoop, InRuleLock
<1>26. ASSUME Crash
      PROVE  RulesFit'
  BY <1>0, <1>26 DEF Crash, Idle, TypeOK, RulesFit, InRuleLoop, InRuleLock
<1>27. CASE UNCHANGED vars
  BY <1>0, <1>27 DEF vars, TypeOK, RulesFit, InRuleLoop, InRuleLock
<1> QED
  BY <1>1, <1>2, <1>3, <1>4, <1>5, <1>6, <1>7, <1>8, <1>9, <1>10, <1>11, <1>12, <1>13, <1>14, <1>15, <1>16, <1>17, <1>18, <1>19, <1>20, <1>21, <1>22, <1>23, <1>24, <1>25, <1>26, <1>27
     DEF Next, FullStep, WorldTimer, WorldStep, ReadLog, RuleStep

-----------------------------------------------------------------------------
(* Theorems.                                                               *)

\* The inductive invariant
THEOREM Invariance == Spec => []IInv
<1>1. Init => IInv
  BY TypesInit, FitsInit DEF IInv
<1>2. IInv /\ [Next]_vars => IInv'
  BY TypesKept, LockKept, WorldKept, RulesKept DEF IInv
<1> QED
  BY <1>1, <1>2, PTL DEF Spec

\* What the threads, the repository and Bedrock hold keeps its type
THEOREM TypeCorrect == Spec => []TypeOK
<1>1. IInv => TypeOK
  BY DEF IInv
<1> QED
  BY <1>1, Invariance, PTL

\* A set with at most one member has one or none
LEMMA OneOrNone ==
    ASSUME NEW S, \A x, y \in S : x = y
    PROVE  Cardinality(S) = IF S = {} THEN 0 ELSE 1
<1>1. CASE S = {}
  BY <1>1, FS_EmptySet
<1>2. CASE S # {}
  <2>1. PICK x \in S : TRUE
    BY <1>2
  <2>2. S = {x}
    BY <2>1
  <2> QED
    BY <1>2, <2>2, FS_Singleton
<1> QED
  BY <1>1, <1>2

\* One thread at a time is in a critical section, the lock says which kind, and
\* log lines are dropped exactly while gamerules are queried (refresh,
\* refresh_world and the gamerule worker with their finally clauses)
THEOREM TheLockHasOneOwner == Spec => []LockIsOwned
<1>1. IInv => LockIsOwned
  <2> SUFFICES ASSUME IInv PROVE LockIsOwned
    OBVIOUS
  <2> DEFINE inWorld == {w \in WorldThreads : world[w] = "refresh"}
             inRules == {g \in RuleThreads : rule[g] \in InRuleLock}
  <2>1. LockFits /\ WorldFits /\ RulesFit
    BY DEF IInv
  <2>2. \A w, v \in inWorld : w = v
    BY <2>1 DEF WorldFits, InWorldLoop
  <2>3. \A g, h \in inRules : g = h
    BY <2>1 DEF RulesFit, InRuleLoop
  <2>4. Cardinality(inWorld) \in {0, 1} /\ Cardinality(inRules) \in {0, 1}
    BY <2>2, <2>3, OneOrNone
  <2>5. Cardinality(inWorld) <= 1 /\ Cardinality(inRules) <= 1
    BY <2>4
  <2>6. inWorld # {} <=> \E w \in WorldThreads : world[w] = "refresh"
    OBVIOUS
  <2>7. inRules # {} <=> \E g \in RuleThreads : rule[g] \in InRuleLock
    OBVIOUS
  <2> QED
    BY <2>1, <2>5, <2>6, <2>7 DEF LockIsOwned, LockFits
<1> QED
  BY <1>1, Invariance, PTL

\* Each flag stands for one worker, and what is pending has one or a thread that
\* is about to start one (refresh_world_async, refresh_gamerules_async)
THEOREM EveryRequestHasAServer == Spec => []NoRequestIsStranded
<1>1. IInv => NoRequestIsStranded
  <2> SUFFICES ASSUME IInv PROVE NoRequestIsStranded
    OBVIOUS
  <2> DEFINE worldWorkers == {w \in WorldThreads : world[w] \in InWorldLoop}
             ruleWorkers == {g \in RuleThreads : rule[g] \in InRuleLoop}
  <2>1. WorldFits /\ RulesFit
    BY DEF IInv
  <2>2. \A w, v \in worldWorkers : w = v
    BY <2>1 DEF WorldFits
  <2>3. \A g, h \in ruleWorkers : g = h
    BY <2>1 DEF RulesFit
  <2>4. worldWorkers = {} <=> ~worldRunning
    BY <2>1 DEF WorldFits
  <2>5. ruleWorkers = {} <=> ~rulesRunning
    BY <2>1 DEF RulesFit
  <2>6. Cardinality(worldWorkers) = IF worldRunning THEN 1 ELSE 0
    BY <2>2, <2>4, OneOrNone
  <2>7. Cardinality(ruleWorkers) = IF rulesRunning THEN 1 ELSE 0
    BY <2>3, <2>5, OneOrNone
  <2> QED
    BY <2>1, <2>6, <2>7 DEF NoRequestIsStranded, WorldFits, RulesFit
<1> QED
  BY <1>1, Invariance, PTL

-----------------------------------------------------------------------------
(* Failed gamerules.                                                       *)

\* What a step may do to the rules that were asked for
Requeued ==
    \A r \in Wanted \ Wanted' : \E g \in RuleThreads :
        r \in taken[g] /\ rule[g] = "leave" /\ rule'[g] = "sleep"

\* No step but the end of a query that came through lets go of a rule
LEMMA RequeuedStep == IInv /\ [Next]_vars => (crashes' = crashes => Requeued)
<1> SUFFICES ASSUME IInv, [Next]_vars
             PROVE  crashes' = crashes => Requeued
  OBVIOUS
<1>0. TypeOK /\ RulesFit
  BY DEF IInv
<1> USE DEF fullVars, worldVars, ruleVars, bedrock
<1>a. UNCHANGED <<rulesPending, taken>> => Requeued
  BY DEF Requeued, Wanted
<1>1. ASSUME RequestFull
      PROVE  crashes' = crashes => Requeued
  BY <1>1, <1>a DEF RequestFull
<1>2. ASSUME FullAcquire
      PROVE  crashes' = crashes => Requeued
  BY <1>2, <1>a DEF FullAcquire
<1>3. ASSUME FullDefer
      PROVE  crashes' = crashes => Requeued
  BY <1>3, <1>a DEF FullDefer
<1>4. ASSUME FullQuery
      PROVE  crashes' = crashes => Requeued
  BY <1>4, <1>a DEF FullQuery
<1>5. ASSUME FullStore
      PROVE  crashes' = crashes => Requeued
  BY <1>5, <1>a DEF FullStore
<1>6. ASSUME FullFails
      PROVE  crashes' = crashes => Requeued
  BY <1>6, <1>a DEF FullFails
<1>7. ASSUME FullLeave
      PROVE  crashes' = crashes => Requeued
  BY <1>7, <1>a DEF FullLeave
<1>8. ASSUME NEW w \in WorldThreads, RequestWorld(w)
      PROVE  crashes' = crashes => Requeued
  BY <1>8, <1>a DEF RequestWorld
<1>9. ASSUME NEW w \in WorldThreads, WorldLock(w)
      PROVE  crashes' = crashes => Requeued
  BY <1>9, <1>a DEF WorldLock
<1>10. ASSUME NEW w \in WorldThreads, WorldTake(w)
      PROVE  crashes' = crashes => Requeued
  BY <1>10, <1>a DEF WorldTake
<1>11. ASSUME NEW w \in WorldThreads, WorldRelease(w)
      PROVE  crashes' = crashes => Requeued
  BY <1>11, <1>a DEF WorldRelease
<1>12. ASSUME NEW w \in WorldThreads, WorldEnd(w)
      PROVE  crashes' = crashes => Requeued
  BY <1>12, <1>a DEF WorldEnd
<1>13. ASSUME NEW w \in WorldThreads, WorldRestart(w)
      PROVE  crashes' = crashes => Requeued
  BY <1>13, <1>a DEF WorldRestart
<1>14. ASSUME NEW r \in Rules, NEW g \in RuleThreads, HandleLog(r, g)
      PROVE  crashes' = crashes => Requeued
  <2>1. Wanted \subseteq Wanted'
    BY <1>14 DEF HandleLog, Wanted
  <2> QED
    BY <2>1 DEF Requeued
<1>15. ASSUME NEW g \in RuleThreads, RuleLock(g)
      PROVE  crashes' = crashes => Requeued
  BY <1>15, <1>a DEF RuleLock
<1>16. ASSUME NEW g \in RuleThreads, RuleTake(g)
      PROVE  crashes' = crashes => Requeued
  <2>1. taken[g] = {} /\ taken'[g] = rulesPending /\ \A h \in RuleThreads \ {g} : taken'[h] = taken[h]
    BY <1>0, <1>16 DEF RuleTake, TypeOK, RulesFit
  <2>2. Wanted \subseteq Wanted'
    BY <1>0, <2>1 DEF Wanted
  <2> QED
    BY <2>2 DEF Requeued
<1>17. ASSUME NEW g \in RuleThreads, RuleQuery(g)
      PROVE  crashes' = crashes => Requeued
  BY <1>17, <1>a DEF RuleQuery
<1>18. ASSUME NEW g \in RuleThreads, RuleStore(g)
      PROVE  crashes' = crashes => Requeued
  BY <1>18, <1>a DEF RuleStore
<1>19. ASSUME NEW g \in RuleThreads, RuleFails(g)
      PROVE  crashes' = crashes => Requeued
  <2>1. Wanted \subseteq Wanted'
    BY <1>19 DEF RuleFails, Wanted
  <2> QED
    BY <2>1 DEF Requeued
<1>20. ASSUME NEW g \in RuleThreads, RuleLeave(g)
      PROVE  crashes' = crashes => Requeued
  <2>1. /\ \A h \in RuleThreads \ {g} : taken'[h] = taken[h]
        /\ rulesPending' = rulesPending
        /\ rule[g] = "leave" => rule'[g] = "sleep"
    BY <1>0, <1>20 DEF RuleLeave, TypeOK
  <2>2. \A r \in Wanted \ Wanted' : r \in taken[g]
    BY <2>1 DEF Wanted
  <2>3. CASE rule[g] = "leave"
    BY <2>1, <2>2, <2>3 DEF Requeued
  <2>4. CASE rule[g] = "raised"
    <3>1. taken[g] \subseteq rulesPending'
      BY <1>0, <2>1, <2>4 DEF RulesFit
    <3>2. \A r \in taken[g] : r \in Wanted'
      BY <3>1 DEF Wanted
    <3> QED
      BY <2>2, <3>2 DEF Requeued
  <2> QED
    BY <1>20, <2>3, <2>4 DEF RuleLeave
<1>21. ASSUME NEW g \in RuleThreads, RuleEnd(g)
      PROVE  crashes' = crashes => Requeued
  BY <1>21, <1>a DEF RuleEnd
<1>22. ASSUME NEW g \in RuleThreads, RuleRestart(g)
      PROVE  crashes' = crashes => Requeued
  BY <1>22, <1>a DEF RuleRestart
<1>23. ASSUME NEW s \in Setters, NEW r \in Rules, SetSend(s, r)
      PROVE  crashes' = crashes => Requeued
  BY <1>23, <1>a DEF SetSend
<1>24. ASSUME NEW s \in Setters, SetStore(s)
      PROVE  crashes' = crashes => Requeued
  BY <1>24, <1>a DEF SetStore
<1>25. ASSUME NEW r \in Rules, ChangedElsewhere(r)
      PROVE  crashes' = crashes => Requeued
  BY <1>25, <1>a DEF ChangedElsewhere
<1>26. ASSUME Crash
      PROVE  crashes' = crashes => Requeued
  <2>1. crashes' # crashes
    BY <1>0, <1>26, BoundsAssumption DEF Crash, TypeOK
  <2> QED
    BY <2>1
<1>27. CASE UNCHANGED vars
  BY <1>27, <1>a DEF vars
<1> QED
  BY <1>1, <1>2, <1>3, <1>4, <1>5, <1>6, <1>7, <1>8, <1>9, <1>10, <1>11, <1>12, <1>13, <1>14, <1>15, <1>16, <1>17, <1>18, <1>19, <1>20, <1>21, <1>22, <1>23, <1>24, <1>25, <1>26, <1>27
     DEF Next, FullStep, WorldTimer, WorldStep, ReadLog, RuleStep

\* A rule that was asked for is only let go by a worker whose query and write
\* came through (the except clause of the gamerule worker)
THEOREM FailedRulesStayPending == Spec => FailedRulesAreRequeued
<1>1. IInv /\ [Next]_vars => [crashes' = crashes => Requeued]_vars
  BY RequeuedStep
<1>2. [][crashes' = crashes => Requeued]_vars <=> FailedRulesAreRequeued
  BY DEF FailedRulesAreRequeued, Requeued
<1> QED
  BY <1>1, <1>2, Invariance, PTL DEF Spec
===============================================================================
