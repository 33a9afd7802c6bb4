------------------------- MODULE RemoteHarvestProofs -------------------------
(***************************************************************************)
(* For every number of servers, tokens and threads: which triggers are     *)
(* removed before they fired, although an execution removes by key.        *)
(***************************************************************************)
EXTENDS RemoteHarvest, TLAPS

Stages == {"free", "list", "sensor", "unschedule", "hung"}

\* At the start nothing is registered.
LEMMA InitType == Init => TypeOK
BY BoundsAssumption DEF Init, TypeOK, Free

\* An execution goes on with another stage, or ends.
LEMMA ExecutionType ==
  ASSUME TypeOK, NEW t \in Threads,
         (\E stage \in Stages : Goto(t, stage)) \/ End(t)
  PROVE  /\ execution' \in [Threads -> [stage : Stages, token : rows \union {NoToken}]]
         /\ \A token \in Tokens : Executing(token)' => Executing(token)
<1>1. CASE End(t)
  BY <1>1, NoTokenAssumption DEF End, Free, TypeOK, Stages, Executing
<1>2. ASSUME NEW stage \in Stages, Goto(t, stage)
      PROVE  /\ execution' \in [Threads -> [stage : Stages, token : rows \union {NoToken}]]
             /\ \A u \in Threads : execution'[u].token = execution[u].token
  BY <1>2 DEF Goto, TypeOK, Stages
<1> QED BY <1>1, <1>2 DEF Executing

\* The steps of an execution end or go on in one of those ways.
LEMMA ExecuteGoes ==
  ASSUME NEW t \in Threads, Execute(t)
  PROVE  /\ (\E stage \in Stages : Goto(t, stage)) \/ End(t)
         /\ rows' = rows /\ time' = time /\ restarts' = restarts
         /\ \/ UNCHANGED triggers
            \/ /\ scheduled' = scheduled \ {execution[t].token}
               /\ unfired' = unfired \ {execution[t].token}
               /\ crowded' = crowded \ {execution[t].token}
<1>1. CASE GetList(t)
  BY <1>1 DEF GetList, Stages
<1>2. CASE GetSensor(t)
  BY <1>2 DEF GetSensor, Stages
<1>3. CASE Unschedule(t)
  BY <1>3 DEF Unschedule, Removed, Stages
<1> QED BY <1>1, <1>2, <1>3 DEF Execute

\* Every step keeps the types.
LEMMA NextType ==
  ASSUME TypeOK, [Next]_vars
  PROVE  TypeOK'
<1>1. CASE Tick
  BY <1>1, BoundsAssumption DEF Tick, TypeOK, triggers
<1>2. ASSUME NEW url \in Urls, PutServer(url) PROVE TypeOK'
  <2>1. <<url, time>> \in Tokens
    BY DEF TypeOK, Tokens
  <2>2. execution' \in [Threads -> [stage : Stages, token : rows' \union {NoToken}]]
    BY <1>2 DEF PutServer, TypeOK, Stages
  <2> QED BY <1>2, <2>1, <2>2 DEF PutServer, TypeOK, triggers, Stages
<1>3. ASSUME NEW token \in Tokens, HarvestServer(token) PROVE TypeOK'
  BY <1>3 DEF HarvestServer, TypeOK
<1>4. ASSUME NEW token \in Tokens, Fire(token) PROVE TypeOK'
  BY <1>4 DEF Fire, TypeOK
<1>5. ASSUME NEW t \in Threads, Execute(t) PROVE TypeOK'
  <2>1. execution' \in [Threads -> [stage : Stages, token : rows \union {NoToken}]]
    BY <1>5, ExecuteGoes, ExecutionType
  <2> QED BY <1>5, <2>1, ExecuteGoes DEF TypeOK, triggers, Stages
<1>6. CASE Restart
  BY <1>6, BoundsAssumption DEF Restart, TypeOK, Free
<1>7. CASE UNCHANGED vars
  BY <1>7 DEF vars, triggers, TypeOK
<1> QED BY <1>1, <1>2, <1>3, <1>4, <1>5, <1>6, <1>7 DEF Next

\* Whatever fires, hangs or restarts, only registered tokens have triggers and
\* executions, and what has not fired is scheduled.
THEOREM TypeCorrect == Spec => []TypeOK
<1>1. TypeOK /\ [Next]_vars => TypeOK'
  BY NextType
<1> QED BY InitType, <1>1, PTL DEF Spec

-----------------------------------------------------------------------------
\* A trigger that has neither fired nor was crowded has no execution that could
\* remove it.
AloneUntilFired == \A token \in unfired \ crowded : ~Executing(token)

\* Every step keeps AloneUntilFired.
LEMMA NextAlone ==
  ASSUME TypeOK, AloneUntilFired, [Next]_vars
  PROVE  AloneUntilFired'
<1>1. ASSUME NEW token \in Tokens, HarvestServer(token) PROVE AloneUntilFired'
  <2>1. \A other \in Tokens : Executing(other)' <=> Executing(other)
    BY <1>1 DEF HarvestServer, Executing
  <2>2. CASE Executing(token)
    BY <1>1, <2>1, <2>2 DEF HarvestServer, AloneUntilFired, TypeOK
  <2>3. CASE ~Executing(token)
    BY <1>1, <2>1, <2>3 DEF HarvestServer, AloneUntilFired, TypeOK
  <2> QED BY <2>2, <2>3
<1>2. ASSUME NEW token \in Tokens, Fire(token) PROVE AloneUntilFired'
  <2>1. \A other \in Tokens \ {token} : Executing(other)' => Executing(other)
    BY <1>2 DEF Fire, Executing, TypeOK
  <2>2. unfired' \ crowded' \subseteq (unfired \ crowded) \ {token}
    BY <1>2 DEF Fire
  <2> QED BY <2>1, <2>2 DEF AloneUntilFired, TypeOK
<1>3. ASSUME NEW t \in Threads, Execute(t) PROVE AloneUntilFired'
  <2>1. \A token \in Tokens : Executing(token)' => Executing(token)
    BY <1>3, ExecuteGoes, ExecutionType
  <2>2. unfired' \ crowded' \subseteq unfired \ crowded
    BY <1>3, ExecuteGoes DEF triggers
  <2> QED BY <2>1, <2>2 DEF AloneUntilFired, TypeOK
<1>4. CASE Restart
  BY <1>4 DEF Restart, AloneUntilFired
<1>5. CASE Tick \/ (\E url \in Urls : PutServer(url)) \/ UNCHANGED vars
  <2>1. unfired' = unfired /\ crowded' = crowded /\ execution' = execution
    BY <1>5 DEF Tick, PutServer, vars, triggers
  <2> QED BY <2>1 DEF AloneUntilFired, Executing
<1> QED BY <1>1, <1>2, <1>3, <1>4, <1>5 DEF Next

\* The trigger of a scheduled harvest is removed before it fired only by a restart, or
\* by an execution of its token that was under way when it was set: removal by key
\* does no other harm.
THEOREM RemovedByOverlap == Spec => UnfiredOnlyByOverlap
<1>1. Init => AloneUntilFired
  BY DEF Init, AloneUntilFired
<1>2. TypeOK /\ AloneUntilFired /\ [Next]_vars => AloneUntilFired'
  BY NextAlone
<1>3. ASSUME TypeOK, AloneUntilFired, [Next]_vars, NEW token \in unfired
      PROVE  token \in scheduled' \/ token \in crowded \/ restarts' # restarts
  <2>1. token \in scheduled
    BY <1>3 DEF TypeOK
  <2>2. ASSUME NEW t \in Threads, Execute(t)
        PROVE  token \in scheduled' \/ token \in crowded
    <3>1. token = execution[t].token => token \in crowded
      BY <1>3, <2>2 DEF AloneUntilFired, Executing
    <3> QED BY <2>1, <2>2, <3>1, ExecuteGoes DEF triggers
  <2>3. CASE Restart
    BY <1>3, <2>3 DEF Restart, TypeOK
  <2>4. CASE \/ Tick \/ (\E url \in Urls : PutServer(url))
             \/ \E other \in Tokens : HarvestServer(other) \/ Fire(other)
             \/ UNCHANGED vars
    BY <2>1, <2>4 DEF Tick, PutServer, HarvestServer, Fire, vars, triggers
  <2> QED BY <1>3, <2>2, <2>3, <2>4 DEF Next
<1>4. TypeOK /\ AloneUntilFired /\ [Next]_vars
        => [\A token \in unfired : token \in scheduled' \/ token \in crowded \/ restarts' # restarts]_vars
  BY <1>3
<1> QED BY <1>1, <1>2, <1>4, TypeCorrect, PTL DEF Spec, UnfiredOnlyByOverlap

=============================================================================
