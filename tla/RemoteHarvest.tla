---------------------------- MODULE RemoteHarvest ----------------------------
(***************************************************************************)
(* Harvesting of other servers: HarvestResource registers the URL of a     *)
(* server under a token and, on demand, schedules a RemoteHarvestJob with  *)
(* a trigger that fires every ten seconds until the job unschedules it.    *)
(*                                                                         *)
(* Quartz, external, runs an execution in one of its threads each time a   *)
(* trigger fires, also while another execution of the job runs.  A trigger *)
(* and its job are known by keys made of the token and nothing else; they  *)
(* live in memory, the table of servers does not.                          *)
(*                                                                         *)
(* The field dao of HarvestResource is never assigned, so that the job has *)
(* no DAO, and the first sensor that a server describes ends the execution *)
(* in a NullPointerException, as does a body that is no list of numbers.   *)
(* Of an answer the model keeps which of these it is.                      *)
(***************************************************************************)
EXTENDS Naturals, FiniteSets

CONSTANTS
  Urls,         \* of remote servers
  Answers,      \* how the server at each URL may answer
  Threads,      \* the threads of Quartz
  NoToken,
  MaxTime,      \* bound on the clock
  MaxRestarts   \* bound on restarts

\* [], a list of identifiers, no such list, an IOException, and none ever: the client
\* has no timeout.
Kinds == {"noSensors", "sensors", "garbage", "failure", "silence"}

\* The token is a hash of the URL and the time of its registration.
Tokens == Urls \X (1 .. MaxTime)

ASSUME AnswersAssumption == Answers \in [Urls -> SUBSET Kinds]
ASSUME BoundsAssumption == MaxTime \in Nat \ {0} /\ MaxRestarts \in Nat
ASSUME NoTokenAssumption == NoToken \notin Tokens
ASSUME ThreadsAssumption == IsFiniteSet(Threads)

VARIABLES
  rows,        \* tokens in the table remoteHarvestSensor
  time,
  scheduled,   \* tokens that have a trigger
  execution,   \* what each thread executes
  restarts,
  (* History. *)
  unfired,     \* triggers that have not fired
  crowded      \* triggers set while an execution of their token was under way

triggers == <<scheduled, unfired, crowded>>
vars == <<rows, time, triggers, execution, restarts>>

Free == [stage |-> "free", token |-> NoToken]

TypeOK ==
  /\ rows \subseteq Tokens
  /\ time \in 1 .. MaxTime
  /\ scheduled \subseteq rows
  /\ execution \in [Threads -> [stage : {"free", "list", "sensor", "unschedule", "hung"},
                                token : rows \union {NoToken}]]
  /\ restarts \in 0 .. MaxRestarts
  /\ unfired \subseteq scheduled
  /\ crowded \subseteq scheduled

Init ==
  /\ rows = {}
  /\ time = 1
  /\ scheduled = {}
  /\ execution = [t \in Threads |-> Free]
  /\ restarts = 0
  /\ unfired = {}
  /\ crowded = {}

-----------------------------------------------------------------------------
(* HarvestResource *)

Tick ==
  /\ time < MaxTime
  /\ time' = time + 1
  /\ UNCHANGED <<rows, triggers, execution, restarts>>

\* putServer().  The client is given the token of any row of the URL, or "null" if a
\* statement fails; which one is left out.
PutServer(url) ==
  /\ rows' = rows \union {<<url, time>>}
  /\ UNCHANGED <<time, triggers, execution, restarts>>

Executing(token) == \E t \in Threads : execution[t].token = token

\* harvestServer(): nothing is scheduled for a token that is in no row, nor for one
\* whose keys are taken.
HarvestServer(token) ==
  /\ token \in rows
  /\ token \notin scheduled
  /\ scheduled' = scheduled \union {token}
  /\ unfired' = unfired \union {token}
  /\ crowded' = IF Executing(token) THEN crowded \union {token} ELSE crowded
  /\ UNCHANGED <<rows, time, execution, restarts>>

-----------------------------------------------------------------------------
(* RemoteHarvestJob *)

\* The trigger comes to a free thread.
Fire(token) ==
  /\ token \in scheduled
  /\ \E t \in Threads :
       /\ execution[t] = Free
       /\ execution' = [execution EXCEPT ![t] = [stage |-> "list", token |-> token]]
  /\ unfired' = unfired \ {token}
  /\ UNCHANGED <<rows, time, scheduled, crowded, restarts>>

Serving(t) == Answers[execution[t].token[1]]

Goto(t, stage) == execution' = [execution EXCEPT ![t].stage = stage]
End(t) == execution' = [execution EXCEPT ![t] = Free]

\* Mutant of GetList: an error of the request ends the execution like any other.
GetListOrDie(t) ==
  /\ execution[t].stage = "list"
  /\ \/ "noSensors" \in Serving(t) /\ Goto(t, "unschedule")
     \/ "sensors" \in Serving(t) /\ Goto(t, "sensor")
     \/ {"garbage", "failure"} \intersect Serving(t) # {} /\ End(t)
     \/ "silence" \in Serving(t) /\ Goto(t, "hung")
  /\ UNCHANGED <<rows, time, triggers, restarts>>

\* GET .../sensors
GetList(t) ==
  /\ execution[t].stage = "list"
  /\ \/ {"noSensors", "failure"} \intersect Serving(t) # {} /\ Goto(t, "unschedule")
     \/ "sensors" \in Serving(t) /\ Goto(t, "sensor")
     \/ "garbage" \in Serving(t) /\ End(t)
     \/ "silence" \in Serving(t) /\ Goto(t, "hung")
  /\ UNCHANGED <<rows, time, triggers, restarts>>

\* Mutant of GetSensor: after an exception the job tries again.
TryAgain(t) ==
  /\ execution[t].stage = "sensor"
  /\ \/ Goto(t, "list")
     \/ "failure" \in Serving(t) /\ Goto(t, "unschedule")
     \/ "silence" \in Serving(t) /\ Goto(t, "hung")
  /\ UNCHANGED <<rows, time, triggers, restarts>>

\* GET .../sensors/id, and the insertion without a DAO.
GetSensor(t) ==
  /\ execution[t].stage = "sensor"
  /\ \/ End(t)
     \/ "failure" \in Serving(t) /\ Goto(t, "unschedule")
     \/ "silence" \in Serving(t) /\ Goto(t, "hung")
  /\ UNCHANGED <<rows, time, triggers, restarts>>

\* Mutant of Removed: the key is the server's URL.
RemovedOfServer(token) == {other \in Tokens : other[1] = token[1]}

\* The triggers that an execution for a token removes.
Removed(token) == {token}

\* unscheduleJob() at the end of execute(): by key, also if the trigger is a later one.
Unschedule(t) ==
  /\ execution[t].stage = "unschedule"
  /\ scheduled' = scheduled \ Removed(execution[t].token)
  /\ unfired' = unfired \ Removed(execution[t].token)
  /\ crowded' = crowded \ Removed(execution[t].token)
  /\ End(t)
  /\ UNCHANGED <<rows, time, restarts>>

-----------------------------------------------------------------------------
\* Triggers and executions are gone.
Restart ==
  /\ restarts < MaxRestarts
  /\ restarts' = restarts + 1
  /\ scheduled' = {}
  /\ unfired' = {}
  /\ crowded' = {}
  /\ execution' = [t \in Threads |-> Free]
  /\ UNCHANGED <<rows, time>>

Execute(t) == GetList(t) \/ GetSensor(t) \/ Unschedule(t)

Next ==
  \/ Tick
  \/ \E url \in Urls : PutServer(url)
  \/ \E token \in Tokens : HarvestServer(token)
  \/ \E token \in Tokens : Fire(token)
  \/ \E t \in Threads : Execute(t)
  \/ Restart

\* Threads run on, a server that is not silent answers, and of the triggers that wait
\* for a thread Quartz takes the one whose time came first.
Fairness ==
  /\ \A token \in Tokens : SF_vars(Fire(token))
  /\ \A t \in Threads : WF_vars(Execute(t))

Spec == Init /\ [][Next]_vars
FairSpec == Spec /\ Fairness

-----------------------------------------------------------------------------
(* Properties *)

AllHung == \A t \in Threads : execution[t].stage = "hung"

\* A scheduled harvest is unscheduled before it began only by a restart, or if it was
\* scheduled while an execution of its token was still under way.
UnfiredOnlyByOverlap ==
  [][\A token \in unfired : token \in scheduled' \/ token \in crowded \/ restarts' # restarts]_vars

\* Every scheduled harvest begins or is unscheduled, although jobs that end in an
\* exception fire for ever, unless silent servers hold all threads.
HarvestBegins == \A token \in Tokens : token \in unfired ~> token \notin unfired \/ AllHung

\* The harvest of a server that has no sensors or is down comes to its end, though it
\* may be silent now and then, unless silent servers hold all threads.
FruitlessHarvestEnds ==
  \A token \in Tokens :
    Answers[token[1]] \intersect {"sensors", "garbage"} = {} =>
      (token \in scheduled ~> token \notin scheduled \/ AllHung)

=============================================================================
