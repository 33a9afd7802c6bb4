--------------------------- MODULE ConnectionPool ---------------------------
(***************************************************************************)
(* A pool of database connections and the DAO calls that use it: the       *)
(* commons-dbcp BasicDataSource behind PGConnectionPool, with at most      *)
(* MAXCON connections, and the threads that run DAO methods.  A method     *)
(*   - takes one connection and gives it back (try-with-resources),        *)
(*   - takes one and, while it holds it, a second one (addNewReference,    *)
(*     which calls getDatabaseSensorId), or                                *)
(*   - takes one and never closes it (every method of PGSQLUserAccountDAO, *)
(*     of which the REST resources reach getUserIDForToken).               *)
(* Guice gives every DAO it injects a pool of its own; the DAOs of one     *)
(* DAOFactory (user accounts, scripts, remote servers) share one.          *)
(*                                                                         *)
(* Statements are left out: whether they succeed or raise, the call closes *)
(* the same connections.                                                   *)
(***************************************************************************)

CONSTANTS
  Threads,       \* threads that call DAO methods
  Connections,   \* the MAXCON connections
  NoConnection,
  Calls,         \* kinds of methods the DAOs of this pool have
  Faults         \* TRUE if the database may refuse a connection

ASSUME CallsAssumption == Calls \subseteq {"single", "nested", "unclosed"}
ASSUME ConnectionAssumption == NoConnection \notin Connections
ASSUME FaultsAssumption == Faults \in BOOLEAN

VARIABLES
  free,   \* connections the pool can lend
  lost,   \* connections the pool lent and nobody refers to any more
  con,    \* the connection of a thread's call
  inner,  \* the connection of the method its call calls
  call,   \* kind of the call
  pc

vars == <<free, lost, con, inner, call, pc>>

Waiting == {"wait", "waitInner"}
Holding == {"use", "waitInner", "useInner"}

TypeOK ==
  /\ free \subseteq Connections
  /\ lost \subseteq Connections
  /\ con \in [Threads -> Connections \union {NoConnection}]
  /\ inner \in [Threads -> Connections \union {NoConnection}]
  /\ call \in [Threads -> Calls]
  /\ pc \in [Threads -> {"idle", "wait", "use", "waitInner", "useInner"}]

Init ==
  /\ free = Connections
  /\ lost = {}
  /\ con = [t \in Threads |-> NoConnection]
  /\ inner = [t \in Threads |-> NoConnection]
  /\ call \in [Threads -> Calls]
  /\ pc = [t \in Threads |-> "idle"]

Goto(t, label) == pc' = [pc EXCEPT ![t] = label]

-----------------------------------------------------------------------------
CallMethod(t) ==
  /\ pc[t] = "idle"
  /\ \E k \in Calls : call' = [call EXCEPT ![t] = k]
  /\ Goto(t, "wait")
  /\ UNCHANGED <<free, lost, con, inner>>

\* Mutant of NoneComes: a pool without maxWait.
WaitForEver == FALSE

\* getConnection() throws: maxWait is over and no connection came free, or the
\* database refuses a new connection.
NoneComes == free = {} \/ Faults

\* The first resource of the method's try block.
TakeConnection(t) ==
  /\ pc[t] = "wait"
  /\ \E c \in free :
       /\ free' = free \ {c}
       /\ con' = [con EXCEPT ![t] = c]
  /\ Goto(t, IF call[t] = "nested" THEN "waitInner" ELSE "use")
  /\ UNCHANGED <<lost, inner, call>>

GiveUp(t) ==
  /\ pc[t] = "wait"
  /\ NoneComes
  /\ Goto(t, "idle")
  /\ UNCHANGED <<free, lost, con, inner, call>>

\* Mutant of TakeInner: both methods keep their connection in one field.
ReplaceOuter(t) ==
  /\ pc[t] = "waitInner"
  /\ \E c \in free :
       /\ free' = free \ {c}
       /\ con' = [con EXCEPT ![t] = c]
  /\ Goto(t, "useInner")
  /\ UNCHANGED <<lost, inner, call>>

\* getDatabaseSensorId() asks the same pool for a connection of its own.
TakeInner(t) ==
  /\ pc[t] = "waitInner"
  /\ \E c \in free :
       /\ free' = free \ {c}
       /\ inner' = [inner EXCEPT ![t] = c]
  /\ Goto(t, "useInner")
  /\ UNCHANGED <<lost, con, call>>

\* Mutant of GiveUpInner: the outer connection is no resource of a try block.
LeaveOuterOpen(t) ==
  /\ pc[t] = "waitInner"
  /\ NoneComes
  /\ con' = [con EXCEPT ![t] = NoConnection]
  /\ Goto(t, "idle")
  /\ UNCHANGED <<free, lost, inner, call>>

\* The exception passes the outer try block, which closes its connection.
GiveUpInner(t) ==
  /\ pc[t] = "waitInner"
  /\ NoneComes
  /\ free' = free \union {con[t]}
  /\ con' = [con EXCEPT ![t] = NoConnection]
  /\ Goto(t, "idle")
  /\ UNCHANGED <<lost, inner, call>>

CloseInner(t) ==
  /\ pc[t] = "useInner"
  /\ free' = free \union {inner[t]}
  /\ inner' = [inner EXCEPT ![t] = NoConnection]
  /\ Goto(t, "use")
  /\ UNCHANGED <<lost, con, call>>

\* Mutant of Close: the caller keeps a result set on the closed connection.
UseAfterClose(t) ==
  /\ pc[t] = "use"
  /\ call[t] # "unclosed"
  /\ free' = free \union {con[t]}
  /\ Goto(t, "idle")
  /\ UNCHANGED <<lost, con, inner, call>>

\* The try block ends, normally or by an exception.
Close(t) ==
  /\ pc[t] = "use"
  /\ call[t] # "unclosed"
  /\ free' = free \union {con[t]}
  /\ con' = [con EXCEPT ![t] = NoConnection]
  /\ Goto(t, "idle")
  /\ UNCHANGED <<lost, inner, call>>

\* PGSQLUserAccountDAO returns its result; its connection is no resource of a
\* try block and no close() follows.  The pool takes it for active for ever:
\* removeAbandoned is not set.
ReturnUnclosed(t) ==
  /\ pc[t] = "use"
  /\ call[t] = "unclosed"
  /\ lost' = lost \union {con[t]}
  /\ con' = [con EXCEPT ![t] = NoConnection]
  /\ Goto(t, "idle")
  /\ UNCHANGED <<free, inner, call>>

-----------------------------------------------------------------------------
Step(t) ==
  \/ TakeConnection(t) \/ GiveUp(t)
  \/ TakeInner(t) \/ GiveUpInner(t)
  \/ CloseInner(t) \/ Close(t) \/ ReturnUnclosed(t)

Next == \E t \in Threads : CallMethod(t) \/ Step(t)

\* A wait ends with a connection or after maxWait; a statement ends.  Nobody
\* has to call a method.
Fairness == \A t \in Threads : WF_vars(Step(t))

Spec == Init /\ [][Next]_vars
FairSpec == Spec /\ Fairness

-----------------------------------------------------------------------------
(* Properties *)

\* The connections of a thread's call.
Mine(t) == {con[t], inner[t]} \ {NoConnection}

\* No connection serves two calls, nor the call and the method it calls, and the
\* pool lends none that is in use, however calls nest and give up.
OneUser ==
  \A t \in Threads :
    /\ Mine(t) \intersect free = {}
    /\ con[t] = inner[t] => con[t] = NoConnection
    /\ \A u \in Threads \ {t} : Mine(t) \intersect Mine(u) = {}

\* When no call runs, every connection is back, those of calls that gave up in
\* the middle too; only methods that do not close theirs keep any.
AllReturned ==
  /\ (\A t \in Threads : pc[t] = "idle") => free \union lost = Connections
  /\ lost # {} => "unclosed" \in Calls

\* The inductive invariant behind both: a connection is free, lost, or held by
\* the one call whose place in the method says that it holds one.
Partition ==
  /\ free \intersect lost = {}
  /\ \A t \in Threads :
       /\ Mine(t) \intersect (free \union lost) = {}
       /\ con[t] # NoConnection <=> pc[t] \in Holding
       /\ inner[t] # NoConnection <=> pc[t] = "useInner"
  /\ Connections \subseteq free \union lost \union UNION {Mine(t) : t \in Threads}

PoolInductive == TypeOK /\ OneUser /\ AllReturned /\ Partition

\* Calls that hold a connection and wait for a second one do not wait for each
\* other for ever: every call ends.
EveryCallEnds == \A t \in Threads : pc[t] # "idle" ~> pc[t] = "idle"

\* A pool without a free connection gets one back, unless the methods that do not
\* close theirs have used all of them up.
BusyPoolRecovers == free = {} ~> free # {} \/ lost = Connections

=============================================================================
