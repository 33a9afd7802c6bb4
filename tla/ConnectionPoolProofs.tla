------------------------ MODULE ConnectionPoolProofs ------------------------
(***************************************************************************)
(* For every number of threads and of connections: the pool lends no       *)
(* connection twice, and gets back all that are closed.                    *)
(***************************************************************************)
EXTENDS ConnectionPool, TLAPS

\* What a step has to keep; AllReturned's first half follows from it.
Kept ==
  /\ TypeOK
  /\ OneUser
  /\ Partition
  /\ lost # {} => "unclosed" \in Calls

\* With no call running every connection is free or lost: a connection that is
\* neither would be held, and its holder's place in the method would show it.
LEMMA QuietReturned ==
  ASSUME Kept, \A t \in Threads : pc[t] = "idle"
  PROVE  free \union lost = Connections
<1>1. ASSUME NEW t \in Threads PROVE Mine(t) = {}
  <2>1. con[t] = NoConnection /\ inner[t] = NoConnection
    BY DEF Kept, Partition, Holding
  <2> QED BY <2>1 DEF Mine
<1>2. UNION {Mine(t) : t \in Threads} = {}
  BY <1>1
<1> QED BY <1>2 DEF Kept, TypeOK, Partition

\* The invariant of the model-checking run is the kept part and nothing more.
LEMMA KeptIsInductive == Kept <=> PoolInductive
<1>1. Kept => AllReturned
  BY QuietReturned DEF Kept, AllReturned
<1>2. AllReturned => (lost # {} => "unclosed" \in Calls)
  BY DEF AllReturned
<1> QED BY <1>1, <1>2 DEF Kept, PoolInductive

\* At the start every connection is free and no thread holds one.
LEMMA InitKept == Init => Kept
<1> SUFFICES ASSUME Init PROVE Kept
  OBVIOUS
<1>1. TypeOK
  BY DEF Init, TypeOK
<1>2. \A t \in Threads : Mine(t) = {}
  BY DEF Init, Mine
<1>3. OneUser /\ Partition
  BY <1>2 DEF Init, OneUser, Partition, Holding
<1> QED BY <1>1, <1>3 DEF Init, Kept

\* A connection that goes from the pool to one thread, in either role.
LEMMA TakeKeeps ==
  ASSUME Kept, NEW t \in Threads, TakeConnection(t) \/ TakeInner(t)
  PROVE  Kept'
<1>1. PICK c \in free :
        /\ free' = free \ {c}
        /\ \/ /\ con' = [con EXCEPT ![t] = c] /\ inner' = inner
              /\ pc[t] = "wait" /\ pc'[t] \in {"waitInner", "use"}
           \/ /\ inner' = [inner EXCEPT ![t] = c] /\ con' = con
              /\ pc[t] = "waitInner" /\ pc'[t] = "useInner"
        /\ \A u \in Threads \ {t} : pc'[u] = pc[u]
        /\ lost' = lost /\ call' = call
  BY DEF TakeConnection, TakeInner, Goto, Kept, TypeOK
<1>2. TypeOK'
  BY <1>1 DEF TakeConnection, TakeInner, Goto, Kept, TypeOK
<1>3. c \in Connections /\ c # NoConnection
  BY ConnectionAssumption DEF Kept, TypeOK
<1>4. Mine(t)' = Mine(t) \union {c}
  BY <1>1, <1>3 DEF Mine, Kept, TypeOK, Partition, Holding
<1>5. \A u \in Threads \ {t} : Mine(u)' = Mine(u)
  BY <1>1 DEF Mine, Kept, TypeOK
<1>6. \A u \in Threads : c \notin Mine(u)
  BY DEF Kept, OneUser
<1>7. OneUser'
  <2>1. \A u \in Threads : Mine(u)' \intersect free' = {}
    BY <1>1, <1>4, <1>5 DEF Kept, OneUser
  <2>2. \A u \in Threads : (con[u] = inner[u] => con[u] = NoConnection)'
    BY <1>1, <1>3, <1>6 DEF Kept, TypeOK, OneUser, Mine
  <2>3. \A u \in Threads : \A v \in Threads \ {u} : Mine(u)' \intersect Mine(v)' = {}
    BY <1>4, <1>5, <1>6 DEF Kept, OneUser
  <2> QED BY <2>1, <2>2, <2>3 DEF OneUser
<1>8. Partition'
  <2>1. \A u \in Threads : Mine(u)' \intersect (free \union lost)' = {}
    BY <1>1, <1>4, <1>5 DEF Kept, Partition
  <2>2. \A u \in Threads : (con[u] # NoConnection <=> pc[u] \in Holding)'
    BY <1>1, <1>3 DEF Kept, TypeOK, Partition, Holding
  <2>3. \A u \in Threads : (inner[u] # NoConnection <=> pc[u] = "useInner")'
    BY <1>1, <1>3 DEF Kept, TypeOK, Partition
  <2>4. (Connections \subseteq free \union lost \union UNION {Mine(u) : u \in Threads})'
    BY <1>1, <1>4, <1>5 DEF Kept, Partition
  <2>5. free' \intersect lost' = {}
    BY <1>1 DEF Kept, Partition
  <2> QED BY <2>1, <2>2, <2>3, <2>4, <2>5 DEF Partition
<1> QED BY <1>1, <1>2, <1>7, <1>8 DEF Kept

\* The outer connection leaves its thread, back to the pool or lost.
LEMMA LeaveKeeps ==
  ASSUME Kept, NEW t \in Threads, Close(t) \/ GiveUpInner(t) \/ ReturnUnclosed(t)
  PROVE  Kept'
<1> DEFINE c == con[t]
<1>1. /\ pc[t] \in {"use", "waitInner"} /\ pc'[t] = "idle"
      /\ \A u \in Threads \ {t} : pc'[u] = pc[u]
      /\ con' = [con EXCEPT ![t] = NoConnection]
      /\ inner' = inner /\ call' = call
      /\ \/ free' = free \union {c} /\ lost' = lost
         \/ free' = free /\ lost' = lost \union {c} /\ call[t] = "unclosed"
  BY DEF Close, GiveUpInner, ReturnUnclosed, Goto, Kept, TypeOK
<1>2. c \in Connections /\ c # NoConnection /\ inner[t] = NoConnection
  BY <1>1 DEF Kept, TypeOK, Partition, Holding
<1>3. TypeOK'
  BY <1>1, <1>2 DEF Close, GiveUpInner, ReturnUnclosed, Goto, Kept, TypeOK
<1>4. Mine(t) = {c} /\ Mine(t)' = {}
  BY <1>1, <1>2 DEF Mine, Kept, TypeOK
<1>5. \A u \in Threads \ {t} : Mine(u)' = Mine(u) /\ c \notin Mine(u)
  BY <1>1, <1>4 DEF Mine, Kept, TypeOK, OneUser
<1>6. c \notin free \union lost
  BY <1>4 DEF Kept, Partition
<1>7. OneUser'
  <2>1. \A u \in Threads : Mine(u)' \intersect free' = {}
    BY <1>1, <1>4, <1>5 DEF Kept, OneUser
  <2>2. \A u \in Threads : (con[u] = inner[u] => con[u] = NoConnection)'
    BY <1>1 DEF Kept, TypeOK, OneUser
  <2>3. \A u \in Threads : \A v \in Threads \ {u} : Mine(u)' \intersect Mine(v)' = {}
    BY <1>4, <1>5 DEF Kept, OneUser
  <2> QED BY <2>1, <2>2, <2>3 DEF OneUser
<1>8. Partition'
  <2>1. \A u \in Threads : Mine(u)' \intersect (free \union lost)' = {}
    BY <1>1, <1>4, <1>5 DEF Kept, Partition
  <2>2. \A u \in Threads : (con[u] # NoConnection <=> pc[u] \in Holding)'
    BY <1>1 DEF Kept, TypeOK, Partition, Holding
  <2>3. \A u \in Threads : (inner[u] # NoConnection <=> pc[u] = "useInner")'
    BY <1>1 DEF Kept, TypeOK, Partition
  <2>4. (Connections \subseteq free \union lost \union UNION {Mine(u) : u \in Threads})'
    <3> SUFFICES ASSUME NEW d \in Connections
                 PROVE  d \in free' \union lost' \/ \E u \in Threads : d \in Mine(u)'
      OBVIOUS
    <3>1. CASE d = c
      BY <3>1, <1>1
    <3>2. CASE d # c
      BY <3>2, <1>1, <1>4, <1>5 DEF Kept, Partition
    <3> QED BY <3>1, <3>2
  <2>5. free' \intersect lost' = {}
    BY <1>1, <1>6 DEF Kept, Partition
  <2> QED BY <2>1, <2>2, <2>3, <2>4, <2>5 DEF Partition
<1>9. lost' # {} => "unclosed" \in Calls
  BY <1>1 DEF Kept, TypeOK
<1> QED BY <1>3, <1>7, <1>8, <1>9 DEF Kept

\* The inner connection goes back while the thread still holds the outer one.
LEMMA CloseInnerKeeps ==
  ASSUME Kept, NEW t \in Threads, CloseInner(t)
  PROVE  Kept'
<1> DEFINE c == inner[t]
<1>1. /\ pc[t] = "useInner" /\ pc'[t] = "use"
      /\ \A u \in Threads \ {t} : pc'[u] = pc[u]
      /\ inner' = [inner EXCEPT ![t] = NoConnection]
      /\ con' = con /\ lost' = lost /\ call' = call
      /\ free' = free \union {c}
  BY DEF CloseInner, Goto, Kept, TypeOK
<1>2. c \in Connections /\ c # NoConnection /\ con[t] # NoConnection /\ con[t] # c
  BY <1>1 DEF Kept, TypeOK, OneUser, Partition, Holding
<1>3. TypeOK'
  BY <1>1, <1>2 DEF CloseInner, Goto, Kept, TypeOK
<1>4. Mine(t) = {con[t], c} /\ Mine(t)' = {con[t]}
  BY <1>1, <1>2 DEF Mine, Kept, TypeOK
<1>5. \A u \in Threads \ {t} : Mine(u)' = Mine(u) /\ c \notin Mine(u)
  BY <1>1, <1>4 DEF Mine, Kept, TypeOK, OneUser
<1>6. c \notin free \union lost
  BY <1>4 DEF Kept, Partition
<1>7. OneUser'
  <2>1. \A u \in Threads : Mine(u)' \intersect free' = {}
    BY <1>1, <1>2, <1>4, <1>5 DEF Kept, OneUser
  <2>2. \A u \in Threads : (con[u] = inner[u] => con[u] = NoConnection)'
    BY <1>1 DEF Kept, TypeOK, OneUser
  <2>3. \A u \in Threads : \A v \in Threads \ {u} : Mine(u)' \intersect Mine(v)' = {}
    BY <1>4, <1>5 DEF Kept, OneUser
  <2> QED BY <2>1, <2>2, <2>3 DEF OneUser
<1>8. Partition'
  <2>1. \A u \in Threads : Mine(u)' \intersect (free \union lost)' = {}
    BY <1>1, <1>2, <1>4, <1>5 DEF Kept, Partition
  <2>2. \A u \in Threads : (con[u] # NoConnection <=> pc[u] \in Holding)'
    BY <1>1 DEF Kept, TypeOK, Partition, Holding
  <2>3. \A u \in Threads : (inner[u] # NoConnection <=> pc[u] = "useInner")'
    BY <1>1 DEF Kept, TypeOK, Partition
  <2>4. (Connections \subseteq free \union lost \union UNION {Mine(u) : u \in Threads})'
    <3> SUFFICES ASSUME NEW d \in Connections
                 PROVE  d \in free' \union lost' \/ \E u \in Threads : d \in Mine(u)'
      OBVIOUS
    <3>1. CASE d = c
      BY <3>1, <1>1
    <3>2. CASE d # c
      BY <3>2, <1>1, <1>4, <1>5 DEF Kept, Partition
    <3> QED BY <3>1, <3>2
  <2>5. free' \intersect lost' = {}
    BY <1>1, <1>6 DEF Kept, Partition
  <2> QED BY <2>1, <2>2, <2>3, <2>4, <2>5 DEF Partition
<1> QED BY <1>1, <1>3, <1>7, <1>8 DEF Kept

\* A call that starts, or gives up before it holds anything.
LEMMA EmptyHandedKeeps ==
  ASSUME Kept, NEW t \in Threads, CallMethod(t) \/ GiveUp(t)
  PROVE  Kept'
<1>1. /\ pc[t] \notin Holding /\ pc'[t] \in {"idle", "wait"}
      /\ \A u \in Threads \ {t} : pc'[u] = pc[u]
      /\ free' = free /\ lost' = lost /\ con' = con /\ inner' = inner
  BY DEF CallMethod, GiveUp, Goto, Kept, TypeOK, Holding
<1>2. TypeOK'
  BY DEF CallMethod, GiveUp, Goto, Kept, TypeOK
<1>3. \A u \in Threads : Mine(u)' = Mine(u)
  BY <1>1 DEF Mine
<1>4. OneUser'
  BY <1>1, <1>3 DEF Kept, OneUser
<1>5. Partition'
  <2>1. \A u \in Threads : (con[u] # NoConnection <=> pc[u] \in Holding)'
    BY <1>1 DEF Kept, Partition, Holding
  <2>2. \A u \in Threads : (inner[u] # NoConnection <=> pc[u] = "useInner")'
    BY <1>1 DEF Kept, Partition, Holding
  <2> QED BY <1>1, <1>3, <2>1, <2>2 DEF Kept, Partition
<1> QED BY <1>1, <1>2, <1>4, <1>5 DEF Kept

\* Every step keeps the invariant, whichever thread takes it.
LEMMA StepKeeps == Kept /\ [Next]_vars => Kept'
<1> SUFFICES ASSUME Kept, [Next]_vars PROVE Kept'
  OBVIOUS
<1>1. CASE Next
  <2>1. PICK t \in Threads : CallMethod(t) \/ Step(t)
    BY <1>1 DEF Next
  <2>2. CASE CallMethod(t) \/ GiveUp(t)
    BY <2>2, EmptyHandedKeeps
  <2>3. CASE TakeConnection(t) \/ TakeInner(t)
    BY <2>3, TakeKeeps
  <2>4. CASE Close(t) \/ GiveUpInner(t) \/ ReturnUnclosed(t)
    BY <2>4, LeaveKeeps
  <2>5. CASE CloseInner(t)
    BY <2>5, CloseInnerKeeps
  <2> QED BY <2>1, <2>2, <2>3, <2>4, <2>5 DEF Step
<1>2. CASE UNCHANGED vars
  BY <1>2 DEF vars, Kept, TypeOK, OneUser, Partition, Mine
<1> QED BY <1>1, <1>2

\* The inductive invariant of the run holds of every behaviour of the pool.
THEOREM PoolInductiveHolds == Spec => []PoolInductive
<1>1. Spec => []Kept
  BY InitKept, StepKeeps, PTL DEF Spec
<1> QED BY <1>1, KeptIsInductive, PTL

\* However many threads share however few connections, none serves two calls.
THEOREM OneUserCorrect == Spec => []OneUser
<1>1. PoolInductive => OneUser
  BY DEF PoolInductive
<1> QED BY <1>1, PoolInductiveHolds, PTL

\* When no call runs, every connection but the unclosed ones is in the pool.
THEOREM AllReturnedCorrect == Spec => []AllReturned
<1>1. PoolInductive => AllReturned
  BY DEF PoolInductive
<1> QED BY <1>1, PoolInductiveHolds, PTL

=============================================================================
