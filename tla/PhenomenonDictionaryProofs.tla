---------------------- MODULE PhenomenonDictionaryProofs ----------------------
(***************************************************************************)
(* The safety of PhenomenonDictionary, for any requests, definitions,      *)
(* packaged documents, disk errors and restarts.                           *)
(***************************************************************************)
EXTENDS PhenomenonDictionary, SequenceTheorems, TLAPS

-----------------------------------------------------------------------------
(* Lists without repetition *)

\* A new entry at the end of a list without repetitions.
LEMMA AppendKeepsInjective ==
  ASSUME NEW S, NEW s \in Seq(S), NEW e \in S, IsInjective(s), ~Contains(s, e)
  PROVE  Append(s, e) \in Seq(S) /\ IsInjective(Append(s, e))
<1> DEFINE t == Append(s, e)
<1>1. t \in Seq(S) /\ Len(t) = Len(s) + 1 /\ Len(s) \in Nat
  OBVIOUS
<1>2. DOMAIN t = 1 .. Len(s) + 1 /\ DOMAIN s = 1 .. Len(s)
  OBVIOUS
<1>3. \A i \in 1 .. Len(s) : t[i] = s[i] /\ t[i] # e
  BY DEF Contains
<1>4. t[Len(s) + 1] = e
  OBVIOUS
<1>5. ASSUME NEW i \in DOMAIN t, NEW j \in DOMAIN t, t[i] = t[j]
      PROVE  i = j
  <2>1. CASE i \in 1 .. Len(s) /\ j \in 1 .. Len(s)
    BY <1>2, <1>3, <1>5, <2>1 DEF IsInjective
  <2>2. CASE i = Len(s) + 1 \/ j = Len(s) + 1
    BY <1>1, <1>2, <1>3, <1>4, <1>5, <2>2
  <2> QED BY <1>1, <1>2, <2>1, <2>2
<1> QED BY <1>1, <1>5 DEF IsInjective

\* The one place of an entry is the one that RemoveFirst takes out.
LEMMA RemoveFirstOfOne ==
  ASSUME NEW S, NEW s \in Seq(S), NEW e \in S, IsInjective(s), Contains(s, e)
  PROVE  \E i \in 1 .. Len(s) : RemoveFirst(s, e) = RemoveAt(s, i)
<1>1. PICK i \in 1 .. Len(s) : s[i] = e
  BY DEF Contains
<1> DEFINE I == {k \in 1 .. Len(s) : s[k] = e}
<1>2. I = {i}
  BY <1>1 DEF IsInjective
<1>3. Min(I) = i
  BY <1>1, <1>2 DEF Min
<1>4. SelectInSeq(s, LAMBDA v : v = e) = Min(I)
  BY <1>2 DEF SelectInSeq
<1>5. RemoveFirst(s, e) = RemoveAt(s, i)
  BY <1>1, <1>3, <1>4 DEF RemoveFirst
<1> QED BY <1>5

\* Taking out an entry leaves a list without repetitions.
LEMMA RemoveKeepsInjective ==
  ASSUME NEW S, NEW s \in Seq(S), NEW e \in S, IsInjective(s), Contains(s, e)
  PROVE  RemoveFirst(s, e) \in Seq(S) /\ IsInjective(RemoveFirst(s, e))
<1>1. PICK i \in 1 .. Len(s) : RemoveFirst(s, e) = RemoveAt(s, i)
  BY RemoveFirstOfOne
<1> DEFINE a == SubSeq(s, 1, i - 1)
           b == SubSeq(s, i + 1, Len(s))
           t == a \o b
           old(k) == IF k < i THEN k ELSE k + 1
<1>2. Len(s) \in Nat /\ i \in Nat /\ i >= 1 /\ i <= Len(s) /\ DOMAIN s = 1 .. Len(s)
  OBVIOUS
<1>3. a \in Seq(S) /\ Len(a) = i - 1 /\ \A k \in 1 .. i - 1 : a[k] = s[k]
  <2>1. \A k \in 1 .. i - 1 : s[k] \in S
    BY <1>2
  <2>2. /\ a \in Seq(S)
        /\ Len(a) = IF 1 <= i - 1 THEN i - 1 - 1 + 1 ELSE 0
        /\ \A k \in 1 .. i - 1 - 1 + 1 : a[k] = s[1 + k - 1]
    BY <1>2, <2>1, SubSeqProperties
  <2> QED BY <1>2, <2>2
<1>4. b \in Seq(S) /\ Len(b) = Len(s) - i /\ \A k \in 1 .. Len(s) - i : b[k] = s[k + i]
  <2>1. \A k \in i + 1 .. Len(s) : s[k] \in S
    BY <1>2
  <2>2. /\ b \in Seq(S)
        /\ Len(b) = IF i + 1 <= Len(s) THEN Len(s) - (i + 1) + 1 ELSE 0
        /\ \A k \in 1 .. Len(s) - (i + 1) + 1 : b[k] = s[i + 1 + k - 1]
    BY <1>2, <2>1, SubSeqProperties
  <2> HIDE DEF b
  <2>3. Len(s) - (i + 1) + 1 = Len(s) - i
    BY <1>2
  <2>4. ASSUME NEW k \in 1 .. Len(s) - i PROVE b[k] = s[k + i]
    <3>1. i + 1 + k - 1 = k + i
      BY <1>2
    <3>2. k \in 1 .. Len(s) - (i + 1) + 1
      BY <1>2
    <3>3. b[k] = s[i + 1 + k - 1]
      BY ONLY <2>2, <3>2, Zenon
    <3> QED BY <3>1, <3>3
  <2>5. Len(b) = Len(s) - i
    <3>1. Len(b) = IF i + 1 <= Len(s) THEN Len(s) - (i + 1) + 1 ELSE 0
      BY <2>2
    <3>2. CASE i + 1 <= Len(s)
      BY <2>3, <3>1, <3>2
    <3>3. CASE ~(i + 1 <= Len(s))
      <4>1. Len(b) = 0
        BY <3>1, <3>3
      <4>2. Len(s) - i = 0
        <5>1. Len(s) \in Int /\ i \in Int /\ i <= Len(s)
          BY <1>2
        <5> QED BY <5>1, <3>3
      <4> QED BY <1>2, <4>1, <4>2
    <3> QED BY <3>2, <3>3
  <2> QED BY <2>2, <2>4, <2>5
<1>5. /\ t \in Seq(S) /\ Len(t) = Len(s) - 1 /\ DOMAIN t = 1 .. Len(s) - 1
      /\ \A k \in 1 .. Len(s) - 1 : t[k] = IF k <= i - 1 THEN a[k] ELSE b[k - (i - 1)]
  <2>1. /\ t \in Seq(S)
        /\ Len(t) = Len(a) + Len(b)
        /\ \A k \in 1 .. Len(a) + Len(b) : t[k] = IF k <= Len(a) THEN a[k] ELSE b[k - Len(a)]
    BY <1>3, <1>4, ConcatProperties
  <2> HIDE DEF a, b, t
  <2> QED BY <1>2, <1>3, <1>4, <2>1
<1>6. ASSUME NEW k \in 1 .. Len(s) - 1
      PROVE  t[k] = s[old(k)] /\ old(k) \in 1 .. Len(s)
  <2> HIDE DEF a, b, t
  <2>1. CASE k < i
    BY <1>2, <1>3, <1>5, <2>1
  <2>2. CASE ~(k < i)
    <3>1. k - (i - 1) \in 1 .. Len(s) - i /\ k - (i - 1) + i = k + 1
      BY <1>2, <2>2
    <3>2. t[k] = b[k - (i - 1)]
      BY <1>2, <1>5, <2>2
    <3> QED BY <1>2, <1>4, <2>2, <3>1, <3>2
  <2> QED BY <2>1, <2>2
<1>7. ASSUME NEW j \in 1 .. Len(s) - 1, NEW k \in 1 .. Len(s) - 1, t[j] = t[k]
      PROVE  j = k
  <2> HIDE DEF a, b, t
  <2>1. old(j) = old(k)
    BY <1>2, <1>6, <1>7 DEF IsInjective
  <2> QED BY <1>2, <2>1
<1>8. IsInjective(t)
  <2> HIDE DEF a, b, t
  <2> QED BY <1>5, <1>7 DEF IsInjective
<1> QED BY <1>1, <1>5, <1>8 DEF RemoveAt

-----------------------------------------------------------------------------
(* The invariant *)

\* Whoever is in a synchronized method holds the monitor, and nobody else.
MonitorHeld == \A r \in Requests : pc[r] \in Critical <=> monitor = r

\* A request at work was made.
CallMade == \A r \in Requests : pc[r] # "idle" => call[r] \in Calls

\* What a writer is about to insert was unknown when it looked, and still is: the
\* list changes under the monitor only.
StillUnknown ==
  \A r \in Requests : pc[r] \in {"backup", "change"} /\ call[r].op = "insert" => ~Known(r)

\* The list has no repetitions, and the document, where there is one, is the list.
Twins == IsInjective(list) /\ (dictionary = Nothing \/ dictionary = list)

\* Past the backup, a writer may destroy the file.
SafeToWrite ==
  BackupCount > 0 /\ version # Nothing =>
    \A r \in Requests : pc[r] \in {"change", "save", "write"} => version \in backups \/ unbacked

Inductive ==
  TypeOK /\ MonitorHeld /\ CallMade /\ StillUnknown /\ Twins /\ SafeToWrite /\ LatestVersionOnDisk

\* The first state, with or without a packaged document.
LEMMA InitInductive == Init => Inductive
<1> SUFFICES ASSUME Init PROVE Inductive
  OBVIOUS
<1> USE DEF Init
<1>1. /\ list \in Seq(Definitions) /\ IsInjective(list)
      /\ dictionary \in Seq(Definitions) \union {Nothing}
      /\ dictionary = Nothing \/ dictionary = list
  <2>1. CASE packaged = Nothing
    <3>1. list = <<>> /\ dictionary = Nothing
      BY <2>1
    <3>2. IsInjective(<<>>)
      BY DEF IsInjective
    <3> QED BY <3>1, <3>2
  <2>2. CASE packaged # Nothing
    <3>1. packaged \in Documents /\ list = packaged /\ dictionary = packaged
      BY <2>2, PackagesAssumption
    <3> QED BY <3>1 DEF Documents
  <2> QED BY <2>1, <2>2
<1>2. TypeOK
  <2>1. /\ pc \in [Requests -> {"idle", "enter", "iterate", "answered", "lost"} \union Critical]
        /\ call \in [Requests -> Calls \union {Nothing}]
        /\ answer \in [Requests -> Answers \union {Nothing}]
        /\ next \in [Requests -> Nat] /\ seen \in [Requests -> Nat]
    OBVIOUS
  <2>2. restarts \in 0 .. MaxRestarts
    BY CountAssumption
  <2> QED BY <1>1, <2>1, <2>2 DEF TypeOK
<1>3. MonitorHeld
  BY RequestsAssumption DEF MonitorHeld, Critical
<1> QED BY <1>1, <1>2, <1>3 DEF Inductive, CallMade, StillUnknown, Twins, SafeToWrite, LatestVersionOnDisk

-----------------------------------------------------------------------------
(* The steps *)

\* No two are in synchronized methods at once.
LEMMA Alone ==
  ASSUME MonitorHeld, NEW r \in Requests, pc[r] \in Critical
  PROVE  \A q \in Requests \ {r} : pc[q] \notin Critical
BY DEF MonitorHeld

\* A request arrives.
LEMMA ReceiveInductive ==
  ASSUME Inductive, NEW r \in Requests, Receive(r)
  PROVE  Inductive'
<1> USE DEF Inductive, Receive, memory, disk, history
<1>1. PICK c \in Calls :
        /\ pc[r] = "idle"
        /\ call' = [call EXCEPT ![r] = c]
        /\ Goto(r, IF c.op = "get" THEN "iterate" ELSE "enter")
  OBVIOUS
<1>2. PICK label \in {"iterate", "enter"} : pc' = [pc EXCEPT ![r] = label]
  BY <1>1 DEF Goto
<1>3. TypeOK'
  BY <1>1, <1>2 DEF TypeOK
<1>4. \A q \in Requests \ {r} : pc'[q] = pc[q] /\ call'[q] = call[q]
  BY <1>1, <1>2 DEF TypeOK
<1>5. pc'[r] = label /\ call'[r] = c
  BY <1>1, <1>2 DEF TypeOK
<1>6. MonitorHeld'
  BY <1>1, <1>4, <1>5 DEF MonitorHeld, Critical
<1>7. CallMade'
  BY <1>4, <1>5 DEF CallMade
<1>8. StillUnknown'
  BY <1>4, <1>5 DEF StillUnknown, Known
<1>9. SafeToWrite' /\ Twins' /\ LatestVersionOnDisk'
  BY <1>4, <1>5 DEF SafeToWrite, Twins, LatestVersionOnDisk
<1> QED BY <1>3, <1>6, <1>7, <1>8, <1>9

\* A writer enters, or its identifier is refused.
LEMMA EnterInductive ==
  ASSUME Inductive, NEW r \in Requests, Enter(r)
  PROVE  Inductive'
<1> USE DEF Inductive, Enter, memory, disk, history, reader
<1>1. \A q \in Requests : pc[q] \notin Critical
  BY RequestsAssumption DEF MonitorHeld
<1>2. CASE call[r].op = "insert" /\ Known(r)
  <2>1. /\ pc' = [pc EXCEPT ![r] = "answered"] /\ answer' = [answer EXCEPT ![r] = "exception"]
        /\ monitor' = Nothing
    BY <1>2 DEF Answer, Goto
  <2>2. TypeOK'
    BY <2>1 DEF TypeOK, Answers
  <2>3. pc'[r] = "answered" /\ \A q \in Requests \ {r} : pc'[q] = pc[q]
    BY <2>1 DEF TypeOK
  <2>4. MonitorHeld'
    BY <1>1, <2>1, <2>3, RequestsAssumption DEF MonitorHeld, Critical
  <2>5. CallMade' /\ StillUnknown' /\ SafeToWrite' /\ Twins' /\ LatestVersionOnDisk'
    BY <2>3 DEF CallMade, StillUnknown, Known, SafeToWrite, Twins, LatestVersionOnDisk
  <2> QED BY <2>2, <2>4, <2>5
<1>3. CASE ~(call[r].op = "insert" /\ Known(r))
  <2>1. pc' = [pc EXCEPT ![r] = "backup"] /\ answer' = answer /\ monitor' = r
    BY <1>3 DEF Goto
  <2>2. TypeOK'
    BY <2>1 DEF TypeOK, Critical
  <2>3. pc'[r] = "backup" /\ \A q \in Requests \ {r} : pc'[q] = pc[q]
    BY <2>1 DEF TypeOK
  <2>4. MonitorHeld'
    BY <1>1, <2>1, <2>3 DEF MonitorHeld, Critical
  <2>5. CallMade' /\ SafeToWrite' /\ Twins' /\ LatestVersionOnDisk'
    BY <2>3 DEF CallMade, SafeToWrite, Twins, LatestVersionOnDisk
  <2>6. StillUnknown'
    BY <1>3, <2>3 DEF StillUnknown, Known
  <2> QED BY <2>2, <2>4, <2>5, <2>6
<1> QED BY <1>2, <1>3

\* A writer goes on or leaves: the monitor is with the one who is inside.
LEMMA InsideOrOut ==
  ASSUME Inductive, NEW r \in Requests, pc[r] \in Critical, NEW label,
         pc' = [pc EXCEPT ![r] = label], UNCHANGED call,
         \/ label \in Critical /\ monitor' = monitor
         \/ label = "answered" /\ monitor' = Nothing
  PROVE  /\ MonitorHeld' /\ CallMade'
         /\ pc'[r] = label
         /\ \A q \in Requests \ {r} : pc'[q] = pc[q] /\ pc'[q] \notin Critical
<1>1. pc'[r] = label /\ \A q \in Requests \ {r} : pc'[q] = pc[q]
  BY DEF Inductive, TypeOK
<1>2. monitor = r /\ \A q \in Requests \ {r} : pc[q] \notin Critical
  BY DEF Inductive, MonitorHeld
<1>3. CallMade'
  BY <1>1 DEF Inductive, CallMade, Critical
<1>4. MonitorHeld'
  BY <1>1, <1>2, RequestsAssumption DEF MonitorHeld, Critical
<1> QED BY <1>1, <1>2, <1>3, <1>4

\* The backup, made, failed or left out.
LEMMA BackupInductive ==
  ASSUME Inductive, NEW r \in Requests, Backup(r)
  PROVE  Inductive'
<1> USE DEF Inductive, memory, disk, history, reader
<1>1. pc[r] = "backup" /\ pc[r] \in Critical
  BY DEF Backup, Critical
<1>2. UNCHANGED <<packaged, file, list, dictionary, changes, call, next, seen, restarts, version>>
  BY DEF Backup
<1>3. ASSUME BackupCount > 0, FailToBackUp(r)
      PROVE  Inductive'
  <2>1. /\ pc' = [pc EXCEPT ![r] = "answered"] /\ answer' = [answer EXCEPT ![r] = "exception"]
        /\ monitor' = Nothing /\ UNCHANGED <<backups, unbacked>>
    BY <1>3 DEF FailToBackUp, Leave, Answer, Goto
  <2>2. TypeOK'
    BY <1>2, <2>1 DEF TypeOK, Answers
  <2>3. /\ MonitorHeld' /\ CallMade' /\ pc'[r] = "answered"
        /\ \A q \in Requests \ {r} : pc'[q] = pc[q] /\ pc'[q] \notin Critical
    BY <1>1, <1>2, <2>1, InsideOrOut
  <2>4. StillUnknown' /\ SafeToWrite' /\ Twins' /\ LatestVersionOnDisk'
    BY <1>2, <2>1, <2>3 DEF StillUnknown, Critical, SafeToWrite, Twins, LatestVersionOnDisk
  <2> QED BY <2>2, <2>3, <2>4
<1>4. ASSUME Goto(r, "change"), monitor' = monitor, answer' = answer,
             \/ BackupCount > 0 /\ file # NoDirectory /\ CopyFile
             \/ BackupCount = 0 /\ UNCHANGED <<backups, unbacked>>
      PROVE  Inductive'
  <2>1. pc' = [pc EXCEPT ![r] = "change"]
    BY <1>4 DEF Goto
  <2>2. /\ MonitorHeld' /\ CallMade' /\ pc'[r] = "change"
        /\ \A q \in Requests \ {r} : pc'[q] = pc[q] /\ pc'[q] \notin Critical
    <3>1. "change" \in Critical
      BY DEF Critical
    <3> QED BY <1>1, <1>2, <1>4, <2>1, <3>1, InsideOrOut
  <2>3. StillUnknown' /\ Twins'
    BY <1>1, <1>2, <2>2 DEF StillUnknown, Critical, Twins, Known
  <2>4. /\ backups' \subseteq Seq(Definitions) \union {Torn} /\ unbacked' \in BOOLEAN
        /\ BackupCount > 0 => backups \subseteq backups' /\ (unbacked => unbacked')
                               /\ (file = Nothing \/ file \in backups' \/ unbacked')
    <3>1. CASE BackupCount = 0 /\ UNCHANGED <<backups, unbacked>>
      BY <3>1 DEF TypeOK
    <3>2. CASE file # NoDirectory /\ CopyFile /\ BackupCount > 0
      <4>1. CASE UNCHANGED unbacked /\ backups' = (IF file = Nothing THEN backups ELSE backups \union {file})
        BY <3>2, <4>1 DEF TypeOK
      <4>2. CASE unbacked' = TRUE /\ UNCHANGED backups
        BY <4>2 DEF TypeOK
      <4> QED BY <3>2, <4>1, <4>2 DEF CopyFile
    <3> QED BY <1>4, <3>1, <3>2
  <2>5. TypeOK'
    BY <1>2, <1>4, <2>1, <2>4 DEF TypeOK, Critical
  <2>6. LatestVersionOnDisk' /\ SafeToWrite'
    <3> SUFFICES ASSUME BackupCount > 0, version # Nothing
                 PROVE  version \in backups' \/ unbacked'
      BY <1>2 DEF LatestVersionOnDisk, SafeToWrite
    <3> QED BY <2>4 DEF LatestVersionOnDisk
  <2> QED BY <2>2, <2>3, <2>5, <2>6
<1>5. CASE BackupCount > 0 /\ file # NoDirectory /\ CopyFile /\ Goto(r, "change")
             /\ UNCHANGED <<monitor, answer>>
  BY <1>4, <1>5
<1>6. CASE BackupCount = 0 /\ Goto(r, "change") /\ UNCHANGED <<backups, unbacked, monitor, answer>>
  BY <1>4, <1>6
<1>7. CASE FailToBackUp(r)
  BY <1>3, <1>7 DEF FailToBackUp
<1> QED BY <1>5, <1>6, <1>7 DEF Backup

\* What a change of both copies leaves: they are the same, and without repetition.
LEMMA ChangeInductive ==
  ASSUME Inductive, NEW r \in Requests, Change(r)
  PROVE  Inductive'
<1> USE DEF Inductive, memory, disk, history, reader
<1>1. pc[r] = "change" /\ pc[r] \in Critical
  BY DEF Change, Critical
<1>2. UNCHANGED <<packaged, file, backups, call, next, seen, restarts, version, unbacked>>
  BY DEF Change
<1>3. call[r] \in Calls /\ call[r].id \in Definitions
  BY <1>1 DEF CallMade, Calls
<1>4. PICK label \in {"answered", "save"} :
        /\ pc' = [pc EXCEPT ![r] = label]
        /\ answer' \in [Requests -> Answers \union {Nothing}]
        /\ \/ label = "answered" /\ monitor' = Nothing
           \/ label = "save" /\ monitor' = monitor
  <2>1. \/ Goto(r, "save") /\ UNCHANGED <<monitor, answer>>
        \/ Leave(r, "exception") \/ Leave(r, "false")
    BY DEF Change, InsertEntry, RemoveEntry, NothingToDelete
  <2>2. CASE Goto(r, "save") /\ UNCHANGED <<monitor, answer>>
    <3>1. pc' = [pc EXCEPT ![r] = "save"] /\ answer' \in [Requests -> Answers \union {Nothing}]
      BY <2>2 DEF Goto, TypeOK
    <3> QED BY <2>2, <3>1
  <2>3. ASSUME NEW a \in {"exception", "false"}, Leave(r, a)
        PROVE  /\ pc' = [pc EXCEPT ![r] = "answered"] /\ monitor' = Nothing
               /\ answer' \in [Requests -> Answers \union {Nothing}]
    BY <2>3 DEF Leave, Answer, Goto, TypeOK, Answers
  <2> QED BY <2>1, <2>2, <2>3
<1>5. /\ MonitorHeld' /\ CallMade' /\ pc'[r] = label
      /\ \A q \in Requests \ {r} : pc'[q] = pc[q] /\ pc'[q] \notin Critical
  <2>1. \/ label \in Critical /\ monitor' = monitor
        \/ label = "answered" /\ monitor' = Nothing
    BY <1>4 DEF Critical
  <2> QED BY <1>1, <1>2, <1>4, <2>1, InsideOrOut
<1>6. /\ list' \in Seq(Definitions) /\ IsInjective(list') /\ changes' \in Nat
      /\ dictionary' = Nothing \/ dictionary' = list'
      /\ dictionary' \in Seq(Definitions) \union {Nothing}
  <2>0. list \in Seq(Definitions) /\ IsInjective(list) /\ changes \in Nat
        /\ (dictionary = Nothing \/ dictionary = list)
    BY DEF TypeOK, Twins
  <2>1. CASE InsertEntry(r)
    <3>1. ~Contains(list, call[r].id)
      BY <1>1, <2>1 DEF StillUnknown, Known, InsertEntry
    <3>2. list' = Append(list, call[r].id) /\ changes' = changes + 1
      BY <2>1 DEF InsertEntry
    <3>3. dictionary' = Nothing \/ dictionary' = list'
      BY <2>0, <2>1 DEF InsertEntry
    <3>4. list' \in Seq(Definitions) /\ IsInjective(list')
      BY <1>3, <2>0, <3>1, <3>2, AppendKeepsInjective
    <3> QED BY <2>0, <3>2, <3>3, <3>4
  <2>2. CASE RemoveEntry(r)
    <3>1. Contains(list, call[r].id)
      BY <2>2 DEF Known, RemoveEntry
    <3>2. list' = RemoveFirst(list, call[r].id) /\ changes' = changes + 1
      BY <2>2 DEF RemoveEntry
    <3>3. dictionary' = Nothing \/ dictionary' = list'
      BY <2>0, <2>2 DEF RemoveEntry
    <3>4. list' \in Seq(Definitions) /\ IsInjective(list')
      BY <1>3, <2>0, <3>1, <3>2, RemoveKeepsInjective
    <3> QED BY <2>0, <3>2, <3>3, <3>4
  <2>3. CASE NothingToDelete(r)
    BY <2>0, <2>3 DEF NothingToDelete
  <2> QED BY <2>1, <2>2, <2>3 DEF Change
<1>7. TypeOK'
  BY <1>2, <1>4, <1>5, <1>6, RequestsAssumption DEF TypeOK, Critical
<1>8. StillUnknown' /\ Twins'
  BY <1>4, <1>5, <1>6 DEF StillUnknown, Twins, Critical
<1>9. SafeToWrite' /\ LatestVersionOnDisk'
  BY <1>1, <1>2, <1>4, <1>5 DEF SafeToWrite, LatestVersionOnDisk, Critical
<1> QED BY <1>5, <1>7, <1>8, <1>9

\* The file is emptied, but its last version is in a backup by then.
LEMMA OpenFileInductive ==
  ASSUME Inductive, NEW r \in Requests, OpenFile(r)
  PROVE  Inductive'
<1> USE DEF Inductive, memory, disk, history, reader
<1>1. pc[r] = "save" /\ pc[r] \in Critical
  BY DEF OpenFile, Critical
<1>2. UNCHANGED <<packaged, backups, list, dictionary, changes, call, next, seen, restarts, version,
                  unbacked>>
  BY DEF OpenFile
<1>3. PICK label \in {"answered", "write"} :
        /\ pc' = [pc EXCEPT ![r] = label]
        /\ answer' \in [Requests -> Answers \union {Nothing}]
        /\ \/ label = "answered" /\ monitor' = Nothing
           \/ label = "write" /\ monitor' = monitor
        /\ file' = Torn \/ file' = file
  <2>1. CASE Goto(r, "write") /\ UNCHANGED <<monitor, answer>> /\ file' = Torn
    <3>1. pc' = [pc EXCEPT ![r] = "write"] /\ answer' \in [Requests -> Answers \union {Nothing}]
      BY <2>1 DEF Goto, TypeOK
    <3> QED BY <2>1, <3>1
  <2>2. CASE Leave(r, "true") /\ UNCHANGED file
    <3>1. /\ pc' = [pc EXCEPT ![r] = "answered"] /\ monitor' = Nothing
          /\ answer' \in [Requests -> Answers \union {Nothing}]
      BY <2>2 DEF Leave, Answer, Goto, TypeOK, Answers
    <3> QED BY <2>2, <3>1
  <2> QED BY <2>1, <2>2 DEF OpenFile
<1>4. /\ MonitorHeld' /\ CallMade' /\ pc'[r] = label
      /\ \A q \in Requests \ {r} : pc'[q] = pc[q] /\ pc'[q] \notin Critical
  <2>1. \/ label \in Critical /\ monitor' = monitor
        \/ label = "answered" /\ monitor' = Nothing
    BY <1>3 DEF Critical
  <2> QED BY <1>1, <1>2, <1>3, <2>1, InsideOrOut
<1>5. TypeOK'
  BY <1>2, <1>3 DEF TypeOK, Critical
<1>6. StillUnknown' /\ Twins'
  BY <1>2, <1>3, <1>4 DEF StillUnknown, Twins, Critical
<1>7. SafeToWrite' /\ LatestVersionOnDisk'
  BY <1>1, <1>2, <1>4 DEF SafeToWrite, LatestVersionOnDisk, Critical
<1> QED BY <1>4, <1>5, <1>6, <1>7

\* The new version is the file, or the file stays torn.
LEMMA WriteFileInductive ==
  ASSUME Inductive, NEW r \in Requests, WriteFile(r)
  PROVE  Inductive'
<1> USE DEF Inductive, memory, disk, history, reader
<1>1. pc[r] = "write" /\ pc[r] \in Critical
  BY DEF WriteFile, Critical
<1>2. UNCHANGED <<packaged, backups, list, dictionary, changes, call, next, seen, restarts>>
  BY DEF WriteFile
<1>3. /\ pc' = [pc EXCEPT ![r] = "answered"] /\ monitor' = Nothing
      /\ answer' \in [Requests -> Answers \union {Nothing}]
  BY DEF WriteFile, Leave, Answer, Goto, TypeOK, Answers
<1>4. /\ MonitorHeld' /\ CallMade' /\ pc'[r] = "answered"
      /\ \A q \in Requests \ {r} : pc'[q] = pc[q] /\ pc'[q] \notin Critical
  BY <1>1, <1>2, <1>3, InsideOrOut
<1>5. \/ file' = dictionary /\ version' = dictionary /\ unbacked' = FALSE
      \/ UNCHANGED <<file, version, unbacked>>
  BY DEF WriteFile
<1>6. TypeOK'
  BY <1>2, <1>3, <1>5 DEF TypeOK
<1>7. StillUnknown' /\ Twins'
  BY <1>2, <1>4 DEF StillUnknown, Twins, Critical
<1>8. SafeToWrite' /\ LatestVersionOnDisk'
  BY <1>2, <1>4, <1>5 DEF SafeToWrite, LatestVersionOnDisk, Critical
<1> QED BY <1>4, <1>6, <1>7, <1>8

\* A reader reads and changes nothing.
LEMMA IterateInductive ==
  ASSUME Inductive, NEW r \in Requests, Iterate(r)
  PROVE  Inductive'
<1> USE DEF Inductive, memory, disk, history, reader
<1>1. pc[r] = "iterate"
  BY DEF Iterate
<1>2. UNCHANGED <<packaged, file, backups, list, dictionary, changes, monitor, call, seen, restarts,
                  version, unbacked>>
  BY DEF Iterate
<1>3. /\ pc' = [pc EXCEPT ![r] = "answered"] \/ pc' = pc
      /\ answer' \in [Requests -> Answers \union {Nothing}]
      /\ next' \in [Requests -> Nat]
  <2>1. ASSUME NEW a \in Answers, Answer(r, a)
        PROVE  pc' = [pc EXCEPT ![r] = "answered"] /\ answer' \in [Requests -> Answers \union {Nothing}]
    BY <2>1 DEF Answer, Goto, TypeOK
  <2>2. CASE IteratorFails(r)
    BY <2>1, <2>2 DEF IteratorFails, Answers, TypeOK
  <2>3. CASE ReadEntry(r)
    <3>1. next' \in [Requests -> Nat]
      BY <2>3 DEF ReadEntry, TypeOK
    <3> QED BY <2>1, <2>3, <3>1 DEF ReadEntry, Answers, TypeOK
  <2>4. CASE Exhausted(r) /\ Answer(r, "notFound") /\ UNCHANGED next
    BY <2>1, <2>4 DEF Answers, TypeOK
  <2> QED BY <2>2, <2>3, <2>4 DEF Iterate
<1>4. \A q \in Requests : \/ pc'[q] = pc[q]
                          \/ pc[q] = "iterate" /\ pc'[q] = "answered"
  BY <1>1, <1>3 DEF TypeOK
<1>5. TypeOK'
  BY <1>2, <1>3 DEF TypeOK
<1>6. MonitorHeld' /\ CallMade'
  BY <1>2, <1>4 DEF MonitorHeld, CallMade, Critical
<1>7. StillUnknown' /\ Twins' /\ SafeToWrite' /\ LatestVersionOnDisk'
  BY <1>2, <1>4 DEF StillUnknown, Known, Twins, SafeToWrite, LatestVersionOnDisk
<1> QED BY <1>5, <1>6, <1>7

\* A restart finds the packaged document, and nobody inside.
LEMMA RestartInductive ==
  ASSUME Inductive, Restart
  PROVE  Inductive'
<1> USE DEF Inductive, Restart, memory, disk, history, reader
<1>1. /\ list' \in Seq(Definitions) /\ IsInjective(list') /\ changes' = 0
      /\ dictionary' \in Seq(Definitions) \union {Nothing}
      /\ dictionary' = Nothing \/ dictionary' = list'
  <2>1. CASE packaged = Nothing
    <3>1. list' = <<>> /\ dictionary' = Nothing /\ changes' = 0
      BY <2>1 DEF Load
    <3>2. IsInjective(<<>>)
      BY DEF IsInjective
    <3> QED BY <3>1, <3>2
  <2>2. CASE packaged # Nothing
    <3>1. packaged \in Documents /\ list' = packaged /\ dictionary' = packaged /\ changes' = 0
      BY <2>2, PackagesAssumption DEF Load, TypeOK
    <3> QED BY <3>1 DEF Documents
  <2> QED BY <2>1, <2>2
<1>2. /\ pc' \in [Requests -> {"idle", "answered", "lost"}]
      /\ \A q \in Requests : pc'[q] = "idle" => pc[q] = "idle"
      /\ \A q \in Requests : pc[q] = "idle" => pc'[q] = "idle"
  BY DEF TypeOK
<1>3. restarts' \in 0 .. MaxRestarts
  BY CountAssumption DEF TypeOK
<1>4. TypeOK'
  BY <1>1, <1>2, <1>3 DEF TypeOK
<1>5. \A q \in Requests : pc'[q] \in {"idle", "answered", "lost"}
  BY <1>2
<1>6. MonitorHeld' /\ CallMade'
  BY <1>2, <1>5, RequestsAssumption DEF MonitorHeld, CallMade, Critical
<1>7. StillUnknown' /\ Twins' /\ SafeToWrite' /\ LatestVersionOnDisk'
  BY <1>1, <1>5 DEF StillUnknown, Twins, SafeToWrite, LatestVersionOnDisk
<1> QED BY <1>4, <1>6, <1>7

-----------------------------------------------------------------------------
(* The theorems *)

\* The invariant holds whatever the requests, the disk and the container do.
THEOREM InductiveHolds == Spec => []Inductive
<1>1. ASSUME Inductive, [Next]_vars PROVE Inductive'
  <2>1. CASE UNCHANGED vars
    BY <1>1, <2>1 DEF vars, disk, memory, reader, history, Inductive, TypeOK, MonitorHeld, CallMade,
                      StillUnknown, Known, Twins, SafeToWrite, LatestVersionOnDisk
  <2> QED BY <1>1, <2>1, ReceiveInductive, EnterInductive, BackupInductive, ChangeInductive,
             OpenFileInductive, WriteFileInductive, IterateInductive, RestartInductive
          DEF Next, Step, Terminated
<1> QED BY <1>1, InitInductive, PTL DEF Spec

\* Lists, documents, files and backups hold definitions only.
THEOREM TypeCorrect == Spec => []TypeOK
<1>1. Inductive => TypeOK
  BY DEF Inductive
<1> QED BY <1>1, InductiveHolds, PTL

\* No identifier is defined twice, for any number of writers, although the test and the
\* insertion are steps apart.
THEOREM DefinedOnceCorrect == Spec => []DefinedOnce
<1>1. Inductive => DefinedOnce
  BY DEF Inductive, Twins, DefinedOnce
<1> QED BY <1>1, InductiveHolds, PTL

\* The version saved last survives any number of crashes and disk errors, with any
\* positive number of backups.
THEOREM VersionSurvives == Spec => []LatestVersionOnDisk
<1>1. Inductive => LatestVersionOnDisk
  BY DEF Inductive
<1> QED BY <1>1, InductiveHolds, PTL

=============================================================================
