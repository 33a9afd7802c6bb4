------------------------ MODULE PhenomenonDictionary ------------------------
(***************************************************************************)
(* The dictionary of the observable registry SOR: PhenomenonManager and    *)
(* the listeners of InsertDefinition, DeleteDefinition and GetDefinition.  *)
(*                                                                         *)
(* The manager keeps the definitions twice, in a list that readers iterate *)
(* and in an XML document that it saves.  Writers hold its monitor, copy   *)
(* the saved file to a backup, change both and save.  Readers hold         *)
(* nothing.  At start the document is read from the class path, while it   *)
(* is saved to the file system.                                            *)
(*                                                                         *)
(* A definition is its identifier.  Taken from the deployment: the packaged *)
(* document defines every identifier once, the time stamps in the names of *)
(* two backups differ, and the working directory of the container is not   *)
(* the directory of the file, so that deleting the oldest backup, by its   *)
(* bare name, deletes nothing.  updateInPhenomenonList has no caller.      *)
(***************************************************************************)
EXTENDS Naturals, Sequences, FiniteSets, SequencesExt

CONSTANTS
  Requests,      \* listener calls, each made by a servlet thread
  Definitions,   \* identifiers of phenomena
  Packages,      \* what the class path may hold: a document, or Nothing
  Nothing,       \* no document, no file, no call, no request
  Torn,          \* a file that was opened and not written to its end
  NoDirectory,   \* the directory of the file is missing, and so is the file
  BackupCount,   \* PHENOMENONXML_BACKUPS
  DiskErrors,    \* TRUE if reading and writing files may fail
  MaxRestarts

Documents == {d \in Seq(Definitions) : IsInjective(d)}

ASSUME PackagesAssumption == Packages \subseteq Documents \union {Nothing}
ASSUME CountAssumption == BackupCount \in Nat /\ MaxRestarts \in Nat
ASSUME DiskAssumption == DiskErrors \in BOOLEAN
ASSUME RequestsAssumption == Nothing \notin Requests

VARIABLES
  packaged,    \* the document on the class path
  file,        \* the file that the document is saved to
  backups,     \* the contents of the backup files
  list,        \* phenomenaList
  dictionary,  \* the XML document
  changes,     \* modCount of the list
  monitor,     \* the request that holds the monitor of PhenomenonManager
  pc,
  call,        \* operation and identifier of a request
  next,        \* how many entries the iterator of a reader has returned
  seen,        \* modCount when its iterator was made
  answer,
  restarts,
  (* History. *)
  version,     \* the last document that was saved to its end
  unbacked     \* the last backup could not be written

disk == <<packaged, file, backups>>
memory == <<list, dictionary, changes>>
reader == <<next, seen>>
history == <<version, unbacked>>
vars == <<disk, memory, monitor, pc, call, reader, answer, restarts, history>>

Calls == [op : {"insert", "delete", "get"}, id : Definitions]
Critical == {"backup", "change", "save", "write"}
Answers == {"true", "false", "found", "notFound", "exception"}

TypeOK ==
  /\ packaged \in Packages
  /\ file \in Seq(Definitions) \union {Nothing, Torn, NoDirectory}
  /\ backups \subseteq Seq(Definitions) \union {Torn}
  /\ list \in Seq(Definitions)
  /\ dictionary \in Seq(Definitions) \union {Nothing}
  /\ changes \in Nat
  /\ monitor \in Requests \union {Nothing}
  /\ pc \in [Requests -> {"idle", "enter", "iterate", "answered", "lost"} \union Critical]
  /\ call \in [Requests -> Calls \union {Nothing}]
  /\ next \in [Requests -> Nat]
  /\ seen \in [Requests -> Nat]
  /\ answer \in [Requests -> Answers \union {Nothing}]
  /\ restarts \in 0 .. MaxRestarts
  /\ version \in Seq(Definitions) \union {Nothing}
  /\ unbacked \in BOOLEAN

\* loadDictionaryFile(): without a document the list stays empty.
Load ==
  /\ list' = IF packaged = Nothing THEN <<>> ELSE packaged
  /\ dictionary' = packaged
  /\ changes' = 0

\* The container has started; nothing was saved yet.
Init ==
  /\ packaged \in Packages
  /\ file \in {Nothing, NoDirectory}
  /\ backups = {}
  /\ list = IF packaged = Nothing THEN <<>> ELSE packaged
  /\ dictionary = packaged
  /\ changes = 0
  /\ monitor = Nothing
  /\ pc = [r \in Requests |-> "idle"]
  /\ call = [r \in Requests |-> Nothing]
  /\ next = [r \in Requests |-> 0]
  /\ seen = [r \in Requests |-> 0]
  /\ answer = [r \in Requests |-> Nothing]
  /\ restarts = 0
  /\ version = Nothing
  /\ unbacked = FALSE

Goto(r, label) == pc' = [pc EXCEPT ![r] = label]
Answer(r, a) == Goto(r, "answered") /\ answer' = [answer EXCEPT ![r] = a]

-----------------------------------------------------------------------------
(* Writers *)

\* A client sends a request; its listener asks for the manager.
Receive(r) ==
  /\ pc[r] = "idle"
  /\ \E c \in Calls :
       /\ call' = [call EXCEPT ![r] = c]
       /\ Goto(r, IF c.op = "get" THEN "iterate" ELSE "enter")
  /\ seen' = [seen EXCEPT ![r] = changes]
  /\ UNCHANGED <<disk, memory, monitor, next, answer, restarts, history>>

Known(r) == Contains(list, call[r].id)

\* Mutant of Enter: the methods are not synchronized.
EnterUnlocked(r) ==
  /\ pc[r] = "enter"
  /\ IF call[r].op = "insert" /\ Known(r)
       THEN Answer(r, "exception")
       ELSE Goto(r, "backup") /\ UNCHANGED answer
  /\ UNCHANGED <<disk, memory, monitor, call, reader, restarts, history>>

\* Mutant of Enter: the lock is not released when an identifier is refused.
EnterForGood(r) ==
  /\ pc[r] = "enter"
  /\ monitor = Nothing
  /\ monitor' = r
  /\ IF call[r].op = "insert" /\ Known(r)
       THEN Answer(r, "exception")
       ELSE Goto(r, "backup") /\ UNCHANGED answer
  /\ UNCHANGED <<disk, memory, call, reader, restarts, history>>

\* The synchronized methods; insertInPhenomenonList() refuses a known identifier
\* before anything else.
Enter(r) ==
  /\ pc[r] = "enter"
  /\ monitor = Nothing
  /\ IF call[r].op = "insert" /\ Known(r)
       THEN Answer(r, "exception") /\ UNCHANGED monitor
       ELSE Goto(r, "backup") /\ monitor' = r /\ UNCHANGED answer
  /\ UNCHANGED <<disk, memory, call, reader, restarts, history>>

\* The method returns, or an exception leaves it: the monitor is free again.
Leave(r, a) == Answer(r, a) /\ monitor' = Nothing

\* A missing directory has no list of children: NullPointerException.
FailToBackUp(r) ==
  /\ BackupCount > 0 /\ file = NoDirectory
  /\ Leave(r, "exception")
  /\ UNCHANGED <<backups, unbacked>>

\* Mutant of CopyFile: no backup is written once there are BackupCount of them.
CopyUpToCount ==
  /\ backups' = IF file = Nothing \/ Cardinality(backups) >= BackupCount
                  THEN backups ELSE backups \union {file}
  /\ UNCHANGED unbacked

\* The copy of the file; the error that there is none, or that it cannot be copied,
\* is logged only.
CopyFile ==
  \/ /\ backups' = IF file = Nothing THEN backups ELSE backups \union {file}
     /\ UNCHANGED unbacked
  \/ /\ DiskErrors
     /\ unbacked' = TRUE
     /\ UNCHANGED backups

\* backupDictionaryFile()
Backup(r) ==
  /\ pc[r] = "backup"
  /\ \/ FailToBackUp(r)
     \/ /\ BackupCount > 0 /\ file # NoDirectory
        /\ CopyFile
        /\ Goto(r, "change")
        /\ UNCHANGED <<monitor, answer>>
     \/ /\ BackupCount = 0
        /\ Goto(r, "change")
        /\ UNCHANGED <<backups, unbacked, monitor, answer>>
  /\ UNCHANGED <<packaged, file, memory, call, reader, restarts, version>>

\* The list first; without a document the next statement raises.
InsertEntry(r) ==
  /\ call[r].op = "insert"
  /\ list' = Append(list, call[r].id)
  /\ changes' = changes + 1
  /\ IF dictionary = Nothing
       THEN Leave(r, "exception") /\ UNCHANGED dictionary
       ELSE /\ dictionary' = Append(dictionary, call[r].id)
            /\ Goto(r, "save")
            /\ UNCHANGED <<monitor, answer>>

RemoveEntry(r) ==
  /\ call[r].op = "delete"
  /\ Known(r)
  /\ list' = RemoveFirst(list, call[r].id)
  /\ changes' = changes + 1
  /\ IF dictionary = Nothing
       THEN Leave(r, "exception") /\ UNCHANGED dictionary
       ELSE /\ dictionary' = RemoveFirst(dictionary, call[r].id)
            /\ Goto(r, "save")
            /\ UNCHANGED <<monitor, answer>>

NothingToDelete(r) ==
  /\ call[r].op = "delete"
  /\ ~Known(r)
  /\ Leave(r, "false")
  /\ UNCHANGED memory

Change(r) ==
  /\ pc[r] = "change"
  /\ InsertEntry(r) \/ RemoveEntry(r) \/ NothingToDelete(r)
  /\ UNCHANGED <<disk, call, reader, restarts, history>>

\* saveDictionaryFile() opens the file, which empties it.  An IOException is
\* logged, and the method returns true all the same.
OpenFile(r) ==
  /\ pc[r] = "save"
  /\ \/ /\ file # NoDirectory
        /\ file' = Torn
        /\ Goto(r, "write")
        /\ UNCHANGED <<monitor, answer>>
     \/ /\ file = NoDirectory \/ DiskErrors
        /\ Leave(r, "true")
        /\ UNCHANGED file
  /\ UNCHANGED <<packaged, backups, memory, call, reader, restarts, history>>

WriteFile(r) ==
  /\ pc[r] = "write"
  /\ \/ /\ file' = dictionary
        /\ version' = dictionary
        /\ unbacked' = FALSE
     \/ /\ DiskErrors
        /\ UNCHANGED <<file, history>>
  /\ Leave(r, "true")
  /\ UNCHANGED <<packaged, backups, memory, call, reader, restarts>>

-----------------------------------------------------------------------------
(* Readers *)

\* The iterator finds the list changed.  Its test is no synchronisation: it may
\* also miss the change, and then what it reads is the list as it is now.
NoticesChange(r) == seen[r] # changes

Exhausted(r) == next[r] = Len(list)

IteratorFails(r) ==
  /\ ~Exhausted(r)
  /\ NoticesChange(r) \/ next[r] > Len(list)
  /\ Answer(r, "exception")
  /\ UNCHANGED next

ReadEntry(r) ==
  /\ next[r] < Len(list)
  /\ next' = [next EXCEPT ![r] = @ + 1]
  /\ IF list[next[r] + 1] = call[r].id THEN Answer(r, "found") ELSE UNCHANGED <<pc, answer>>

\* GetDefinitionListener: the first entry with the identifier, and an exception
\* report of its own if the iteration ends without one.
Iterate(r) ==
  /\ pc[r] = "iterate"
  /\ \/ IteratorFails(r)
     \/ ReadEntry(r)
     \/ Exhausted(r) /\ Answer(r, "notFound") /\ UNCHANGED next
  /\ UNCHANGED <<disk, memory, monitor, call, seen, restarts, history>>

-----------------------------------------------------------------------------
\* The container dies and starts again: the singleton is created anew.
Restart ==
  /\ restarts < MaxRestarts
  /\ restarts' = restarts + 1
  /\ Load
  /\ monitor' = Nothing
  /\ pc' = [r \in Requests |-> IF pc[r] \in {"idle", "answered"} THEN pc[r] ELSE "lost"]
  /\ UNCHANGED <<disk, call, reader, answer, history>>

Terminated ==
  /\ \A r \in Requests : pc[r] \in {"answered", "lost"}
  /\ UNCHANGED vars

Step(r) == Enter(r) \/ Backup(r) \/ Change(r) \/ OpenFile(r) \/ WriteFile(r) \/ Iterate(r)

Next ==
  \/ \E r \in Requests : Receive(r) \/ Step(r)
  \/ Restart
  \/ Terminated

\* Threads run on.  The monitor of an object makes no promise to a thread that
\* waits for it; as finitely many requests compete for it here, weak fairness
\* is enough.
Fairness == \A r \in Requests : WF_vars(Step(r))

Spec == Init /\ [][Next]_vars
FairSpec == Spec /\ Fairness

-----------------------------------------------------------------------------
(* Properties *)

\* No identifier is defined twice, neither in the list nor in the saved document,
\* although the check and the insertion are apart; and once no writer is at work the
\* two agree.
DefinedOnce ==
  /\ IsInjective(list)
  /\ dictionary # Nothing => IsInjective(dictionary) /\ (monitor = Nothing => dictionary = list)

\* The document that was saved last is on disk in one piece whatever interrupts
\* the writer, a crash or an error between emptying the file and filling it:
\* it is the file or a backup, unless that backup could not be written.
LatestVersionOnDisk ==
  BackupCount > 0 /\ version # Nothing =>
    file = version \/ version \in backups \/ unbacked

\* Every request is answered, or lost in a restart: no refusal, exception or disk
\* error keeps the monitor.
EveryRequestAnswered ==
  \A r \in Requests : pc[r] \notin {"idle", "answered", "lost"} ~> pc[r] \in {"answered", "lost"}

-----------------------------------------------------------------------------
(* What the repository's comments say and the code does not do. *)

\* "It basically serves as the database" (PhenomenonManager): a document saved
\* in one piece is there after a restart.
SavedDocumentIsLoaded ==
  [][restarts' # restarts /\ version # Nothing /\ file = version => list' = file]_vars

=============================================================================
