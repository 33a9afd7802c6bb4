----------------------------- MODULE SuggestBox -----------------------------
(***************************************************************************)
(* The search field of the website: the directive angucomplete-alt with    *)
(* the attributes that search.html gives it, and the parts of AngularJS it *)
(* runs on ($timeout, $http, the digest that brings the scope to the       *)
(* screen), within the form that oss.searchControl submits.                *)
(*                                                                         *)
(* A key that leaves a new term in the field starts a search: a timer, and *)
(* when it fires a request for what the field holds then.  Nothing takes a *)
(* request back, and answers come in any order or not at all.  The user    *)
(* types, leaves the field, uses keys and mouse meanwhile.  A change of    *)
(* the text and the release of the key that made it are two events, and    *)
(* the handler of the second runs outside a digest.                        *)
(*                                                                         *)
(* A text is a model value; Terms are the texts that are long enough.  Of  *)
(* a result only its title is kept.  The nth search is the number n.       *)
(***************************************************************************)
EXTENDS Integers, Sequences, FiniteSets

CONSTANTS
  Terms,        \* texts of minlength characters or more
  ShortTexts,   \* shorter ones
  Empty,        \* the empty text
  None,         \* null: no last search term, nothing selected
  Undefined,    \* what hoverRow() leaves in currentIndex
  AnswerLists,  \* the titles in an answer of the suggest resource
  MaxSearches

Texts == Terms \union ShortTexts \union {Empty}

ASSUME TextsAssumption == Empty \notin Terms \union ShortTexts /\ Terms \intersect ShortTexts = {}
ASSUME AnswersAssumption == AnswerLists \subseteq Seq(Texts)
ASSUME SearchesAssumption == MaxSearches \in Nat
ASSUME UndefinedAssumption == Undefined \notin Int

VARIABLES
  scope,           \* the isolate scope of the directive
  lastSearchTerm,
  begun,           \* searches begun; the last one is searchTimer
  timers,          \* search timers that have neither fired nor been cancelled
  requests,        \* searches whose request is under way
  hiding,          \* the hideTimer is running
  focused,         \* the input field has the focus
  screen,          \* the dropdown as it is rendered
  q,               \* the query of oss.searchControl
  (* History. *)
  fate,            \* what became of the last search
  shown,           \* the search that scope.results come from
  alerted          \* the text that was in the field at the last alert

search == <<begun, timers, fate>>
form == <<q, alerted>>
vars == <<scope, lastSearchTerm, search, requests, hiding, focused, screen, shown, form>>

Scopes == [searchStr : Texts, showDropdown : BOOLEAN, searching : BOOLEAN, results : Seq(Texts),
           currentIndex : Nat \union {-1, Undefined}, selectedObject : Texts \union {None}]

TypeOK ==
  /\ scope \in Scopes
  /\ lastSearchTerm \in Texts \union {None}
  /\ begun \in 0 .. MaxSearches
  /\ timers \subseteq 1 .. begun
  /\ requests \subseteq 1 .. begun
  /\ timers \intersect requests = {}
  /\ hiding \in BOOLEAN
  /\ focused \in BOOLEAN
  /\ screen \in [open : BOOLEAN, searching : BOOLEAN, rows : Seq(Texts)]
  /\ fate \in {"none", "pending", "lost", "answered", "overtaken"}
  /\ shown \in 0 .. begun
  /\ q \in Texts
  /\ alerted \in Texts \union {None}

\* ng-if and ng-repeat of the template.
Rendered(s) ==
  [open |-> s.showDropdown,
   searching |-> s.showDropdown /\ s.searching,
   rows |-> IF s.showDropdown THEN s.results ELSE <<>>]

\* $apply(): when a digest ends the screen shows the scope.
Digest == screen' = Rendered(scope')

Init ==
  /\ scope = [searchStr |-> Empty, showDropdown |-> FALSE, searching |-> FALSE,
              results |-> <<>>, currentIndex |-> -1, selectedObject |-> None]
  /\ lastSearchTerm = None
  /\ begun = 0
  /\ timers = {}
  /\ requests = {}
  /\ hiding = FALSE
  /\ focused = FALSE
  /\ screen = Rendered(scope)
  /\ fate = "none"
  /\ shown = 0
  /\ q = Empty
  /\ alerted = None

-----------------------------------------------------------------------------
(* The focus *)

\* Mutant of Focus: resetHideResults() is not called.
FocusOnly ==
  /\ ~focused
  /\ focused' = TRUE
  /\ UNCHANGED <<scope, lastSearchTerm, search, requests, hiding, shown, form>>
  /\ Digest

\* resetHideResults()
Focus ==
  /\ ~focused
  /\ focused' = TRUE
  /\ hiding' = FALSE
  /\ UNCHANGED <<scope, lastSearchTerm, search, requests, shown, form>>
  /\ Digest

\* hideResults()
Blur ==
  /\ focused
  /\ focused' = FALSE
  /\ hiding' = TRUE
  /\ UNCHANGED <<scope, lastSearchTerm, search, requests, shown, form>>
  /\ Digest

\* Mutant of HideTimerFires: setTimeout() in the place of $timeout(), hence no digest.
HideUnseen ==
  /\ hiding
  /\ hiding' = FALSE
  /\ scope' = [scope EXCEPT !.showDropdown = FALSE]
  /\ UNCHANGED <<lastSearchTerm, search, requests, focused, screen, shown, form>>

HideTimerFires ==
  /\ hiding
  /\ hiding' = FALSE
  /\ scope' = [scope EXCEPT !.showDropdown = FALSE]
  /\ Digest
  /\ UNCHANGED <<lastSearchTerm, search, requests, focused, shown, form>>

-----------------------------------------------------------------------------
(* Typing *)

\* The event "input" of the field, by ng-model: the text changes, no key was
\* released yet; by the mouse (paste, undo) none will be.
Type(text) ==
  /\ focused
  /\ text # scope.searchStr
  /\ scope' = [scope EXCEPT !.searchStr = text]
  /\ Digest
  /\ UNCHANGED <<lastSearchTerm, search, requests, hiding, focused, shown, form>>

isNewSearchNeeded == scope.searchStr \in Terms /\ scope.searchStr # lastSearchTerm

\* Mutant of Restart: the timer of the previous search runs on.
StartTimer ==
  /\ begun < MaxSearches
  /\ begun' = begun + 1
  /\ timers' = timers \union {begun'}
  /\ fate' = "pending"

\* $timeout.cancel(searchTimer), and a new one.
Restart ==
  /\ begun < MaxSearches
  /\ begun' = begun + 1
  /\ timers' = (timers \ {begun}) \union {begun'}
  /\ fate' = "pending"

\* What keyPressed() makes of the scope.
Pressed ==
  IF scope.searchStr = Empty THEN [scope EXCEPT !.showDropdown = FALSE]
  ELSE IF isNewSearchNeeded
    THEN [scope EXCEPT !.showDropdown = TRUE, !.currentIndex = -1, !.results = <<>>, !.searching = TRUE]
    ELSE scope

\* keyPressed() for a key other than Up, Down and Enter.
KeyPressed ==
  /\ focused
  /\ \/ /\ scope.searchStr = Empty
        /\ lastSearchTerm' = None
        /\ UNCHANGED search
     \/ /\ isNewSearchNeeded
        /\ lastSearchTerm' = scope.searchStr
        /\ Restart
     \/ /\ scope.searchStr # Empty /\ ~isNewSearchNeeded
        /\ UNCHANGED <<lastSearchTerm, search>>
  /\ UNCHANGED <<requests, hiding, focused, shown, form>>

\* Any other key, or a character: no digest.
CharacterKey ==
  /\ KeyPressed
  /\ scope' = Pressed
  /\ UNCHANGED screen

Backspace ==
  /\ KeyPressed
  /\ scope' = [Pressed EXCEPT !.selectedObject = None]
  /\ Digest

\* A text that was pasted is searched for, and the dropdown closed.
Escape ==
  /\ KeyPressed
  /\ scope' = [Pressed EXCEPT !.results = <<>>, !.showDropdown = FALSE]
  /\ Digest

-----------------------------------------------------------------------------
(* Choosing *)

Rows == Len(scope.results)

\* The keys work on the results also when the dropdown is closed.
Down ==
  /\ focused
  /\ scope.currentIndex # Undefined
  /\ scope.currentIndex + 1 < Rows
  /\ scope' = [scope EXCEPT !.currentIndex = @ + 1]
  /\ Digest
  /\ UNCHANGED <<lastSearchTerm, search, requests, hiding, focused, shown, form>>

Up ==
  /\ focused
  /\ scope.currentIndex # Undefined
  /\ scope.currentIndex >= 1
  /\ scope' = [scope EXCEPT !.currentIndex = @ - 1]
  /\ Digest
  /\ UNCHANGED <<lastSearchTerm, search, requests, hiding, focused, shown, form>>

\* selectResult(): timers and requests go on.
Select(title) ==
  /\ scope' = [scope EXCEPT !.searchStr = title, !.selectedObject = title,
                            !.showDropdown = FALSE, !.results = <<>>]
  /\ lastSearchTerm' = title

Enter ==
  /\ focused
  /\ IF scope.currentIndex # Undefined /\ scope.currentIndex >= 0 /\ scope.currentIndex < Rows
       THEN Select(scope.results[scope.currentIndex + 1])
       ELSE scope' = [scope EXCEPT !.results = <<>>] /\ UNCHANGED lastSearchTerm
  /\ Digest
  /\ UNCHANGED <<search, requests, hiding, focused, shown, form>>

\* The mouse reaches what is rendered, which the scope may have dropped already.
\* The template calls hoverRow() without the index.
Hover ==
  /\ screen.rows # <<>>
  /\ scope' = [scope EXCEPT !.currentIndex = Undefined]
  /\ Digest
  /\ UNCHANGED <<lastSearchTerm, search, requests, hiding, focused, shown, form>>

Click ==
  /\ \E i \in 1 .. Len(screen.rows) : Select(screen.rows[i])
  /\ Digest
  /\ UNCHANGED <<search, requests, hiding, focused, shown, form>>

\* ossSearch(), by a button or by Enter going down.  Nothing binds q, whose field
\* search.html has commented out, so that the query is never sent; the request of the
\* other branch is left out.
Submit ==
  /\ alerted' = IF q = Empty THEN scope.searchStr ELSE alerted
  /\ UNCHANGED <<scope, lastSearchTerm, search, requests, hiding, focused, shown, q>>
  /\ Digest

-----------------------------------------------------------------------------
(* Timers and answers *)

\* searchTimerComplete() with the text of now: too short a text is not searched for,
\* and "Searching..." stays.
SearchTimerFires(s) ==
  /\ s \in timers
  /\ timers' = timers \ {s}
  /\ IF scope.searchStr \in Terms
       THEN requests' = requests \union {s} /\ UNCHANGED fate
       ELSE fate' = "lost" /\ UNCHANGED requests
  /\ UNCHANGED <<scope, lastSearchTerm, begun, hiding, focused, shown, form>>
  /\ Digest

\* Mutant of ProcessResults: an empty answer leaves the list as it is.
KeepOnEmpty(s, titles) ==
  /\ scope' = [scope EXCEPT !.searching = FALSE, !.results = IF titles = <<>> THEN @ ELSE titles]
  /\ shown' = IF titles = <<>> THEN shown ELSE s

\* Mutant of ProcessResults: the dropdown opens with the answer.
OpenWithAnswer(s, titles) ==
  /\ scope' = [scope EXCEPT !.searching = FALSE, !.results = titles, !.showDropdown = TRUE]
  /\ shown' = s

\* Mutant of ProcessResults: "Searching..." is not ended.
KeepSearching(s, titles) ==
  /\ scope' = [scope EXCEPT !.results = titles]
  /\ shown' = s

\* Mutant of ProcessResults: an answer counts only if there is something in it.
IgnoreEmpty(s, titles) ==
  /\ scope' = IF titles = <<>> THEN scope ELSE [scope EXCEPT !.searching = FALSE, !.results = titles]
  /\ shown' = s

\* The success handler.
ProcessResults(s, titles) ==
  /\ scope' = [scope EXCEPT !.searching = FALSE, !.results = titles]
  /\ shown' = s

\* An answer is not compared with the search it is for, nor with the last one.
Answered(s, titles) ==
  /\ s \in requests
  /\ requests' = requests \ {s}
  /\ ProcessResults(s, titles)
  /\ fate' = IF s = begun THEN "answered" ELSE IF fate = "answered" THEN "overtaken" ELSE fate
  /\ Digest
  /\ UNCHANGED <<lastSearchTerm, begun, timers, hiding, focused, form>>

\* The error handler only logs.
Failed(s) ==
  /\ s \in requests
  /\ requests' = requests \ {s}
  /\ fate' = IF s = begun THEN "lost" ELSE fate
  /\ UNCHANGED <<scope, lastSearchTerm, begun, timers, hiding, focused, shown, form>>
  /\ Digest

-----------------------------------------------------------------------------
UserEvent ==
  \/ Focus \/ Blur
  \/ \E text \in Texts : Type(text)
  \/ CharacterKey \/ Backspace \/ Escape
  \/ Down \/ Up \/ Enter \/ Hover \/ Click \/ Submit

Complete(s) == (\E titles \in AnswerLists : Answered(s, titles)) \/ Failed(s)

Next ==
  \/ UserEvent
  \/ HideTimerFires
  \/ \E s \in 1 .. MaxSearches : SearchTimerFires(s) \/ Complete(s)

\* Timers of a browser fire, and every request ends, with an answer or an error.
\* Nothing is assumed of the user.
Fairness ==
  /\ WF_vars(HideTimerFires)
  /\ \A s \in 1 .. MaxSearches : WF_vars(SearchTimerFires(s)) /\ WF_vars(Complete(s))

Spec == Init /\ [][Next]_vars
FairSpec == Spec /\ Fairness

-----------------------------------------------------------------------------
(* Properties *)

\* However fast the user types, one search waits at most: the timer of the one
\* before has fired or was cancelled.
OnePendingTimer == Cardinality(timers) <= 1

\* The field says "Searching..." only while the last search waits or its request is
\* under way, unless that search was lost: its request failed, or its timer found
\* a text too short.
SearchingMeansUnderWay ==
  scope.searching /\ fate # "lost" => begun \in timers \union requests

\* Although keyPressed() changes the scope outside a digest, the rendered dropdown
\* differs from the scope only until the timer that it started fires, or while the field
\* is empty.
ScreenCatchesUp ==
  screen # Rendered(scope) => timers # {} \/ scope.searchStr = Empty

\* The results of an earlier search are listed only until the last one is answered,
\* or when its request was lost, or when their answer came after its answer.
OldListOnlyMeanwhile ==
  scope.results # <<>> /\ fate = "answered" => shown = begun

\* The dropdown is not closed under a user who came back to the field in time.
NoHidingWhileTyping == focused => ~hiding

\* Once closed, by a choice, Escape or leaving the field, the dropdown is opened by a
\* new search only, and not by an answer that is late.
OpensForSearchOnly ==
  [][~scope.showDropdown /\ scope'.showDropdown => begun' = begun + 1]_vars

\* "Searching..." ends, or the search was lost.
SearchingEnds == scope.searching ~> ~scope.searching \/ fate = "lost"

=============================================================================
