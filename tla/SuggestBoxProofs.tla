-------------------------- MODULE SuggestBoxProofs --------------------------
(***************************************************************************)
(* For all texts, answers and numbers of searches: what the field may      *)
(* promise without a word about fairness.                                  *)
(***************************************************************************)
EXTENDS SuggestBox, FiniteSetTheorems, TLAPS

\* An empty text is no term, so that the cases of keyPressed() exclude each other.
LEMMA EmptyIsNoTerm == scope.searchStr = Empty => ~isNewSearchNeeded
BY TextsAssumption DEF isNewSearchNeeded

\* An empty list of results is one.
LEMMA NoResults == <<>> \in Seq(Texts)
OBVIOUS

\* keyPressed() keeps the scope in its type.
LEMMA PressedType ==
  ASSUME scope \in Scopes
  PROVE  Pressed \in Scopes
BY NoResults DEF Scopes, Pressed, isNewSearchNeeded

\* What the template renders of a scope.
LEMMA RenderedType ==
  ASSUME NEW s \in Scopes
  PROVE  Rendered(s) \in [open : BOOLEAN, searching : BOOLEAN, rows : Seq(Texts)]
BY DEF Scopes, Rendered

\* At the start nothing is searched for.
LEMMA InitType == Init => TypeOK
<1> SUFFICES ASSUME Init PROVE TypeOK
  OBVIOUS
<1>1. scope \in Scopes
  BY DEF Init, Scopes, Texts
<1>2. screen \in [open : BOOLEAN, searching : BOOLEAN, rows : Seq(Texts)]
  BY <1>1, RenderedType DEF Init
<1>3. begun \in 0 .. MaxSearches /\ shown \in 0 .. begun
  BY SearchesAssumption DEF Init
<1> QED BY <1>1, <1>2, <1>3 DEF Init, TypeOK, Texts

\* The keys that reach keyPressed() differ in what they make of its scope.
LEMMA KeyType ==
  ASSUME TypeOK, KeyPressed, scope' \in Scopes,
         screen' \in [open : BOOLEAN, searching : BOOLEAN, rows : Seq(Texts)]
  PROVE  TypeOK'
<1>1. lastSearchTerm' \in Texts \union {None}
  BY DEF KeyPressed, TypeOK, Scopes
<1>2. CASE UNCHANGED search
  BY <1>1, <1>2 DEF KeyPressed, TypeOK, search, form
<1>3. CASE Restart
  <2>1. begun \in Nat /\ begun' = begun + 1 /\ begun' \in 0 .. MaxSearches
    BY <1>3, SearchesAssumption DEF Restart, TypeOK
  <2>2. timers' \subseteq 1 .. begun' /\ requests' \subseteq 1 .. begun' /\ shown' \in 0 .. begun'
    BY <1>3, <2>1 DEF Restart, KeyPressed, TypeOK
  <2>3. timers' \intersect requests' = {}
    BY <1>3, <2>1 DEF Restart, KeyPressed, TypeOK
  <2> QED BY <1>1, <1>3, <2>1, <2>2, <2>3 DEF Restart, KeyPressed, TypeOK, form
<1> QED BY <1>2, <1>3 DEF KeyPressed

\* Every step keeps the types.
LEMMA NextType ==
  ASSUME TypeOK, [Next]_vars
  PROVE  TypeOK'
<1> USE DEF TypeOK
<1>1. CASE Focus
  BY <1>1, RenderedType DEF Focus, Digest, search, form
<1>2. CASE Blur
  BY <1>2, RenderedType DEF Blur, Digest, search, form
<1>3. ASSUME NEW text \in Texts, Type(text) PROVE TypeOK'
  <2>1. scope' \in Scopes
    BY <1>3 DEF Type, Scopes
  <2> QED BY <1>3, <2>1, RenderedType DEF Type, Digest, search, form
<1>4. CASE CharacterKey
  <2>1. scope' \in Scopes
    BY <1>4, PressedType DEF CharacterKey
  <2> QED BY <1>4, <2>1, KeyType DEF CharacterKey
<1>5. CASE Backspace
  <2>1. scope' \in Scopes
    BY <1>5, PressedType DEF Backspace, Scopes
  <2> QED BY <1>5, <2>1, KeyType, RenderedType DEF Backspace, Digest
<1>6. CASE Escape
  <2>1. scope' \in Scopes
    BY <1>6, PressedType, NoResults DEF Escape, Scopes
  <2> QED BY <1>6, <2>1, KeyType, RenderedType DEF Escape, Digest
<1>7. CASE Down
  <2>1. scope' \in Scopes
    BY <1>7 DEF Down, Scopes
  <2> QED BY <1>7, <2>1, RenderedType DEF Down, Digest, search, form
<1>8. CASE Up
  <2>1. scope' \in Scopes
    BY <1>8 DEF Up, Scopes
  <2> QED BY <1>8, <2>1, RenderedType DEF Up, Digest, search, form
<1>9. CASE Enter
  <2>1. scope' \in Scopes /\ lastSearchTerm' \in Texts \union {None}
    <3>1. CASE scope.currentIndex # Undefined /\ scope.currentIndex >= 0 /\ scope.currentIndex < Rows
      <4>1. scope.results[scope.currentIndex + 1] \in Texts
        BY <3>1 DEF Scopes, Rows
      <4> QED BY <1>9, <3>1, <4>1, NoResults DEF Enter, Select, Scopes
    <3>2. CASE ~(scope.currentIndex # Undefined /\ scope.currentIndex >= 0 /\ scope.currentIndex < Rows)
      BY <1>9, <3>2, NoResults DEF Enter, Scopes
    <3> QED BY <3>1, <3>2
  <2> QED BY <1>9, <2>1, RenderedType DEF Enter, Digest, search, form
<1>10. CASE Hover
  <2>1. scope' \in Scopes
    BY <1>10 DEF Hover, Scopes
  <2> QED BY <1>10, <2>1, RenderedType DEF Hover, Digest, search, form
<1>11. CASE Click
  <2>1. PICK i \in 1 .. Len(screen.rows) : Select(screen.rows[i])
    BY <1>11 DEF Click
  <2>2. screen.rows[i] \in Texts
    BY <2>1
  <2>3. scope' \in Scopes /\ lastSearchTerm' \in Texts
    BY <2>1, <2>2, NoResults DEF Select, Scopes
  <2> QED BY <1>11, <2>3, RenderedType DEF Click, Digest, search, form
<1>12. CASE Submit
  BY <1>12, RenderedType DEF Submit, Digest, search, form, Scopes
<1>13. CASE HideTimerFires
  <2>1. scope' \in Scopes
    BY <1>13 DEF HideTimerFires, Scopes
  <2> QED BY <1>13, <2>1, RenderedType DEF HideTimerFires, Digest, search, form
<1>14. ASSUME NEW s \in 1 .. MaxSearches, SearchTimerFires(s) PROVE TypeOK'
  <2>1. /\ s \in timers /\ timers' = timers \ {s} /\ requests' \in {requests, requests \union {s}}
        /\ fate' \in {fate, "lost"} /\ begun' = begun
    BY <1>14 DEF SearchTimerFires
  <2>2. timers' \subseteq 1 .. begun /\ requests' \subseteq 1 .. begun /\ timers' \intersect requests' = {}
    BY <2>1
  <2> QED BY <1>14, <2>1, <2>2, RenderedType DEF SearchTimerFires, Digest, form
<1>15. ASSUME NEW s \in 1 .. MaxSearches, NEW titles \in AnswerLists, Answered(s, titles) PROVE TypeOK'
  <2>1. scope' \in Scopes
    BY <1>15, AnswersAssumption DEF Answered, ProcessResults, Scopes
  <2>2. shown' \in 0 .. begun' /\ fate' \in {"none", "pending", "lost", "answered", "overtaken"}
    BY <1>15 DEF Answered, ProcessResults
  <2> QED BY <1>15, <2>1, <2>2, RenderedType DEF Answered, ProcessResults, Digest, form
<1>16. ASSUME NEW s \in 1 .. MaxSearches, Failed(s) PROVE TypeOK'
  BY <1>16, RenderedType DEF Failed, Digest, form
<1>17. CASE UNCHANGED vars
  BY <1>17 DEF vars, search, form
<1> QED BY <1>1, <1>2, <1>3, <1>4, <1>5, <1>6, <1>7, <1>8, <1>9, <1>10, <1>11, <1>12, <1>13,
           <1>14, <1>15, <1>16, <1>17 DEF Next, UserEvent, Complete

\* The scope, its timers and the history stay in their types; no search both waits and
\* is under way, whichever keys, timers and answers come.
THEOREM TypeCorrect == Spec => []TypeOK
<1>1. TypeOK /\ [Next]_vars => TypeOK'
  BY NextType
<1> QED BY InitType, <1>1, PTL DEF Spec

-----------------------------------------------------------------------------
\* The only timer that can be pending is that of the last search; the rest of what
\* is kept are properties that need nothing else.
Kept ==
  /\ timers \subseteq {begun}
  /\ SearchingMeansUnderWay
  /\ ScreenCatchesUp
  /\ OldListOnlyMeanwhile
  /\ NoHidingWhileTyping

\* The page as it was loaded.
LEMMA InitKept == Init => Kept
BY DEF Init, Kept, SearchingMeansUnderWay, ScreenCatchesUp, OldListOnlyMeanwhile, NoHidingWhileTyping

\* A step that ends with a digest and leaves searches alone, but for clearing the list.
LEMMA PlainKeeps ==
  ASSUME Kept, UNCHANGED <<search, requests, shown>>, Digest,
         scope'.searching = scope.searching,
         scope'.results = scope.results \/ scope'.results = <<>>,
         focused' => ~hiding'
  PROVE  Kept'
<1>1. begun' = begun /\ timers' = timers /\ requests' = requests /\ fate' = fate /\ shown' = shown
  BY DEF search
<1>2. SearchingMeansUnderWay'
  BY <1>1 DEF Kept, SearchingMeansUnderWay
<1>3. ScreenCatchesUp'
  BY DEF Digest, ScreenCatchesUp
<1>4. OldListOnlyMeanwhile'
  BY <1>1 DEF Kept, OldListOnlyMeanwhile
<1> QED BY <1>1, <1>2, <1>3, <1>4 DEF Kept, NoHidingWhileTyping

\* keyPressed() and what the key adds: the last three hypotheses say how little the
\* keys differ.
LEMMA KeyKeeps ==
  ASSUME TypeOK, Kept, KeyPressed,
         scope'.searching = Pressed.searching,
         scope'.results = Pressed.results \/ scope'.results = <<>>,
         (scope' = Pressed /\ UNCHANGED screen) \/ Digest
  PROVE  Kept'
<1>1. requests' = requests /\ hiding' = hiding /\ focused' = focused /\ shown' = shown
  BY DEF KeyPressed
<1>2. CASE isNewSearchNeeded
  <2>1. scope.searchStr # Empty
    BY <1>2, EmptyIsNoTerm
  <2>2. begun' = begun + 1 /\ timers' = (timers \ {begun}) \union {begun'} /\ fate' = "pending"
    BY <1>2, <2>1 DEF KeyPressed, Restart
  <2>3. timers' \subseteq {begun'} /\ begun' \in timers'
    BY <2>2 DEF Kept
  <2>4. SearchingMeansUnderWay' /\ OldListOnlyMeanwhile'
    BY <2>2, <2>3 DEF SearchingMeansUnderWay, OldListOnlyMeanwhile
  <2>5. ScreenCatchesUp'
    BY <2>3 DEF ScreenCatchesUp
  <2> QED BY <1>1, <2>3, <2>4, <2>5 DEF Kept, NoHidingWhileTyping
<1>3. CASE ~isNewSearchNeeded
  <2>1. begun' = begun /\ timers' = timers /\ fate' = fate
    BY <1>3 DEF KeyPressed, search
  <2>2. Pressed.searching = scope.searching /\ Pressed.results = scope.results
    BY <1>3 DEF Pressed, TypeOK, Scopes
  <2>3. SearchingMeansUnderWay'
    BY <1>1, <2>1, <2>2 DEF Kept, SearchingMeansUnderWay
  <2>4. OldListOnlyMeanwhile'
    BY <1>1, <2>1, <2>2 DEF Kept, OldListOnlyMeanwhile
  <2>5. ScreenCatchesUp'
    <3>1. CASE Digest
      BY <3>1 DEF Digest, ScreenCatchesUp
    <3>2. CASE scope' = Pressed /\ UNCHANGED screen /\ scope.searchStr = Empty
      BY <3>2 DEF Pressed, ScreenCatchesUp, TypeOK, Scopes
    <3>3. CASE scope' = Pressed /\ UNCHANGED screen /\ scope.searchStr # Empty
      BY <1>3, <3>3, <2>1 DEF Pressed, Kept, ScreenCatchesUp
    <3> QED BY <3>1, <3>2, <3>3
  <2> QED BY <1>1, <2>1, <2>3, <2>4, <2>5 DEF Kept, NoHidingWhileTyping
<1> QED BY <1>2, <1>3

\* Every event keeps the invariant.
LEMMA NextKeeps ==
  ASSUME TypeOK, Kept, [Next]_vars
  PROVE  Kept'
<1>1. CASE Focus
  BY <1>1, PlainKeeps DEF Focus
<1>2. CASE Blur
  BY <1>2, PlainKeeps DEF Blur
<1>3. ASSUME NEW text \in Texts, Type(text) PROVE Kept'
  <2>1. scope'.searching = scope.searching /\ scope'.results = scope.results
    BY <1>3 DEF Type, TypeOK, Scopes
  <2> QED BY <1>3, <2>1, PlainKeeps DEF Type, Kept, NoHidingWhileTyping
<1>4. CASE CharacterKey
  BY <1>4, KeyKeeps DEF CharacterKey
<1>5. CASE Backspace
  <2>1. scope'.searching = Pressed.searching /\ scope'.results = Pressed.results
    BY <1>5, PressedType DEF Backspace, TypeOK, Scopes
  <2> QED BY <1>5, <2>1, KeyKeeps DEF Backspace
<1>6. CASE Escape
  <2>1. scope'.searching = Pressed.searching /\ scope'.results = <<>>
    BY <1>6, PressedType DEF Escape, TypeOK, Scopes
  <2> QED BY <1>6, <2>1, KeyKeeps DEF Escape
<1>7. CASE Down \/ Up \/ Hover
  <2>1. scope'.searching = scope.searching /\ scope'.results = scope.results
    BY <1>7 DEF Down, Up, Hover, TypeOK, Scopes
  <2> QED BY <1>7, <2>1, PlainKeeps DEF Down, Up, Hover, Kept, NoHidingWhileTyping
<1>8. CASE Enter \/ Click
  <2>1. scope'.searching = scope.searching /\ scope'.results = <<>>
    BY <1>8 DEF Enter, Click, Select, TypeOK, Scopes
  <2> QED BY <1>8, <2>1, PlainKeeps DEF Enter, Click, Kept, NoHidingWhileTyping
<1>9. CASE Submit
  BY <1>9, PlainKeeps DEF Submit, Kept, NoHidingWhileTyping
<1>10. CASE HideTimerFires
  <2>1. scope'.searching = scope.searching /\ scope'.results = scope.results
    BY <1>10 DEF HideTimerFires, TypeOK, Scopes
  <2> QED BY <1>10, <2>1, PlainKeeps DEF HideTimerFires
<1>11. ASSUME NEW s \in 1 .. MaxSearches, SearchTimerFires(s) PROVE Kept'
  <2>1. s = begun /\ timers' = {} /\ begun' = begun /\ scope' = scope /\ shown' = shown
    BY <1>11 DEF SearchTimerFires, Kept
  <2>2. \/ requests' = requests \union {s} /\ fate' = fate
        \/ fate' = "lost"
    BY <1>11 DEF SearchTimerFires
  <2>3. SearchingMeansUnderWay' /\ OldListOnlyMeanwhile'
    BY <2>1, <2>2 DEF Kept, SearchingMeansUnderWay, OldListOnlyMeanwhile
  <2> QED BY <1>11, <2>1, <2>3 DEF SearchTimerFires, Digest, Kept, ScreenCatchesUp, NoHidingWhileTyping
<1>12. ASSUME NEW s \in 1 .. MaxSearches, NEW titles \in AnswerLists, Answered(s, titles) PROVE Kept'
  <2>1. ~scope'.searching /\ shown' = s /\ begun' = begun /\ timers' = timers
    BY <1>12 DEF Answered, ProcessResults, TypeOK, Scopes
  <2>2. fate' = "answered" => s = begun
    BY <1>12 DEF Answered
  <2>3. SearchingMeansUnderWay' /\ OldListOnlyMeanwhile'
    BY <2>1, <2>2 DEF SearchingMeansUnderWay, OldListOnlyMeanwhile
  <2> QED BY <1>12, <2>1, <2>3 DEF Answered, Digest, Kept, ScreenCatchesUp, NoHidingWhileTyping
<1>13. ASSUME NEW s \in 1 .. MaxSearches, Failed(s) PROVE Kept'
  <2>1. requests' = requests \ {s} /\ begun' = begun /\ timers' = timers /\ scope' = scope /\ shown' = shown
    BY <1>13 DEF Failed
  <2>2. \/ s = begun /\ fate' = "lost"
        \/ s # begun /\ fate' = fate
    BY <1>13 DEF Failed
  <2>3. SearchingMeansUnderWay' /\ OldListOnlyMeanwhile'
    BY <2>1, <2>2 DEF Kept, SearchingMeansUnderWay, OldListOnlyMeanwhile
  <2> QED BY <1>13, <2>1, <2>3 DEF Failed, Digest, Kept, ScreenCatchesUp, NoHidingWhileTyping
<1>14. CASE UNCHANGED vars
  BY <1>14 DEF vars, search, form, Kept, SearchingMeansUnderWay, ScreenCatchesUp, OldListOnlyMeanwhile,
              NoHidingWhileTyping, Rendered
<1> QED BY <1>1, <1>2, <1>3, <1>4, <1>5, <1>6, <1>7, <1>8, <1>9, <1>10, <1>11, <1>12, <1>13, <1>14
           DEF Next, UserEvent, Complete

\* The invariant holds in every reachable state.
LEMMA KeptAlways == Spec => [](TypeOK /\ Kept)
<1>1. Init => TypeOK /\ Kept
  BY InitType, InitKept
<1>2. TypeOK /\ Kept /\ [Next]_vars => (TypeOK /\ Kept)'
  BY NextType, NextKeeps
<1> QED BY <1>1, <1>2, PTL DEF Spec

\* However fast the user types, no two search timers are pending: keyPressed() cancels
\* the one before.
THEOREM OneTimer == Spec => []OnePendingTimer
<1>1. Kept => OnePendingTimer
  <2> SUFFICES ASSUME Kept PROVE Cardinality(timers) <= 1
    BY DEF OnePendingTimer
  <2>1. timers \subseteq {begun}
    BY DEF Kept
  <2>2. IsFiniteSet({begun}) /\ Cardinality({begun}) = 1
    BY FS_Singleton
  <2>3. Cardinality(timers) <= Cardinality({begun})
    BY <2>1, <2>2, FS_Subset
  <2>4. Cardinality(timers) \in Nat
    BY <2>1, <2>2, FS_Subset, FS_CardinalityType
  <2> QED BY <2>2, <2>3, <2>4
<1> QED BY <1>1, KeptAlways, PTL

\* "Searching..." is shown for a search that waits, is under way or was lost.
THEOREM SearchingIsHonest == Spec => []SearchingMeansUnderWay
<1>1. Kept => SearchingMeansUnderWay
  BY DEF Kept
<1> QED BY <1>1, KeptAlways, PTL

\* What the screen does not show yet, a pending timer will bring to it.
THEOREM ScreenFollows == Spec => []ScreenCatchesUp
<1>1. Kept => ScreenCatchesUp
  BY DEF Kept
<1> QED BY <1>1, KeptAlways, PTL

\* Once the last search is answered and none of the others after it, its results are
\* the ones listed.
THEOREM LastAnswerShown == Spec => []OldListOnlyMeanwhile
<1>1. Kept => OldListOnlyMeanwhile
  BY DEF Kept
<1> QED BY <1>1, KeptAlways, PTL

\* No timer hides the dropdown from a user who is in the field.
THEOREM TypingIsUndisturbed == Spec => []NoHidingWhileTyping
<1>1. Kept => NoHidingWhileTyping
  BY DEF Kept
<1> QED BY <1>1, KeptAlways, PTL

\* Only a new search opens the dropdown.
THEOREM SearchOpens == Spec => OpensForSearchOnly
<1>1. ASSUME TypeOK, [Next]_vars, ~scope.showDropdown, scope'.showDropdown
      PROVE  begun' = begun + 1
  <2>1. CASE KeyPressed /\ scope'.showDropdown = Pressed.showDropdown
    <3>1. isNewSearchNeeded
      BY <1>1, <2>1 DEF Pressed, TypeOK, Scopes
    <3> QED BY <2>1, <3>1, EmptyIsNoTerm DEF KeyPressed, Restart
  <2>2. CASE CharacterKey
    BY <2>1, <2>2 DEF CharacterKey
  <2>3. CASE Backspace
    <3>1. scope'.showDropdown = Pressed.showDropdown
      BY <2>3, PressedType, <1>1 DEF Backspace, TypeOK, Scopes
    <3> QED BY <2>1, <2>3, <3>1 DEF Backspace
  <2>4. CASE Escape
    BY <1>1, <2>4, PressedType DEF Escape, TypeOK, Scopes
  <2>5. CASE Focus \/ Blur \/ (\E text \in Texts : Type(text)) \/ Down \/ Up \/ Hover \/ Submit \/ HideTimerFires
    BY <1>1, <2>5 DEF Focus, Blur, Type, Down, Up, Hover, Submit, HideTimerFires, TypeOK, Scopes
  <2>6. CASE Enter \/ Click
    BY <1>1, <2>6 DEF Enter, Click, Select, TypeOK, Scopes
  <2>7. ASSUME NEW s \in 1 .. MaxSearches, SearchTimerFires(s) \/ Complete(s) PROVE FALSE
    BY <1>1, <2>7 DEF SearchTimerFires, Complete, Answered, ProcessResults, Failed, TypeOK, Scopes
  <2>8. CASE UNCHANGED vars
    BY <1>1, <2>8 DEF vars
  <2> QED BY <1>1, <2>2, <2>3, <2>4, <2>5, <2>6, <2>7, <2>8 DEF Next, UserEvent
<1>2. TypeOK /\ [Next]_vars
        => [~scope.showDropdown /\ scope'.showDropdown => begun' = begun + 1]_vars
  BY <1>1
<1> QED BY <1>2, TypeCorrect, PTL DEF Spec, OpensForSearchOnly

=============================================================================
