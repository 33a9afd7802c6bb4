SPECIFICATION FairSpec
CONSTANTS
  water = water
  climate = climate
  Terms = {water, climate}
  ShortTexts = {wa}
  Empty = Empty
  None = None
  Undefined = Undefined
  AnswerLists <- MCAnswerLists
  MaxSearches = 3
INVARIANTS
  OnePendingTimer
  SearchingMeansUnderWay
  ScreenCatchesUp
  OldListOnlyMeanwhile
  NoHidingWhileTyping
PROPERTIES
  OpensForSearchOnly
  SearchingEnds
