SPECIFICATION FairSpec
CONSTANTS
  bare = bare
  rich = rich
  Urls = {bare, rich}
  Answers <- MCAnswers
  Threads = {t1, t2}
  NoToken = NoToken
  MaxTime = 2
  MaxRestarts = 1
PROPERTIES
  UnfiredOnlyByOverlap
  HarvestBegins
  FruitlessHarvestEnds
