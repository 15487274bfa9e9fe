SPECIFICATION FairSpec
CONSTANTS
  Slots = {s1, s2}
  Scenes = {scene}
  SceneSize = 2
  NoKey = none
  Workers = {w1, w2}
  MaxSources = 3
  MaxGeneration = 3
INVARIANTS ReadyIsStaged StagedIsAwaited
CHECK_DEADLOCK FALSE
PROPERTIES LostOnlyToOverwrite NewestAnsweredUnlessLost
