SPECIFICATION FairSpec
CONSTANTS
  Slots = {s1, s2}
  Scenes = {scene}
  SceneSize = 2
  NoKey = none
  Workers = {w1, w2}
  MaxSources = 2
  MaxGeneration = 3
CHECK_DEADLOCK FALSE
PROPERTY NewestAnswered
