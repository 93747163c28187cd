SPECIFICATION FairSpec
PROPERTIES
  QuitEnds
