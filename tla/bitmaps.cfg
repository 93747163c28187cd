SPECIFICATION FairSpec
CONSTANTS
  NPixels = 3
  MaxFrames = 6
INVARIANTS
  TypeOK
  NeverSameBitmap
  NoTornPicture
PROPERTIES
  ImplementsChannel
  OfferedIsShown
  CloseEnds
  CloseProgress
