SPECIFICATION Spec
CONSTANTS
  Images = {0, 1}
  TextLengths = {1, 237, 238, 246, 253}
  MaxTry = 2
INVARIANTS DriverTypeOK FramesFit MessagesDecode ContentReadsBack ErrorsAreExplained
PROPERTY ImplementsTagCommand
