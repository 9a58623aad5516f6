SPECIFICATION FairSpec
CONSTANTS
  Versions <- TwoImages
  NLayers = 2
  Poll = poll
  Hands = {hand}
  MaxPushes = 2
  MaxFaults = 1
  MaxRestarts = 1
  MaxExits = 1
INVARIANTS ChildFits RecordFits KeepsImage
PROPERTIES KeepsPromise Settles
CONSTRAINT NotShared
