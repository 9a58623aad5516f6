SPECIFICATION FairSpec
CONSTANTS
  Versions <- TwoImages
  NLayers = 2
  Poll = poll
  Hands = {}
  MaxPushes = 1
  MaxFaults = 0
  MaxRestarts = 0
  MaxExits = 0
PROPERTY NewerIsPulled
