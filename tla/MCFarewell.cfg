CONSTANTS
  People = {1, 2}
  Size <- Sizes
  Rivals = 1
  MaxFrames = 0
SPECIFICATION Spec
INVARIANT OnlyPeerSpeaks
