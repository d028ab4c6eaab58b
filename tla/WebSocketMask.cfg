SPECIFICATION WsSpec
CONSTANTS
  MaxSize = 5
  MaxPayload = 2
  MaxFrames = 3
INVARIANT MessageWasSent
\* The peer ends, or the frames are used up.
CHECK_DEADLOCK FALSE
