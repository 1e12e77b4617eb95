CONSTANTS
  Channels <- MCChannels
  Bytes <- MCBytes
  MaxPayload <- MCMaxPayload
  MaxFrames <- MCMaxFrames
  MaxBlock <- MCMaxBlock
  MaxFrameLen <- MCMaxFrameLen
  MaxFlips = 1
SPECIFICATION Spec
INVARIANTS TypeOK RoundTripExact
CHECK_DEADLOCK FALSE
