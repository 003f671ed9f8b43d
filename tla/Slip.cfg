CONSTANTS
  Plain <- MCPlain
  Payloads <- MCPayloads
  MaxFrames = 3
  MaxLost = 1
SPECIFICATION Spec
INVARIANTS FramesDelivered OneFaultHarmless LagsByOne ShortWriteSpoilsOneFrame
