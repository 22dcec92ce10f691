CONSTANTS
  Videos = {"VIDEO_NONE"}
  Audios = {"AUDIO_NONE"}
  LastPort = 6700
  TakenPorts = {}
  DecoderSizes = {0, 7}
  DecoderModes = {0, 1}
  MaxRetry = 1
  MaxIdr = 1
  MaxChunk = 2
  MaxKeepAlive = 1
  MaxCounts = 1
  MaxFragments = 0
  MayLose = FALSE
  MayExpire = FALSE
  MayReport = FALSE
  MayInterrupt = FALSE
  MayStop = TRUE
SPECIFICATION Spec
INVARIANTS  PoolSendSafe
PROPERTIES ImplementsCast NegotiationCompletes StopCompletes
CHECK_DEADLOCK FALSE
