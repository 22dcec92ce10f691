CONSTANTS
  Videos = {"VIDEO_NONE", "VIDEO_1920X1080_60"}
  Audios = {"AUDIO_NONE", "AUDIO_44100_16_2"}
  LastPort = 6998
  TakenPorts = {6699, 6701, 6998}
  DecoderSizes = {0, 7, 8}
  DecoderModes = {0, 1}
  MaxRetry = 1
  MaxIdr = 0
  MaxChunk = 2
  MaxKeepAlive = 0
  MaxCounts = 1
  MaxFragments = 1
  MayLose = TRUE
  MayExpire = TRUE
  MayReport = TRUE
  MayInterrupt = TRUE
  MayStop = FALSE
SPECIFICATION Spec
INVARIANTS AwaitedIsTimed 
PROPERTIES SinkNeverHangs InterruptAnswered
CHECK_DEADLOCK FALSE
