SPECIFICATION FairSpec
CONSTANTS
  None = None
  Workers = {w0, w1}
  Loops = {summary}
  Requests = {clear}
  Keys = {api, db}
  Window = 1
  MaxTime = 1
  MaxEvents = 2
PROPERTY BufferedIsCorrelated
CHECK_DEADLOCK FALSE
