\* Two senders, two listeners whose channels hold one event, Close at any time.
CONSTANTS
  requests = requests
  progress = progress
  ipRecorder = ipRecorder
  tusdLogger = tusdLogger
  None = None
  Sender = {requests, progress}
  Listener = {ipRecorder, tusdLogger}
  Sends <- TwoUploads
  BufferSize = 1
SPECIFICATION FairSpec
INVARIANTS TypeOK EveryEventInOrder
PROPERTIES EveryEventIsTaken CloseEndsLoops
CHECK_DEADLOCK FALSE
