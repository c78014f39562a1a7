SPECIFICATION HandlerSpec
CONSTANTS
  callback = callback  None = None
  Targets = {callback}
INVARIANT AnsweredOnce
INVARIANT ErrorsTellTheProtocolOnly
CHECK_DEADLOCK FALSE
