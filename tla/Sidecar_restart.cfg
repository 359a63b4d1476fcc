SPECIFICATION FairSpec
CONSTANTS
  MaxSpawns = 2
  MaxCalls = 3
  None = None
INVARIANTS AnswerIsOwn CancelledWasAsked HandshakeFirst
PROPERTIES EndsWithChild
