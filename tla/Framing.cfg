\* Three messages, segments that end anywhere, and both kinds of reader.
CONSTANTS
  LengthSize = 2
  Base = 4
  MaxAlloc = 6
  Payloads <- Chosen
  MaxFrames = 3
  Readers <- BothReaders
SPECIFICATION Spec
INVARIANTS
  TakenIsSent
  NothingSkipped
  ThrowHasACause
PROPERTIES
  EveryFrameIsTaken
  GoneReaderLeaves
\* Peers stop sending, and readers end.
CHECK_DEADLOCK FALSE
