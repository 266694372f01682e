CONSTANTS
  Client = {"reader", "analyzer"}
  BufferItemCount = 2
  MaxMessages = 5
  LogIsPrompt = TRUE
SPECIFICATION FairSpec
INVARIANTS
  TypeOK
  BuffersGuarded
  FileInOrder
  NoMissedWakeup
PROPERTIES
  ImplementsLog
  MessagesAreTaken
  KillEndsLogger
