CONSTANTS
  Client = {"reader", "analyzer"}
  BufferItemCount = 2
  MaxMessages = 3
  LogIsPrompt = TRUE
SPECIFICATION Spec
INVARIANT RemainingAreLogged
