SPECIFICATION Spec
CONSTANTS
  Scripts <- MCScripts
  KeyOf <- MCKeyOf
  LengthOf <- MCLengthOf
  ChunkedHeaders = {"chunked"}
  MultipartHeaders = {"multipart"}
  ChunkSizeOf <- MCChunkSizeOf
INVARIANTS
  MessagesAreAsSent
  Matched
  RefusesOnlyMalformed
CHECK_DEADLOCK FALSE
