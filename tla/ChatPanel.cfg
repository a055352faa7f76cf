SPECIFICATION Spec
\* Without a list of chats, and with none left to create, nothing can be done.
CHECK_DEADLOCK FALSE

CONSTANTS
 chat1 = chat1
 chat2 = chat2
 Chats = {chat1, chat2}
 Existing = {chat1}
 None = None
 MaxStreams = 2
 MaxChunks = 1
 MaxOps = 1

INVARIANTS
    TypeOK
    AnswersStayInTheirChat
    OneLiveStream
    AnswersAreNotMixed
    CacheAgrees
