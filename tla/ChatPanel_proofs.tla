-------------------------- MODULE ChatPanel_proofs --------------------------
(***************************************************************************)
(* Proofs about ChatPanel: where answers go, the one live stream of the    *)
(* window, and that the cache of a chat agrees with the server.            *)
(***************************************************************************)
EXTENDS ChatPanel, FiniteSetTheorems, TLAPS

-----------------------------------------------------------------------------
(***************************************************************************)
(* The inductive invariants.                                               *)
(***************************************************************************)

\* OneLiveStream, and that the window waits for a request that was made.
LiveStream == OneLiveStream /\ (streaming => Len(streams) > 0)

\* Messages that were asked, or answer what was asked, in chat c.
Belong(ms, c, questions) ==
    \A i \in DOMAIN ms :
        ms[i].of \in DOMAIN questions /\ questions[ms[i].of].chat = c
MessagesBelong ==
    /\ \A c \in Chats : Belong(history[c], c, streams)
    /\ \A c \in Chats : messages[c] # None => Belong(messages[c], c, streams)
    /\ \A l \in loads : l.got # None => Belong(l.got, l.chat, streams)

Asked(c) == \E k \in DOMAIN streams : streams[k].chat = c

\* The view knows nothing of a chat that was never created, and no chat that
\* was deleted comes back.
OnlyKnownChats ==
    /\ rows \cap gone = {} /\ deleting \subseteq gone
    /\ chats \cup listing.got \cup tabs \cup creating \subseteq rows \cup gone
    /\ \A l \in loads : l.chat \in rows \cup gone
    /\ \A c \in Chats \ (rows \cup gone) :
        messages[c] = None /\ history[c] = <<>> /\ ~Asked(c)

\* A question makes its chat cached or raced: one that is not cached, or whose
\* messages or creation are still awaited, has no questions yet.
QuestionsCached ==
    /\ \A c \in rows : ~Asked(c) => history[c] = <<>>
    /\ \A c \in rows \ raced :
        messages[c] = None \/ c \in creating => ~Asked(c)
    /\ \A l \in loads : l.chat \in rows \ raced =>
        ~Asked(l.chat) /\ (l.got # None => l.got = history[l.chat])

\* How far the cache is from what the server has: by what the request under
\* way has done so far.
Open(k, c) == streams[k].chat = c /\ streams[k].client = "open"
Synchronized(c) ==
    /\ (\A k \in DOMAIN streams : ~Open(k, c)) => messages[c] = history[c]
    /\ \A k \in DOMAIN streams : Open(k, c) =>
        CASE streams[k].server = "sent" -> messages[c] = Append(history[c], Question(k))
          [] streams[k].server = "accepted" -> messages[c] = history[c]
          [] streams[k].server = "finished" -> history[c] = Append(messages[c], Answer(k))
CacheFollows ==
    \A c \in rows \ raced :
        /\ messages[c] # None
        /\ \A k \in DOMAIN streams :
              streams[k].chat = c => streams[k].client \in {"open", "done"}
        => Synchronized(c)

-----------------------------------------------------------------------------
(***************************************************************************)
(* Facts about the operators the actions are built from.                   *)
(***************************************************************************)

\* A message appended to what is cached of a chat.
LEMMA AppendedType ==
    ASSUME TypeOK, NEW c \in Chats, NEW k \in 1 .. MaxStreams,
           NEW m \in {Question(k), Answer(k)}
    PROVE  Appended(c, m) \in Messages /\ Appended(c, m) # None
<1>1. m \in [role : {"user", "assistant"}, of : 1 .. MaxStreams]
  BY DEF Question, Answer
<1>2. messages[c] # None => messages[c] \in Messages
  BY DEF TypeOK
<1>3. Appended(c, m) \in Messages
  BY <1>1, <1>2 DEF Appended, Messages
<1> QED
  BY <1>3, NoneAssumption

\* A request of the window that ends: nothing else about it changes.
LEMMA EndedType ==
    ASSUME TypeOK, NEW k \in DOMAIN streams,
           NEW how \in {"done", "failed", "aborted", "silent"}
    PROVE  /\ Ended(k, how) \in Stream /\ Abort(k) \in Stream
           /\ Ended(k, how).chat = streams[k].chat /\ Abort(k).chat = streams[k].chat
           /\ Ended(k, how).client = how
           /\ streams[k].client = "open" => Abort(k).client = "aborted"
           /\ streams[k].client # "open" => Abort(k) = streams[k]
<1>1. streams[k] \in Stream
  BY DEF TypeOK
<1>2. \A h \in {"done", "failed", "aborted", "silent"} :
        /\ Ended(k, h) \in Stream
        /\ Ended(k, h).chat = streams[k].chat /\ Ended(k, h).client = h
  <2> SUFFICES ASSUME NEW h \in {"done", "failed", "aborted", "silent"}
               PROVE  /\ Ended(k, h) \in Stream
                      /\ Ended(k, h).chat = streams[k].chat /\ Ended(k, h).client = h
    OBVIOUS
  <2>1. 0 \in 0 .. MaxChunks
    BY ConstantsAssumption
  <2>2. Ended(k, h) = [chat |-> streams[k].chat, server |-> "finished", sent |-> 0, client |-> h]
    BY DEF Ended
  <2>3. streams[k].chat \in Chats
    BY <1>1 DEF Stream
  <2> QED
    BY <2>1, <2>2, <2>3 DEF Stream
<1> QED
  BY <1>1, <1>2 DEF Abort

\* Another tab comes to the front; without one, the window and its request end.
LEMMA FrontFacts ==
    ASSUME TypeOK, NEW d \in Chats \cup {None}, Front(d)
    PROVE  /\ active' = d
           /\ d # None => UNCHANGED <<windowVars, streams>>
           /\ d = None => streaming' = FALSE /\ buffer' = <<>> /\ ref' = <<>> /\ effect' = None
           /\ streaming' \in BOOLEAN
           /\ buffer' \in Text /\ rendered' \in Text /\ ref' \in Text
           /\ effect' \in Text \cup {None}
           /\ streams' \in Seq(Stream) /\ Len(streams') = Len(streams)
           /\ \A k \in DOMAIN streams :
                /\ streams'[k].chat = streams[k].chat
                /\ streams[k].client # "open" => streams'[k] = streams[k]
                /\ d = None => streams'[k].client # "open"
                /\ streams[k].client = "open" =>
                    streams'[k] = streams[k] \/ streams'[k].client = "aborted"
<1>1. CASE d # None
  BY <1>1 DEF Front, windowVars, TypeOK
<1>2. CASE d = None
  <2>1. /\ active' = d /\ streaming' = FALSE /\ effect' = None
        /\ buffer' = <<>> /\ rendered' = <<>> /\ ref' = <<>>
        /\ streams' = [k \in DOMAIN streams |-> Abort(k)]
    BY <1>2 DEF Front, CloseWindow, AbortOnUnmount
  <2>2. <<>> \in Text
    BY DEF Text
  <2>3. streams \in Seq(Stream) /\ DOMAIN streams = 1 .. Len(streams) /\ Len(streams) \in Nat
    BY DEF TypeOK
  <2>4. \A k \in DOMAIN streams : Abort(k) \in Stream
    BY EndedType
  <2>5. streams' \in Seq(Stream) /\ Len(streams') = Len(streams)
    BY <2>1, <2>3, <2>4
  <2>6. \A k \in DOMAIN streams : streams'[k] = Abort(k)
    BY <2>1
  <2> QED
    BY <1>2, <2>1, <2>2, <2>5, <2>6, EndedType
<1> QED
  BY <1>1, <1>2

\* A new request for messages is for a chat nothing is cached of.
LEMMA RequestType ==
    ASSUME TypeOK, IsFiniteSet(loads), NEW d \in Chats
    PROVE  Request(d) \in Load /\ Request(d).chat = d /\ Request(d).got = None
<1>1. IsFiniteSet({l \in loads : l.chat = d})
  BY FS_Subset
<1>2. Cardinality({l \in loads : l.chat = d}) \in Nat
  BY <1>1, FS_CardinalityType
<1> QED
  BY <1>2 DEF Request, Load

\* ensureChatMessages asks for a chat it does not have, once, or does nothing.
LEMMA EnsureFacts ==
    ASSUME TypeOK, IsFiniteSet(loads), NEW d \in Chats \cup {None}, EnsureChatMessages(d)
    PROVE  /\ loading' \subseteq Chats /\ loads' \subseteq Load /\ IsFiniteSet(loads')
           /\ \A l \in loads' :
                l \in loads \/ (l.chat = d /\ d \in Chats /\ messages[d] = None /\ l.got = None)
<1>1. CASE d # None /\ MustLoad(d)
  <2>1. loading' = loading \cup {d} /\ loads' = loads \cup {Request(d)} /\ d \in Chats
    BY <1>1 DEF EnsureChatMessages
  <2>2. IsFiniteSet(loads')
    BY <2>1, FS_AddElement
  <2> QED
    BY <1>1, <2>1, <2>2, RequestType DEF TypeOK, MustLoad
<1>2. CASE ~(d # None /\ MustLoad(d))
  BY <1>2 DEF EnsureChatMessages, TypeOK
<1> QED
  BY <1>1, <1>2

-----------------------------------------------------------------------------
(***************************************************************************)
(* Types.                                                                  *)
(***************************************************************************)

Types == TypeOK /\ IsFiniteSet(loads)

\* Every step keeps the types.
LEMMA TypesStep == Types /\ [Next]_vars => Types'
<1> SUFFICES ASSUME TypeOK, IsFiniteSet(loads), [Next]_vars
             PROVE  TypeOK' /\ IsFiniteSet(loads')
  BY DEF Types
<1> USE DEF serverVars, cacheVars, opVars, tabVars, windowVars
<1>1. CASE ListRead \/ ListArrives \/ ListFails
  BY <1>1 DEF ListRead, ListArrives, ListFails, TypeOK
<1>2. ASSUME NEW l \in loads, LoadRead(l) PROVE TypeOK' /\ IsFiniteSet(loads')
  <2>1. l \in Load /\ history[l.chat] \in Messages
    BY DEF TypeOK, Load
  <2>2. [l EXCEPT !.got = history[l.chat]] \in Load
    BY <2>1 DEF Load
  <2>3. loads' = (loads \ {l}) \cup {[l EXCEPT !.got = history[l.chat]]}
    BY <1>2 DEF LoadRead
  <2>4. IsFiniteSet(loads')
    BY <2>3, FS_RemoveElement, FS_AddElement
  <2>5. loads' \subseteq Load
    BY <2>2, <2>3 DEF TypeOK
  <2> QED
    BY <1>2, <2>4, <2>5 DEF LoadRead, TypeOK
<1>3. ASSUME NEW l \in loads, LoadArrives(l) PROVE TypeOK' /\ IsFiniteSet(loads')
  <2>1. l \in Load /\ l.got \in Messages \cup {None}
    BY DEF TypeOK, Load
  <2>2. IsFiniteSet(loads')
    BY <1>3, FS_RemoveElement DEF LoadArrives
  <2> QED
    BY <1>3, <2>1, <2>2 DEF LoadArrives, TypeOK
<1>4. ASSUME NEW l \in loads, LoadFails(l) PROVE TypeOK' /\ IsFiniteSet(loads')
  <2>1. IsFiniteSet(loads')
    BY <1>4, FS_RemoveElement DEF LoadFails
  <2> QED
    BY <1>4, <2>1 DEF LoadFails, TypeOK
<1>5. ASSUME NEW c \in Chats, OpenChat(c) PROVE TypeOK' /\ IsFiniteSet(loads')
  BY <1>5, FrontFacts, EnsureFacts DEF OpenChat, TypeOK
<1>6. ASSUME NEW c \in Chats, CloseTab(c) PROVE TypeOK' /\ IsFiniteSet(loads')
  <2>1. CASE active # c /\ UNCHANGED <<active, windowVars, streams, loading, loads>>
    BY <1>6, <2>1 DEF CloseTab, TypeOK
  <2>2. ASSUME NEW d \in Remaining(c), Front(d), EnsureChatMessages(d)
        PROVE  TypeOK' /\ IsFiniteSet(loads')
    <3>1. d \in Chats \cup {None} /\ d \in (tabs \ {c}) \cup {None}
      BY <2>2 DEF Remaining, TypeOK
    <3> QED
      BY <1>6, <2>2, <3>1, FrontFacts, EnsureFacts DEF CloseTab, TypeOK
  <2> QED
    BY <1>6, <2>1, <2>2 DEF CloseTab
<1>7. ASSUME NEW c \in Chats, Ask(c) PROVE TypeOK' /\ IsFiniteSet(loads')
  <2> DEFINE k == Len(streams) + 1
             new == [chat |-> c, server |-> "sent", sent |-> 0, client |-> "open"]
  <2>1. k \in 1 .. MaxStreams /\ Len(streams) \in Nat
    BY <1>7, ConstantsAssumption DEF Ask, TypeOK
  <2>2. new \in Stream
    BY ConstantsAssumption DEF Stream
  <2>3. Append(streams, new) \in Seq(Stream) /\ Len(Append(streams, new)) = k
    BY <2>2 DEF TypeOK
  <2>4. Appended(c, Question(k)) \in Messages
    BY <2>1, AppendedType
  <2>5. <<>> \in Text
    BY DEF Text
  <2>6. streams' = Append(streams, new) /\ messages' = [messages EXCEPT ![c] = Appended(c, Question(k))]
    BY <1>7 DEF Ask
  <2> HIDE DEF k, new
  <2>7. streams' \in Seq(Stream) /\ Len(streams') <= MaxStreams
    BY <2>1, <2>3, <2>6, ConstantsAssumption
  <2>8. messages' \in [Chats -> Messages \cup {None}]
    BY <2>4, <2>6 DEF TypeOK
  <2> QED
    BY <1>7, <2>5, <2>7, <2>8 DEF Ask, TypeOK
<1>8. ASSUME NEW c \in Chats, OpFails(c) PROVE TypeOK' /\ IsFiniteSet(loads')
  BY <1>8 DEF OpFails, TypeOK
<1>9. ASSUME NEW c \in Chats, StartCreate(c) PROVE TypeOK' /\ IsFiniteSet(loads')
  BY <1>9 DEF StartCreate, TypeOK
<1>10. ASSUME NEW c \in Chats, CreateDone(c) PROVE TypeOK' /\ IsFiniteSet(loads')
  <2>1. <<>> \in Messages
    BY DEF Messages
  <2> QED
    BY <1>10, <2>1, FrontFacts DEF CreateDone, TypeOK
<1>11. ASSUME NEW c \in Chats, StartDelete(c) PROVE TypeOK' /\ IsFiniteSet(loads')
  <2>1. <<>> \in Messages
    BY DEF Messages
  <2> QED
    BY <1>11, <2>1 DEF StartDelete, TypeOK
<1>12. ASSUME NEW c \in Chats, DeleteDone(c) PROVE TypeOK' /\ IsFiniteSet(loads')
  <2>1. CASE active # c
    BY <1>12, <2>1 DEF DeleteDone, TypeOK
  <2>2. CASE active = c
    <3>1. PICK d \in Remaining(c) :
              /\ Front(d)
              /\ IF d # None /\ MustLoad(d)
                 THEN /\ loading' = (loading \ {c}) \cup {d}
                      /\ loads' = loads \cup {Request(d)}
                 ELSE loading' = loading \ {c} /\ UNCHANGED loads
      BY <1>12, <2>2 DEF DeleteDone
    <3>2. d \in Chats \cup {None} /\ d \in (tabs \ {c}) \cup {None}
      BY DEF Remaining, TypeOK
    <3>3. loading' \subseteq Chats /\ loads' \subseteq Load /\ IsFiniteSet(loads')
      BY <3>1, <3>2, RequestType, FS_AddElement DEF TypeOK
    <3> QED
      BY <1>12, <3>1, <3>2, <3>3, FrontFacts DEF DeleteDone, TypeOK
  <2> QED
    BY <2>1, <2>2
<1>13. CASE ShowFile
  BY <1>13, FrontFacts DEF ShowFile, TypeOK
<1>14. CASE Stop
  <2>1. Len(streams) \in DOMAIN streams
    BY <1>14 DEF Stop, TypeOK
  <2>2. Abort(Len(streams)) \in Stream
    BY <2>1, EndedType
  <2> QED
    BY <1>14, <2>2 DEF Stop, TypeOK
<1>15. CASE Render
  BY <1>15 DEF Render, TypeOK
<1>16. CASE RunEffect
  BY <1>16 DEF RunEffect, TypeOK
<1>17. ASSUME NEW k \in DOMAIN streams, ServerAccepts(k) \/ ServerFinishes(k)
       PROVE  TypeOK' /\ IsFiniteSet(loads')
  <2>1. k \in 1 .. MaxStreams /\ streams[k] \in Stream
    BY ConstantsAssumption DEF TypeOK
  <2>2. PICK m \in {Question(k), Answer(k)}, v \in {"accepted", "finished"} :
          /\ history' = [history EXCEPT ![streams[k].chat] = Append(@, m)]
          /\ streams' = [streams EXCEPT ![k].server = v]
          /\ UNCHANGED <<rows, gone, cacheVars, opVars, tabVars, windowVars>>
    BY <1>17 DEF ServerAccepts, ServerFinishes
  <2>3. m \in [role : {"user", "assistant"}, of : 1 .. MaxStreams]
    BY <2>1 DEF Question, Answer
  <2>4. [streams[k] EXCEPT !.server = v] \in Stream
    BY <2>1 DEF Stream
  <2>5. streams' \in Seq(Stream) /\ Len(streams') = Len(streams)
    BY <2>2, <2>4 DEF TypeOK
  <2>6. Append(history[streams[k].chat], m) \in Messages
    <3>1. history[streams[k].chat] \in Messages
      BY <2>1 DEF TypeOK, Stream
    <3> QED
      BY <2>3, <3>1 DEF Messages
  <2>7. history' \in [Chats -> Messages]
    BY <2>2, <2>6 DEF TypeOK
  <2> QED
    BY <2>2, <2>5, <2>7 DEF TypeOK
<1>18. ASSUME NEW k \in DOMAIN streams, Chunk(k) PROVE TypeOK' /\ IsFiniteSet(loads')
  <2>1. k \in 1 .. MaxStreams /\ streams[k] \in Stream
    BY ConstantsAssumption DEF TypeOK
  <2>2. streams[k].sent \in 0 .. MaxChunks /\ streams[k].sent < MaxChunks
    BY <1>18, <2>1 DEF Chunk, Stream
  <2>3. [of |-> k, n |-> streams[k].sent + 1] \in [of : 1 .. MaxStreams, n : 1 .. MaxChunks]
    BY <2>1, <2>2, ConstantsAssumption
  <2>4. [streams[k] EXCEPT !.sent = @ + 1] \in Stream
    <3>1. streams[k].sent + 1 \in 0 .. MaxChunks
      BY <2>2, ConstantsAssumption
    <3> QED
      BY <2>1, <3>1 DEF Stream
  <2>5. ref' \in Text
    BY <1>18, <2>3 DEF Chunk, TypeOK, Text
  <2>6. streams' \in Seq(Stream) /\ Len(streams') = Len(streams)
    BY <1>18, <2>4 DEF Chunk, TypeOK
  <2> QED
    BY <1>18, <2>5, <2>6 DEF Chunk, TypeOK
<1>19. ASSUME NEW k \in DOMAIN streams, Done(k) \/ StreamFails(k) \/ EndsSilently(k)
       PROVE  TypeOK' /\ IsFiniteSet(loads')
  <2>1. k \in 1 .. MaxStreams /\ streams[k] \in Stream
    BY ConstantsAssumption DEF TypeOK
  <2>2. <<>> \in Text
    BY DEF Text
  <2>3. streams' \in Seq(Stream) /\ Len(streams') = Len(streams)
    <3>1. PICK how \in {"done", "failed", "silent"} : streams' = [streams EXCEPT ![k] = Ended(k, how)]
      BY <1>19 DEF Done, StreamFails, EndsSilently
    <3>2. Ended(k, how) \in Stream
      BY EndedType
    <3> QED
      BY <3>1, <3>2 DEF TypeOK
  <2>4. Appended(AskedIn(k), Answer(k)) \in Messages
    BY <2>1, AppendedType DEF AskedIn, Stream
  <2>5. messages' \in [Chats -> Messages \cup {None}]
    BY <1>19, <2>4 DEF Done, StreamFails, EndsSilently, TypeOK
  <2> QED
    BY <1>19, <2>2, <2>3, <2>5 DEF Done, StreamFails, EndsSilently, TypeOK
<1>20. CASE UNCHANGED vars
  BY <1>20 DEF vars, TypeOK
<1>21. ASSUME NEW l \in loads, LoadRead(l) \/ LoadArrives(l) \/ LoadFails(l)
       PROVE  TypeOK' /\ IsFiniteSet(loads')
  BY <1>2, <1>3, <1>4, <1>21
<1>22. ASSUME NEW c \in Chats,
              \/ OpenChat(c) \/ CloseTab(c) \/ Ask(c) \/ OpFails(c)
              \/ StartCreate(c) \/ CreateDone(c) \/ StartDelete(c) \/ DeleteDone(c)
       PROVE  TypeOK' /\ IsFiniteSet(loads')
  BY <1>5, <1>6, <1>7, <1>8, <1>9, <1>10, <1>11, <1>12, <1>22
<1> QED
  BY <1>1, <1>13, <1>14, <1>15, <1>16, <1>17, <1>18, <1>19, <1>20, <1>21, <1>22 DEF Next

\* They hold at first,
LEMMA TypesInit == Init => Types
<1> SUFFICES ASSUME Init PROVE Types
  OBVIOUS
<1>1. <<>> \in Messages /\ <<>> \in Text /\ <<>> \in Seq(Stream) /\ Len(<<>>) = 0
  BY DEF Messages, Text
<1>2. IsFiniteSet(loads)
  BY FS_EmptySet DEF Init
<1>3. /\ history \in [Chats -> Messages] /\ messages \in [Chats -> Messages \cup {None}]
      /\ listing \in [step : {"sent", "read", "done"}, got : SUBSET Chats]
  BY <1>1 DEF Init
<1>4. streams \in Seq(Stream) /\ Len(streams) <= MaxStreams
  BY <1>1, ConstantsAssumption DEF Init
<1>5. buffer \in Text /\ rendered \in Text /\ ref \in Text /\ effect \in Text \cup {None}
  BY <1>1 DEF Init
<1> QED
  BY <1>2, <1>3, <1>4, <1>5, ConstantsAssumption DEF Init, Types, TypeOK

\* and so of every behaviour.
LEMMA TypesAlways == Spec => []Types
BY TypesInit, TypesStep, PTL DEF Spec

\* The types of the variables, for any number of chats.
THEOREM TypeCorrect == Spec => []TypeOK
<1>1. Types => TypeOK
  BY DEF Types
<1> QED
  BY <1>1, TypesAlways, PTL

-----------------------------------------------------------------------------
(***************************************************************************)
(* The window and its request.                                             *)
(***************************************************************************)

\* What a step can do to the window.
LEMMA WindowSteps ==
    ASSUME TypeOK, [Next]_vars
    PROVE  \/ UNCHANGED <<active, windowVars, streams>>
           \/ \E d \in Chats \cup {None} : Front(d)
           \/ \E c \in Chats : Ask(c)
           \/ Stop \/ Render \/ RunEffect
           \/ \E k \in DOMAIN streams :
                \/ ServerAccepts(k) \/ ServerFinishes(k) \/ Chunk(k)
                \/ Done(k) \/ StreamFails(k) \/ EndsSilently(k)
<1> USE DEF tabVars
<1>1. ASSUME NEW c \in Chats,
             \/ OpenChat(c) \/ CloseTab(c) \/ CreateDone(c) \/ DeleteDone(c)
      PROVE  \/ UNCHANGED <<active, windowVars, streams>>
             \/ \E d \in Chats \cup {None} : Front(d)
  <2>1. Remaining(c) \subseteq Chats \cup {None}
    BY DEF Remaining, TypeOK
  <2> QED
    BY <1>1, <2>1 DEF OpenChat, CloseTab, CreateDone, DeleteDone
<1>2. ASSUME NEW c \in Chats, OpFails(c) \/ StartCreate(c) \/ StartDelete(c)
      PROVE  UNCHANGED <<active, windowVars, streams>>
  BY <1>2 DEF OpFails, StartCreate, StartDelete
<1>3. ASSUME NEW l \in loads, LoadRead(l) \/ LoadArrives(l) \/ LoadFails(l)
      PROVE  UNCHANGED <<active, windowVars, streams>>
  BY <1>3 DEF LoadRead, LoadArrives, LoadFails
<1>4. ListRead \/ ListArrives \/ ListFails \/ UNCHANGED vars =>
        UNCHANGED <<active, windowVars, streams>>
  BY DEF ListRead, ListArrives, ListFails, vars
<1>5. ShowFile => \E d \in Chats \cup {None} : Front(d)
  BY DEF ShowFile
<1> QED
  BY <1>1, <1>2, <1>3, <1>4, <1>5 DEF Next

\* While an answer is on its way, nobody ends its request.
LEMMA ServedFacts ==
    ASSUME TypeOK, NEW k \in DOMAIN streams,
           ServerAccepts(k) \/ ServerFinishes(k) \/ Chunk(k)
    PROVE  /\ Len(streams') = Len(streams) /\ DOMAIN streams' = DOMAIN streams
           /\ streams'[k].chat = streams[k].chat
           /\ streams'[k].client = streams[k].client
           /\ \A q \in DOMAIN streams : q # k => streams'[q] = streams[q]
<1>1. streams[k] \in Stream
  BY DEF TypeOK
<1>2. PICK v : \/ v = [streams[k] EXCEPT !.server = "accepted"] /\ streams' = [streams EXCEPT ![k] = v]
               \/ v = [streams[k] EXCEPT !.server = "finished"] /\ streams' = [streams EXCEPT ![k] = v]
               \/ v = [streams[k] EXCEPT !.sent = @ + 1] /\ streams' = [streams EXCEPT ![k] = v]
  <2>1. CASE ServerAccepts(k)
    BY <2>1 DEF ServerAccepts
  <2>2. CASE ServerFinishes(k)
    BY <2>2 DEF ServerFinishes
  <2>3. CASE Chunk(k)
    BY <2>3 DEF Chunk
  <2> QED
    BY <2>1, <2>2, <2>3
<1>3. v.chat = streams[k].chat /\ v.client = streams[k].client
  BY <1>1, <1>2 DEF Stream
<1>4. streams' = [streams EXCEPT ![k] = v]
  BY <1>2
<1> HIDE <1>2
<1> QED
  BY <1>3, <1>4 DEF TypeOK

\* Questions are never forgotten, nor moved to another chat; a request that
\* has ended stays ended.
LEMMA StreamsKept ==
    ASSUME TypeOK, [Next]_vars
    PROVE  /\ Len(streams) <= Len(streams')
           /\ \A k \in DOMAIN streams :
                /\ k \in DOMAIN streams'
                /\ streams'[k].chat = streams[k].chat
                /\ streams'[k].client = "open" => streams[k].client = "open"
<1> USE DEF TypeOK
<1>1. CASE UNCHANGED streams
  BY <1>1
<1>2. ASSUME NEW d \in Chats \cup {None}, Front(d)
      PROVE  /\ Len(streams) <= Len(streams')
             /\ \A k \in DOMAIN streams :
                /\ k \in DOMAIN streams'
                /\ streams'[k].chat = streams[k].chat
                /\ streams'[k].client = "open" => streams[k].client = "open"
  <2>1. /\ streams' \in Seq(Stream) /\ Len(streams') = Len(streams)
        /\ \A k \in DOMAIN streams :
                /\ streams'[k].chat = streams[k].chat
                /\ streams[k].client # "open" => streams'[k] = streams[k]
    BY <1>2, FrontFacts
  <2> QED
    BY <2>1
<1>3. ASSUME NEW c \in Chats, Ask(c)
      PROVE  /\ Len(streams) <= Len(streams')
             /\ \A k \in DOMAIN streams :
                k \in DOMAIN streams' /\ streams'[k] = streams[k]
  <2>1. \E x : streams' = Append(streams, x)
    BY <1>3 DEF Ask
  <2> QED
    BY <2>1
<1>4. CASE Stop
  <2>1. Len(streams) \in DOMAIN streams
        /\ streams' = [streams EXCEPT ![Len(streams)] = Abort(Len(streams))]
    BY <1>4 DEF Stop
  <2> QED
    BY <2>1, EndedType
<1>5. ASSUME NEW k \in DOMAIN streams,
             ServerAccepts(k) \/ ServerFinishes(k) \/ Chunk(k)
      PROVE  /\ Len(streams) <= Len(streams')
             /\ \A q \in DOMAIN streams :
                /\ q \in DOMAIN streams'
                /\ streams'[q].chat = streams[q].chat
                /\ streams'[q].client = streams[q].client
  BY <1>5, ServedFacts
<1>6. ASSUME NEW k \in DOMAIN streams, Done(k) \/ StreamFails(k) \/ EndsSilently(k)
      PROVE  /\ Len(streams) <= Len(streams')
             /\ \A q \in DOMAIN streams :
                /\ q \in DOMAIN streams'
                /\ streams'[q].chat = streams[q].chat
                /\ streams'[q].client = "open" => streams[q].client = "open"
  <2>1. PICK how \in {"done", "failed", "silent"} : streams' = [streams EXCEPT ![k] = Ended(k, how)]
    BY <1>6 DEF Done, StreamFails, EndsSilently
  <2> QED
    BY <2>1, EndedType
<1>7. Render \/ RunEffect => UNCHANGED streams
  BY DEF Render, RunEffect
<1> QED
  BY <1>1, <1>2, <1>3, <1>4, <1>5, <1>6, <1>7, WindowSteps

\* Every step leaves one live stream at most, and a window that waits for it.
LEMMA LiveStreamStep ==
    ASSUME Types, LiveStream, [Next]_vars PROVE LiveStream'
<1> USE DEF LiveStream, OneLiveStream
<1>0. TypeOK /\ Len(streams) \in Nat /\ DOMAIN streams = 1 .. Len(streams)
      /\ Len(streams') \in Nat /\ DOMAIN streams' = 1 .. Len(streams')
  <2>1. Types'
    BY TypesStep
  <2> QED
    BY <2>1 DEF Types, TypeOK
<1>1. CASE UNCHANGED <<active, streaming, streams>>
  BY <1>1
<1>2. ASSUME NEW d \in Chats \cup {None}, Front(d) PROVE LiveStream'
  <2>1. CASE d = None
    BY <1>0, <1>2, <2>1, FrontFacts
  <2>2. CASE d # None
    BY <1>0, <1>2, <2>2, FrontFacts DEF windowVars
  <2> QED
    BY <2>1, <2>2
<1>3. ASSUME NEW c \in Chats, Ask(c) PROVE LiveStream'
  <2> DEFINE new == [chat |-> c, server |-> "sent", sent |-> 0, client |-> "open"]
  <2>1. /\ streams' = Append(streams, new) /\ ~streaming /\ streaming'
        /\ active' = c /\ c # None
    BY <1>3, ConstantsAssumption DEF Ask, MayAsk, tabVars
  <2>2. \A k \in DOMAIN streams : streams[k].client # "open"
    BY <2>1
  <2>3. /\ Len(streams') = Len(streams) + 1 /\ streams'[Len(streams')] = new
        /\ \A k \in DOMAIN streams : streams'[k] = streams[k]
        /\ \A k \in DOMAIN streams' : k \in DOMAIN streams \/ k = Len(streams')
    BY <1>0, <2>1 DEF TypeOK
  <2>4. streams'[Len(streams')].client = "open"
    BY <2>3
  <2> QED
    BY <2>1, <2>2, <2>3, <2>4
<1>4. CASE Stop
  <2>1. /\ Len(streams) \in DOMAIN streams
        /\ streams' = [streams EXCEPT ![Len(streams)] = Abort(Len(streams))]
        /\ streams[Len(streams)].client = "open"
        /\ UNCHANGED <<active, streaming>>
    BY <1>0, <1>4 DEF Stop, tabVars, windowVars, TypeOK
  <2>2. /\ Len(streams') = Len(streams)
        /\ streams'[Len(streams)].client = "aborted"
        /\ \A k \in DOMAIN streams : k # Len(streams) => streams'[k] = streams[k]
    BY <1>0, <2>1, EndedType DEF TypeOK
  <2> QED
    BY <1>0, <2>1, <2>2
<1>5. ASSUME NEW k \in DOMAIN streams,
             ServerAccepts(k) \/ ServerFinishes(k) \/ Chunk(k)
      PROVE  LiveStream'
  <2>1. UNCHANGED <<active, streaming>>
    BY <1>5 DEF ServerAccepts, ServerFinishes, Chunk, tabVars, windowVars
  <2>2. /\ Len(streams') = Len(streams)
        /\ \A q \in DOMAIN streams : streams'[q].client = streams[q].client
    BY <1>0, <1>5, ServedFacts
  <2>3. Len(streams) > 0
    BY <1>0
  <2>4. streams'[Len(streams)].client = streams[Len(streams)].client
    BY <1>0, <2>2, <2>3
  <2> QED
    BY <1>0, <2>1, <2>2, <2>4
<1>6. ASSUME NEW k \in DOMAIN streams, Done(k) \/ StreamFails(k) PROVE LiveStream'
  <2>1. /\ streams[k].client = "open" /\ ~streaming'
        /\ \E how \in {"done", "failed", "silent"} : streams' = [streams EXCEPT ![k] = Ended(k, how)]
    BY <1>6 DEF Done, StreamFails, EndsSilently
  <2>2. /\ Len(streams') = Len(streams)
        /\ \A q \in DOMAIN streams : streams'[q].client # "open"
    BY <1>0, <2>1, EndedType DEF TypeOK
  <2> QED
    BY <1>0, <2>1, <2>2
<1>7. Render \/ RunEffect \/ UNCHANGED <<active, windowVars, streams>> =>
        UNCHANGED <<active, streaming, streams>>
  BY DEF Render, RunEffect, tabVars, windowVars
<1>8. ASSUME NEW k \in DOMAIN streams, EndsSilently(k) PROVE LiveStream'
  <2>1. /\ streams[k].client = "open" /\ k = Len(streams)
        /\ streams' = [streams EXCEPT ![k] = Ended(k, "silent")]
        /\ UNCHANGED <<active, streaming>>
    BY <1>0, <1>8 DEF EndsSilently, tabVars, windowVars
  <2>2. /\ Len(streams') = Len(streams) /\ streams'[k].client = "silent"
        /\ \A q \in DOMAIN streams : q # k => streams'[q] = streams[q]
    BY <1>0, <2>1, EndedType DEF TypeOK
  <2> QED
    BY <1>0, <2>1, <2>2
<1> QED
  BY <1>0, <1>1, <1>2, <1>3, <1>4, <1>5, <1>6, <1>7, <1>8, WindowSteps

\* So it is of every behaviour.
LEMMA LiveStreamAlways == Spec => [](Types /\ LiveStream)
<1>1. Init => LiveStream
  BY DEF Init, LiveStream, OneLiveStream
<1>2. Types /\ LiveStream /\ [Next]_vars => LiveStream'
  BY LiveStreamStep
<1> QED
  BY <1>1, <1>2, TypesAlways, PTL DEF Spec

\* One request at most can call back into the window, for any number of chats
\* and questions: the window asks only while it does not wait, and aborts its
\* request when it goes. And it waits for no request whose end was reported to
\* it: only for one under way, stopped, or ended without a callback.
THEOREM LiveStreamCorrect == Spec => []OneLiveStream
<1>1. LiveStream => OneLiveStream
  BY DEF LiveStream
<1> QED
  BY <1>1, LiveStreamAlways, PTL

-----------------------------------------------------------------------------
(***************************************************************************)
(* The chunks of an answer.                                                *)
(***************************************************************************)

Foreign(text) == \E i \in DOMAIN text : text[i].of # Len(streams)

\* Every step keeps the chunks of other streams out of a live answer.
LEMMA MixedStep ==
    ASSUME Types, LiveStream, AnswersAreNotMixed, [Next]_vars
    PROVE  AnswersAreNotMixed'
<1> USE DEF AnswersAreNotMixed
<1>0. TypeOK /\ Len(streams) \in Nat /\ DOMAIN streams = 1 .. Len(streams)
      /\ TypeOK' /\ Len(streams') \in Nat /\ DOMAIN streams' = 1 .. Len(streams')
  <2>1. Types'
    BY TypesStep
  <2> QED
    BY <2>1 DEF Types, TypeOK
<1>1. CASE UNCHANGED <<windowVars, streams>>
  BY <1>1 DEF windowVars
\* An open request of the last question before the step, if there is one after.
<1>2. ASSUME Len(streams') = Len(streams), Len(streams') > 0,
             streams'[Len(streams')].client = "open"
      PROVE  /\ Len(streams) \in DOMAIN streams
             /\ streams[Len(streams)].client = "open"
             /\ ~Foreign(buffer) /\ ~Foreign(ref) /\ (effect # None => ~Foreign(effect))
  <2>1. Len(streams) \in DOMAIN streams
    BY <1>0, <1>2
  <2>2. streams[Len(streams)].client = "open"
    BY <1>0, <1>2, <2>1, StreamsKept
  <2> QED
    BY <1>0, <1>2, <2>1, <2>2 DEF Foreign
<1>3. ASSUME NEW d \in Chats \cup {None}, Front(d) PROVE AnswersAreNotMixed'
  <2>1. CASE d # None
    BY <1>1, <1>3, <2>1, <1>0, FrontFacts
  <2>2. CASE d = None
    <3>1. Len(streams') = Len(streams)
          /\ \A k \in DOMAIN streams : streams'[k].client # "open"
      BY <1>0, <1>3, <2>2, FrontFacts
    <3> QED
      BY <1>0, <3>1
  <2> QED
    BY <2>1, <2>2
<1>4. ASSUME NEW c \in Chats, Ask(c) PROVE AnswersAreNotMixed'
  <2>1. buffer' = <<>> /\ ref' = <<>> /\ effect' = None
    BY <1>4 DEF Ask, Drawn
  <2> QED
    BY <2>1
<1>5. CASE Stop
  <2>1. /\ Len(streams) \in DOMAIN streams
        /\ streams' = [streams EXCEPT ![Len(streams)] = Abort(Len(streams))]
        /\ streams[Len(streams)].client = "open"
    BY <1>0, <1>5 DEF Stop, TypeOK
  <2>2. /\ Len(streams') = Len(streams)
        /\ streams'[Len(streams)].client = "aborted"
    BY <1>0, <2>1, EndedType DEF TypeOK
  <2> QED
    BY <2>2
<1>6. CASE Render
  <2>1. /\ effect' = buffer /\ buffer' = buffer /\ streams' = streams
        /\ ref' = IF effect = None THEN ref ELSE effect
    BY <1>6 DEF Render
  <2> QED
    BY <1>2, <2>1 DEF Foreign
<1>7. CASE RunEffect
  <2>1. /\ effect # None /\ effect' = None /\ ref' = effect
        /\ buffer' = buffer /\ streams' = streams
    BY <1>7 DEF RunEffect
  <2> QED
    BY <1>2, <2>1 DEF Foreign
<1>8. ASSUME NEW k \in DOMAIN streams, ServerAccepts(k) \/ ServerFinishes(k)
      PROVE  AnswersAreNotMixed'
  <2>1. UNCHANGED <<buffer, ref, effect>> /\ Len(streams') = Len(streams)
    BY <1>0, <1>8, ServedFacts DEF ServerAccepts, ServerFinishes, windowVars
  <2> QED
    BY <1>2, <2>1 DEF Foreign
<1>9. ASSUME NEW k \in DOMAIN streams, Chunk(k) PROVE AnswersAreNotMixed'
  <2> DEFINE x == [of |-> k, n |-> streams[k].sent + 1]
  <2>1. /\ streams[k].client = "open" /\ ref' = Append(ref, x) /\ buffer' = ref'
        /\ effect' = effect
    BY <1>9 DEF Chunk
  <2>2. k = Len(streams) /\ Len(streams') = Len(streams)
    BY <1>0, <1>9, <2>1, ServedFacts DEF LiveStream, OneLiveStream
  <2>3. ref \in Text /\ x.of = k
    BY <1>0 DEF TypeOK
  <2> HIDE DEF x
  <2>4. \A i \in DOMAIN ref' : ref'[i] = x \/ (i \in DOMAIN ref /\ ref'[i] = ref[i])
    BY <2>1, <2>3 DEF Text
  <2> QED
    BY <1>2, <2>1, <2>2, <2>3, <2>4 DEF Foreign
<1>10. ASSUME NEW k \in DOMAIN streams, Done(k) \/ StreamFails(k)
       PROVE  AnswersAreNotMixed'
  <2>1. buffer' = <<>> /\ ref' = <<>> /\ effect' = effect /\ streams[k].client = "open"
    BY <1>10 DEF Done, StreamFails, EndsSilently
  <2>2. \E how \in {"done", "failed", "silent"} : streams' = [streams EXCEPT ![k] = Ended(k, how)]
    BY <1>10 DEF Done, StreamFails, EndsSilently
  <2>3. Len(streams') = Len(streams)
    BY <1>0, <2>2 DEF TypeOK
  <2> QED
    BY <1>2, <2>1, <2>3 DEF Foreign
<1>11. ASSUME NEW k \in DOMAIN streams, EndsSilently(k) PROVE AnswersAreNotMixed'
  <2>1. k = Len(streams) /\ streams' = [streams EXCEPT ![k] = Ended(k, "silent")]
    BY <1>0, <1>11 DEF EndsSilently, LiveStream, OneLiveStream
  <2>2. Len(streams') = Len(streams) /\ streams'[k].client = "silent"
    BY <1>0, <2>1, EndedType DEF TypeOK
  <2> QED
    BY <2>1, <2>2
<1> QED
  BY <1>0, <1>1, <1>3, <1>4, <1>5, <1>6, <1>7, <1>8, <1>9, <1>10, <1>11, WindowSteps

\* The chunks of two answers never meet in the window, for answers of any
\* length: a question is asked only when what is drawn is what has arrived.
THEOREM AnswersNotMixed == Spec => []AnswersAreNotMixed
<1>1. Init => AnswersAreNotMixed
  BY DEF Init, AnswersAreNotMixed
<1>2. Types /\ LiveStream /\ AnswersAreNotMixed /\ [Next]_vars => AnswersAreNotMixed'
  BY MixedStep
<1> QED
  BY <1>1, <1>2, LiveStreamAlways, PTL DEF Spec

-----------------------------------------------------------------------------
(***************************************************************************)
(* Answers stay in their chat.                                             *)
(***************************************************************************)

\* What a step can do to what the server and the cache hold.
LEMMA DataSteps ==
    ASSUME TypeOK, [Next]_vars
    PROVE  /\ \/ UNCHANGED history
              \/ \E c \in Chats : StartDelete(c)
              \/ \E k \in DOMAIN streams : ServerAccepts(k) \/ ServerFinishes(k)
           /\ \/ UNCHANGED messages
              \/ \E l \in loads : LoadArrives(l)
              \/ \E c \in Chats : Ask(c) \/ CreateDone(c) \/ DeleteDone(c)
              \/ \E k \in DOMAIN streams : Done(k)
           /\ UNCHANGED raced \/ \E c \in Chats : Ask(c)
           /\ UNCHANGED <<rows, gone>> \/ \E c \in Chats : StartCreate(c) \/ StartDelete(c)
           /\ UNCHANGED creating \/ \E c \in Chats : StartCreate(c) \/ CreateDone(c) \/ OpFails(c)
<1> USE DEF serverVars, cacheVars, opVars, tabVars, windowVars
<1>1. ASSUME ListRead \/ ListArrives \/ ListFails \/ UNCHANGED vars
      PROVE  UNCHANGED <<history, messages, raced, rows, gone, creating>>
  BY <1>1 DEF ListRead, ListArrives, ListFails, vars
<1>2. ASSUME NEW l \in loads, LoadRead(l) \/ LoadFails(l)
      PROVE  UNCHANGED <<history, messages, raced, rows, gone, creating>>
  BY <1>2 DEF LoadRead, LoadFails
<1>3. ASSUME NEW l \in loads, LoadArrives(l)
      PROVE  UNCHANGED <<history, raced, rows, gone, creating>>
  BY <1>3 DEF LoadArrives
<1>4. ASSUME NEW c \in Chats, OpenChat(c) \/ CloseTab(c)
      PROVE  UNCHANGED <<history, messages, raced, rows, gone, creating>>
  BY <1>4 DEF OpenChat, CloseTab
<1>5. ASSUME NEW c \in Chats, Ask(c) PROVE UNCHANGED <<history, rows, gone, creating>>
  BY <1>5 DEF Ask
<1>6. ASSUME NEW c \in Chats, CreateDone(c) PROVE UNCHANGED <<history, rows, gone, raced>>
  BY <1>6 DEF CreateDone
<1>7. ASSUME NEW c \in Chats, DeleteDone(c)
      PROVE UNCHANGED <<history, rows, gone, raced, creating>>
  BY <1>7 DEF DeleteDone
<1>8. ASSUME NEW c \in Chats, StartCreate(c) PROVE UNCHANGED <<history, messages, raced>>
  BY <1>8 DEF StartCreate
<1>9. ASSUME NEW c \in Chats, StartDelete(c) PROVE UNCHANGED <<messages, raced, creating>>
  BY <1>9 DEF StartDelete
<1>10. ASSUME NEW c \in Chats, OpFails(c)
       PROVE UNCHANGED <<history, messages, rows, gone, raced>>
  BY <1>10 DEF OpFails
<1>11. ASSUME ShowFile \/ Stop \/ Render \/ RunEffect
       PROVE  UNCHANGED <<history, messages, raced, rows, gone, creating>>
  BY <1>11 DEF ShowFile, Stop, Render, RunEffect
<1>12. ASSUME NEW k \in DOMAIN streams, ServerAccepts(k) \/ ServerFinishes(k)
       PROVE  UNCHANGED <<messages, raced, rows, gone, creating>>
  BY <1>12 DEF ServerAccepts, ServerFinishes
<1>13. ASSUME NEW k \in DOMAIN streams, Chunk(k) \/ StreamFails(k) \/ EndsSilently(k)
       PROVE  UNCHANGED <<history, messages, raced, rows, gone, creating>>
  BY <1>13 DEF Chunk, StreamFails, EndsSilently
<1>14. ASSUME NEW k \in DOMAIN streams, Done(k)
       PROVE  UNCHANGED <<history, raced, rows, gone, creating>>
  BY <1>14 DEF Done
<1> USE DEF Next
<1>15. CASE \E l \in loads : LoadRead(l) \/ LoadArrives(l) \/ LoadFails(l)
  BY <1>2, <1>3, <1>15
<1>16. CASE \E c \in Chats :
        \/ OpenChat(c) \/ CloseTab(c) \/ Ask(c) \/ OpFails(c)
        \/ StartCreate(c) \/ CreateDone(c) \/ StartDelete(c) \/ DeleteDone(c)
  BY <1>4, <1>5, <1>6, <1>7, <1>8, <1>9, <1>10, <1>16
<1>17. CASE \E k \in DOMAIN streams :
        \/ ServerAccepts(k) \/ ServerFinishes(k)
        \/ Chunk(k) \/ Done(k) \/ StreamFails(k) \/ EndsSilently(k)
  BY <1>12, <1>13, <1>14, <1>17
<1> QED
  BY <1>1, <1>11, <1>15, <1>16, <1>17

\* A request for messages is new, for a chat nothing is cached of; or it was
\* there, answered by now with the messages the server has.
LEMMA LoadSteps ==
    ASSUME Types, [Next]_vars
    PROVE  \A l \in loads' :
              \/ l \in loads
              \/ l.chat \in chats \cup tabs /\ messages[l.chat] = None /\ l.got = None
              \/ /\ UNCHANGED <<serverVars, messages, raced, opVars, streams>>
                 /\ \E m \in loads : l.chat = m.chat /\ l.got = history[m.chat]
<1> USE DEF cacheVars, Types
<1>1. CASE UNCHANGED loads
  BY <1>1
<1>2. ASSUME NEW l \in loads, LoadRead(l)
      PROVE  /\ UNCHANGED <<serverVars, messages, raced, opVars, streams>>
             /\ \A m \in loads' : m \in loads \/ (m.chat = l.chat /\ m.got = history[l.chat])
  <2> DEFINE r == [l EXCEPT !.got = history[l.chat]]
  <2>1. l \in Load
    BY DEF TypeOK
  <2>2. r.chat = l.chat /\ r.got = history[l.chat]
    BY <2>1 DEF Load
  <2>3. loads' = (loads \ {l}) \cup {r}
    BY <1>2 DEF LoadRead
  <2>4. UNCHANGED <<serverVars, messages, raced, opVars, streams>>
    BY <1>2 DEF LoadRead
  <2> QED
    BY <2>2, <2>3, <2>4
<1>3. ASSUME NEW l \in loads, LoadArrives(l) \/ LoadFails(l) PROVE loads' \subseteq loads
  BY <1>3 DEF LoadArrives, LoadFails
<1>4. ASSUME NEW d \in Chats \cup {None}, d \in chats \cup tabs \cup {None},
             EnsureChatMessages(d)
      PROVE  \A l \in loads' :
                l \in loads \/ (l.chat \in chats \cup tabs /\ messages[l.chat] = None /\ l.got = None)
  BY <1>4, EnsureFacts, ConstantsAssumption
<1>5. ASSUME NEW c \in Chats, OpenChat(c) \/ CloseTab(c)
      PROVE  \A l \in loads' :
                l \in loads \/ (l.chat \in chats \cup tabs /\ messages[l.chat] = None /\ l.got = None)
  <2>1. CASE OpenChat(c)
    BY <1>4, <2>1 DEF OpenChat
  <2>2. CASE CloseTab(c)
    <3>1. Remaining(c) \subseteq tabs \cup {None} /\ tabs \subseteq Chats
      BY DEF Remaining, TypeOK
    <3> QED
      BY <1>4, <2>2, <3>1 DEF CloseTab
  <2> QED
    BY <1>5, <2>1, <2>2
<1>6. ASSUME NEW c \in Chats, DeleteDone(c)
      PROVE  \A l \in loads' :
                l \in loads \/ (l.chat \in chats \cup tabs /\ messages[l.chat] = None /\ l.got = None)
  <2>1. Remaining(c) \subseteq tabs \cup {None} /\ tabs \subseteq Chats
    BY DEF Remaining, TypeOK
  <2>2. loads' = loads \/ \E d \in Remaining(c) :
            d # None /\ MustLoad(d) /\ loads' = loads \cup {Request(d)}
    BY <1>6 DEF DeleteDone
  <2>3. \A d \in Remaining(c) : d # None =>
            d \in tabs /\ Request(d).chat = d /\ Request(d).got = None
    BY <2>1, RequestType
  <2> QED
    BY <2>2, <2>3 DEF MustLoad
<1>7. ASSUME NEW c \in Chats,
             Ask(c) \/ OpFails(c) \/ StartCreate(c) \/ CreateDone(c) \/ StartDelete(c)
      PROVE  UNCHANGED loads
  BY <1>7 DEF Ask, OpFails, StartCreate, CreateDone, StartDelete
<1>8. ASSUME NEW k \in DOMAIN streams,
             ServerAccepts(k) \/ ServerFinishes(k) \/ Chunk(k) \/ Done(k) \/ StreamFails(k) \/ EndsSilently(k)
      PROVE  UNCHANGED loads
  BY <1>8 DEF ServerAccepts, ServerFinishes, Chunk, Done, StreamFails, EndsSilently
<1>9. ASSUME \/ ListRead \/ ListArrives \/ ListFails \/ ShowFile
             \/ Stop \/ Render \/ RunEffect \/ UNCHANGED vars
      PROVE  UNCHANGED loads
  BY <1>9 DEF ListRead, ListArrives, ListFails, ShowFile, Stop, Render, RunEffect, vars
<1>10. CASE \E l \in loads : LoadRead(l) \/ LoadArrives(l) \/ LoadFails(l)
  BY <1>2, <1>3, <1>10
<1>11. CASE \E c \in Chats :
        \/ OpenChat(c) \/ CloseTab(c) \/ Ask(c) \/ OpFails(c)
        \/ StartCreate(c) \/ CreateDone(c) \/ StartDelete(c) \/ DeleteDone(c)
  BY <1>1, <1>5, <1>6, <1>7, <1>11
<1>12. CASE UNCHANGED vars
  BY <1>1, <1>9, <1>12
<1> QED
  BY <1>1, <1>8, <1>9, <1>10, <1>11, <1>12 DEF Next

\* What belongs to a chat goes on to: a question stays in its chat.
LEMMA BelongKept ==
    ASSUME TypeOK, [Next]_vars
    PROVE  \A ms, c : Belong(ms, c, streams) => Belong(ms, c, streams')
BY StreamsKept DEF Belong

\* A question or an answer of a chat can be added to what belongs to it.
LEMMA BelongAppend ==
    ASSUME NEW ms \in Messages \cup {None}, NEW c, NEW questions,
           ms # None => Belong(ms, c, questions),
           NEW k \in 1 .. MaxStreams, k \in DOMAIN questions, questions[k].chat = c,
           NEW m \in {Question(k), Answer(k)}
    PROVE  Belong(Append(IF ms = None THEN <<>> ELSE ms, m), c, questions)
<1> DEFINE old == IF ms = None THEN <<>> ELSE ms
<1>1. m \in [role : {"user", "assistant"}, of : 1 .. MaxStreams] /\ m.of = k
  BY DEF Question, Answer
<1>2. old \in Messages /\ Belong(old, c, questions)
  BY DEF Messages, Belong
<1> HIDE DEF old
<1>3. \A i \in DOMAIN Append(old, m) :
        Append(old, m)[i] = m \/ (i \in DOMAIN old /\ Append(old, m)[i] = old[i])
  BY <1>1, <1>2 DEF Messages
<1>4. Belong(Append(old, m), c, questions)
  BY <1>1, <1>2, <1>3 DEF Belong
<1> QED
  BY <1>4 DEF old

\* Every step leaves every message, cached, stored or loaded, in its chat.
LEMMA MessagesBelongStep ==
    ASSUME Types, MessagesBelong, [Next]_vars
    PROVE  MessagesBelong'
<1>0. TypeOK /\ DOMAIN streams = 1 .. Len(streams) /\ Len(streams) \in Nat
      /\ TypeOK' /\ DOMAIN streams' = 1 .. Len(streams') /\ Len(streams') \in Nat
  <2>1. Types'
    BY TypesStep
  <2> QED
    BY <2>1 DEF Types, TypeOK
<1>1. \A c : Belong(<<>>, c, streams')
  BY DEF Belong
<1>2. ASSUME NEW c \in Chats PROVE Belong(history'[c], c, streams')
  <2>1. Belong(history[c], c, streams')
    BY <1>0, BelongKept DEF MessagesBelong
  <2>2. CASE UNCHANGED history
    BY <2>1, <2>2
  <2>3. ASSUME NEW d \in Chats, StartDelete(d) PROVE Belong(history'[c], c, streams')
    <3>1. history' = [history EXCEPT ![d] = <<>>]
      BY <2>3 DEF StartDelete
    <3> QED
      BY <1>0, <1>1, <2>1, <3>1 DEF TypeOK
  <2>4. ASSUME NEW k \in DOMAIN streams, ServerAccepts(k) \/ ServerFinishes(k)
        PROVE  Belong(history'[c], c, streams')
    <3>1. k \in 1 .. MaxStreams /\ streams[k].chat \in Chats
          /\ history \in [Chats -> Messages]
      <4>1. k \in 1 .. MaxStreams /\ streams[k] \in Stream
        BY <1>0, ConstantsAssumption DEF TypeOK
      <4> QED
        BY <1>0, <4>1 DEF Stream, TypeOK
    <3>2. k \in DOMAIN streams' /\ streams'[k].chat = streams[k].chat
      BY <1>0, StreamsKept
    <3>3. PICK m \in {Question(k), Answer(k)} :
            history' = [history EXCEPT ![streams[k].chat] = Append(history[streams[k].chat], m)]
      BY <2>4 DEF ServerAccepts, ServerFinishes
    <3>4. CASE c # streams[k].chat
      BY <2>1, <3>1, <3>3, <3>4
    <3>5. CASE c = streams[k].chat
      <4>1. history[c] # None /\ history[c] \in Messages
        BY <3>1, NoneAssumption
      <4>2. Belong(Append(history[c], m), c, streams')
        BY <2>1, <3>1, <3>2, <3>5, <4>1, BelongAppend
      <4> QED
        BY <3>1, <3>3, <3>5, <4>2
    <3> QED
      BY <3>4, <3>5
  <2> QED
    BY <1>0, <2>2, <2>3, <2>4, DataSteps
<1>3. ASSUME NEW c \in Chats, messages'[c] # None
      PROVE  Belong(messages'[c], c, streams')
  <2>1. messages[c] # None => Belong(messages[c], c, streams')
    BY <1>0, BelongKept DEF MessagesBelong
  <2>2. messages \in [Chats -> Messages \cup {None}]
    BY <1>0 DEF TypeOK
  <2>3. CASE UNCHANGED messages
    BY <1>3, <2>1, <2>3
  <2>4. ASSUME NEW l \in loads, LoadArrives(l) PROVE Belong(messages'[c], c, streams')
    <3>1. l.got # None /\ messages' = [messages EXCEPT ![l.chat] = l.got]
      BY <2>4 DEF LoadArrives
    <3>2. Belong(l.got, l.chat, streams')
      BY <1>0, <3>1, BelongKept DEF MessagesBelong
    <3> QED
      BY <1>3, <2>1, <2>2, <3>1, <3>2
  <2>5. ASSUME NEW d \in Chats, CreateDone(d) \/ DeleteDone(d)
        PROVE  Belong(messages'[c], c, streams')
    <3>1. \/ messages' = [messages EXCEPT ![d] = <<>>]
          \/ messages' = [messages EXCEPT ![d] = None]
      BY <2>5 DEF CreateDone, DeleteDone
    <3> QED
      BY <1>1, <1>3, <2>1, <2>2, <3>1
  <2>6. ASSUME NEW d \in Chats, Ask(d) PROVE Belong(messages'[c], c, streams')
    <3> DEFINE k == Len(streams) + 1
               new == [chat |-> d, server |-> "sent", sent |-> 0, client |-> "open"]
    <3>1. /\ k \in 1 .. MaxStreams /\ streams' = Append(streams, new)
          /\ messages' = [messages EXCEPT ![d] = Appended(d, Question(k))]
      BY <1>0, <2>6, ConstantsAssumption DEF Ask
    <3>2. k \in DOMAIN streams' /\ streams'[k] = new /\ new.chat = d
      BY <1>0, <3>1 DEF TypeOK
    <3> HIDE DEF k, new
    <3>3. CASE c # d
      BY <1>3, <2>1, <2>2, <3>1, <3>3
    <3>4. CASE c = d
      <4>1. Belong(Appended(c, Question(k)), c, streams')
        BY <2>1, <2>2, <3>1, <3>2, <3>4, BelongAppend DEF Appended
      <4> QED
        BY <2>2, <3>1, <3>4, <4>1
    <3> QED
      BY <3>3, <3>4
  <2>7. ASSUME NEW k \in DOMAIN streams, Done(k) PROVE Belong(messages'[c], c, streams')
    <3>1. k \in 1 .. MaxStreams /\ streams[k].chat \in Chats
      <4>1. k \in 1 .. MaxStreams /\ streams[k] \in Stream
        BY <1>0, ConstantsAssumption DEF TypeOK
      <4> QED
        BY <4>1 DEF Stream
    <3>2. k \in DOMAIN streams' /\ streams'[k].chat = streams[k].chat
      BY <1>0, StreamsKept
    <3>3. messages' = [messages EXCEPT ![streams[k].chat] =
                        Appended(streams[k].chat, Answer(k))]
      BY <2>7 DEF Done, AskedIn
    <3>4. CASE c # streams[k].chat
      BY <1>3, <2>1, <2>2, <3>3, <3>4
    <3>5. CASE c = streams[k].chat
      <4>1. Belong(Appended(c, Answer(k)), c, streams')
        BY <2>1, <2>2, <3>1, <3>2, <3>5, BelongAppend DEF Appended
      <4> QED
        BY <2>2, <3>3, <3>5, <4>1
    <3> QED
      BY <3>4, <3>5
  <2> QED
    BY <1>0, <2>3, <2>4, <2>5, <2>6, <2>7, DataSteps
<1>4. ASSUME NEW l \in loads', l.got # None PROVE Belong(l.got, l.chat, streams')
  <2>1. CASE l \in loads
    BY <1>0, <1>4, <2>1, BelongKept DEF MessagesBelong
  <2>2. ASSUME NEW m \in loads, l.chat = m.chat, l.got = history[m.chat]
        PROVE  Belong(l.got, l.chat, streams')
    <3>1. m.chat \in Chats
      BY <1>0 DEF TypeOK, Load
    <3> QED
      BY <1>0, <2>2, <3>1, BelongKept DEF MessagesBelong
  <2> QED
    BY <1>4, <2>1, <2>2, LoadSteps
<1> QED
  BY <1>2, <1>3, <1>4 DEF MessagesBelong

\* An answer ends up in the chat it was asked in, for any number of chats:
\* nothing that is on its way, is cached or stored carries it to another one.
THEOREM AnswersStay == Spec => []AnswersStayInTheirChat
<1>1. Init => MessagesBelong
  BY DEF Init, MessagesBelong, Belong
<1>2. Types /\ MessagesBelong /\ [Next]_vars => MessagesBelong'
  BY MessagesBelongStep
<1>3. MessagesBelong => AnswersStayInTheirChat
  BY DEF MessagesBelong, Belong, AnswersStayInTheirChat
<1> QED
  BY <1>1, <1>2, <1>3, TypesAlways, PTL DEF Spec

-----------------------------------------------------------------------------
(***************************************************************************)
(* The cache of a chat and the server.                                     *)
(***************************************************************************)

\* A step that neither asks nor answers only ends requests, unfinished.
LEMMA RequestsKept ==
    ASSUME TypeOK, [Next]_vars
    PROVE  \/ \E c \in Chats : Ask(c)
           \/ \E k \in DOMAIN streams : ServerAccepts(k) \/ ServerFinishes(k) \/ Done(k)
           \/ \A k \in DOMAIN streams :
                \/ streams'[k].client \in {"failed", "aborted", "silent"}
                \/ /\ streams'[k].client = streams[k].client
                   /\ streams'[k].server = streams[k].server
<1> DEFINE Kept == \A k \in DOMAIN streams :
                      \/ streams'[k].client \in {"failed", "aborted", "silent"}
                      \/ /\ streams'[k].client = streams[k].client
                         /\ streams'[k].server = streams[k].server
<1>1. ASSUME UNCHANGED streams PROVE Kept
  BY <1>1
<1>2. ASSUME NEW d \in Chats \cup {None}, Front(d) PROVE Kept
  BY <1>2, FrontFacts
<1>3. ASSUME Stop PROVE Kept
  <2>1. Len(streams) \in DOMAIN streams
        /\ streams' = [streams EXCEPT ![Len(streams)] = Abort(Len(streams))]
        /\ streams[Len(streams)].client = "open"
    BY <1>3 DEF Stop, TypeOK
  <2> QED
    BY <2>1, EndedType
<1>4. ASSUME NEW k \in DOMAIN streams, Chunk(k) PROVE Kept
  <2>1. streams' = [streams EXCEPT ![k] = [streams[k] EXCEPT !.sent = @ + 1]]
    BY <1>4 DEF Chunk
  <2>2. streams[k] \in Stream
    BY DEF TypeOK
  <2>3. /\ [streams[k] EXCEPT !.sent = @ + 1].client = streams[k].client
        /\ [streams[k] EXCEPT !.sent = @ + 1].server = streams[k].server
    BY <2>2 DEF Stream
  <2> QED
    BY <2>1, <2>3
<1>5. ASSUME NEW k \in DOMAIN streams, StreamFails(k) \/ EndsSilently(k) PROVE Kept
  <2>1. PICK how \in {"failed", "silent"} : streams' = [streams EXCEPT ![k] = Ended(k, how)]
    BY <1>5 DEF StreamFails, EndsSilently
  <2> QED
    BY <2>1, EndedType
<1>6. Render \/ RunEffect => UNCHANGED streams
  BY DEF Render, RunEffect
<1> HIDE DEF Kept
<1>7. Kept \/ (\E c \in Chats : Ask(c))
      \/ \E k \in DOMAIN streams : ServerAccepts(k) \/ ServerFinishes(k) \/ Done(k)
  BY <1>1, <1>2, <1>3, <1>4, <1>5, <1>6, WindowSteps
<1> QED
  BY <1>7 DEF Kept

\* A question in a chat is asked by Ask only, and stays.
LEMMA AskedSteps ==
    ASSUME Types, [Next]_vars
    PROVE  \/ /\ Len(streams') = Len(streams)
              /\ \A c : Asked(c)' <=> Asked(c)
           \/ \E d \in Chats :
                /\ Ask(d) /\ Asked(d)' /\ Len(streams') = Len(streams) + 1
                /\ \A k \in DOMAIN streams : streams'[k] = streams[k]
                /\ streams'[Len(streams')] =
                    [chat |-> d, server |-> "sent", sent |-> 0, client |-> "open"]
                /\ \A c : c # d => (Asked(c)' <=> Asked(c))
<1>0. TypeOK /\ DOMAIN streams = 1 .. Len(streams) /\ Len(streams) \in Nat
      /\ TypeOK' /\ DOMAIN streams' = 1 .. Len(streams') /\ Len(streams') \in Nat
  <2>1. Types'
    BY TypesStep
  <2> QED
    BY <2>1 DEF Types, TypeOK
<1>1. ASSUME Len(streams') = Len(streams) PROVE \A c : Asked(c)' <=> Asked(c)
  <2>1. \A k \in DOMAIN streams : streams'[k].chat = streams[k].chat
    BY <1>0, StreamsKept
  <2> QED
    BY <1>0, <1>1, <2>1 DEF Asked
<1>2. ASSUME NEW d \in Chats, Ask(d)
      PROVE  /\ Asked(d)' /\ Len(streams') = Len(streams) + 1
             /\ \A k \in DOMAIN streams : streams'[k] = streams[k]
             /\ streams'[Len(streams')] =
                    [chat |-> d, server |-> "sent", sent |-> 0, client |-> "open"]
             /\ \A c : c # d => (Asked(c)' <=> Asked(c))
  <2> DEFINE new == [chat |-> d, server |-> "sent", sent |-> 0, client |-> "open"]
  <2>1. streams' = Append(streams, new)
    BY <1>2 DEF Ask
  <2>2. new.chat = d
    OBVIOUS
  <2> HIDE DEF new
  <2>3. /\ Len(streams') = Len(streams) + 1
        /\ \A k \in DOMAIN streams : streams'[k] = streams[k]
        /\ streams'[Len(streams')] = new
    BY <1>0, <2>1 DEF TypeOK
  <2>4. \A k \in DOMAIN streams' : k \in DOMAIN streams \/ k = Len(streams')
    BY <1>0, <2>3
  <2>5. Len(streams') \in DOMAIN streams' /\ DOMAIN streams \subseteq DOMAIN streams'
    BY <1>0, <2>3
  <2> QED
    BY <2>2, <2>3, <2>4, <2>5 DEF Asked, new
<1>3. ASSUME NEW k \in DOMAIN streams, ServerAccepts(k) \/ ServerFinishes(k) \/ Chunk(k)
      PROVE  Len(streams') = Len(streams)
  BY <1>0, <1>3, ServedFacts
<1>4. ASSUME NEW k \in DOMAIN streams, Done(k) \/ StreamFails(k) \/ EndsSilently(k)
      PROVE  Len(streams') = Len(streams)
  <2>1. \E x : streams' = [streams EXCEPT ![k] = x]
    BY <1>4 DEF Done, StreamFails, EndsSilently
  <2> QED
    BY <1>0, <2>1 DEF TypeOK
<1>5. ASSUME Stop PROVE Len(streams') = Len(streams)
  BY <1>0, <1>5 DEF Stop, TypeOK
<1>6. ASSUME NEW d \in Chats \cup {None}, Front(d) PROVE Len(streams') = Len(streams)
  BY <1>0, <1>6, FrontFacts
<1>7. Render \/ RunEffect => Len(streams') = Len(streams)
  BY DEF Render, RunEffect
<1>8. Len(streams') = Len(streams) \/ \E d \in Chats : Ask(d)
  BY <1>0, <1>3, <1>4, <1>5, <1>6, <1>7, WindowSteps
<1> QED
  BY <1>1, <1>2, <1>8

\* What the view knows grows only with the chats there are or were.
LEMMA KnownSteps ==
    ASSUME Types, OnlyKnownChats, [Next]_vars
    PROVE  /\ rows \cup gone \subseteq (rows \cup gone)'
           /\ rows' \cap gone' = {} /\ deleting' \subseteq gone'
           /\ chats' \cup listing'.got \cup tabs' \cup creating' \subseteq rows' \cup gone'
<1> USE DEF Types, OnlyKnownChats, serverVars, cacheVars, opVars, tabVars
<1> DEFINE Goal == /\ rows \cup gone \subseteq (rows \cup gone)'
                   /\ rows' \cap gone' = {} /\ deleting' \subseteq gone'
                   /\ chats' \cup listing'.got \cup tabs' \cup creating'
                        \subseteq rows' \cup gone'
<1>0. listing.got \subseteq Chats
  BY DEF TypeOK
<1>1. ASSUME ListRead \/ ListArrives \/ ListFails PROVE Goal
  BY <1>1 DEF ListRead, ListArrives, ListFails
<1>2. ASSUME NEW l \in loads, LoadRead(l) \/ LoadArrives(l) \/ LoadFails(l) PROVE Goal
  BY <1>2 DEF LoadRead, LoadArrives, LoadFails
<1>3. ASSUME NEW c \in Chats, OpenChat(c) PROVE Goal
  BY <1>3 DEF OpenChat
<1>4. ASSUME NEW c \in Chats, CloseTab(c) \/ Ask(c) \/ OpFails(c) PROVE Goal
  BY <1>4 DEF CloseTab, Ask, OpFails
<1>5. ASSUME NEW c \in Chats, StartCreate(c) PROVE Goal
  BY <1>5 DEF StartCreate
<1>6. ASSUME NEW c \in Chats, CreateDone(c) PROVE Goal
  BY <1>6 DEF CreateDone
<1>7. ASSUME NEW c \in Chats, StartDelete(c) PROVE Goal
  BY <1>7 DEF StartDelete
<1>8. ASSUME NEW c \in Chats, DeleteDone(c) PROVE Goal
  BY <1>8 DEF DeleteDone
<1>9. ASSUME ShowFile \/ Stop \/ Render \/ RunEffect PROVE Goal
  BY <1>9 DEF ShowFile, Stop, Render, RunEffect
<1>10. ASSUME NEW k \in DOMAIN streams, \/ ServerAccepts(k) \/ ServerFinishes(k)
                                        \/ Chunk(k) \/ Done(k) \/ StreamFails(k) \/ EndsSilently(k)
       PROVE Goal
  BY <1>10 DEF ServerAccepts, ServerFinishes, Chunk, Done, StreamFails, EndsSilently
<1>11. ASSUME UNCHANGED vars PROVE Goal
  BY <1>11 DEF vars
<1>12. ASSUME NEW c \in Chats,
              \/ OpenChat(c) \/ CloseTab(c) \/ Ask(c) \/ OpFails(c)
              \/ StartCreate(c) \/ CreateDone(c) \/ StartDelete(c) \/ DeleteDone(c)
       PROVE  Goal
  BY <1>3, <1>4, <1>5, <1>6, <1>7, <1>8, <1>12
<1> HIDE DEF Goal
<1>13. Goal
  BY <1>1, <1>2, <1>9, <1>10, <1>11, <1>12 DEF Next
<1> QED
  BY <1>13 DEF Goal

\* No step brings back a deleted chat or makes up one.
LEMMA OnlyKnownStep ==
    ASSUME Types, OnlyKnownChats, [Next]_vars
    PROVE  OnlyKnownChats'
<1>0. /\ rows \cup gone \subseteq rows' \cup gone'
      /\ rows' \cap gone' = {} /\ deleting' \subseteq gone'
      /\ chats' \cup listing'.got \cup tabs' \cup creating' \subseteq rows' \cup gone'
  BY KnownSteps
<1>1. TypeOK /\ DOMAIN streams = 1 .. Len(streams)
  BY DEF Types, TypeOK
<1>2. ASSUME NEW l \in loads' PROVE l.chat \in rows' \cup gone'
  <2>1. CASE l \in loads
    BY <1>0, <2>1 DEF OnlyKnownChats
  <2>2. CASE l.chat \in chats \cup tabs
    BY <1>0, <2>2 DEF OnlyKnownChats
  <2>3. ASSUME NEW m \in loads, l.chat = m.chat PROVE l.chat \in rows' \cup gone'
    BY <1>0, <2>3 DEF OnlyKnownChats
  <2> QED
    BY <2>1, <2>2, <2>3, LoadSteps
<1>3. ASSUME NEW c \in Chats \ (rows' \cup gone')
      PROVE  messages'[c] = None /\ history'[c] = <<>> /\ ~Asked(c)'
  <2>1. /\ c \notin rows \cup gone /\ messages[c] = None /\ history[c] = <<>> /\ ~Asked(c)
        /\ c \notin creating \cup deleting \cup tabs \cup chats
        /\ \A l \in loads : l.chat # c
    BY <1>0, <1>3 DEF OnlyKnownChats
  <2>2. \A k \in DOMAIN streams : streams[k].chat # c
    BY <2>1 DEF Asked
  <2>3. ~Asked(c)'
    <3>1. ASSUME NEW d \in Chats, Ask(d) PROVE c # d
      BY <1>1, <2>1, <3>1, ConstantsAssumption DEF Ask, TypeOK
    <3> QED
      BY <2>1, <3>1, AskedSteps
  <2>4. history'[c] = <<>>
    <3>1. ASSUME NEW d \in Chats, StartDelete(d) PROVE history'[c] = <<>>
      BY <1>1, <2>1, <3>1 DEF StartDelete, TypeOK
    <3>2. ASSUME NEW k \in DOMAIN streams, ServerAccepts(k) \/ ServerFinishes(k)
          PROVE  history'[c] = <<>>
      <4>1. \E x : history' = [history EXCEPT ![streams[k].chat] = x]
        BY <3>2 DEF ServerAccepts, ServerFinishes
      <4> QED
        BY <1>1, <2>1, <2>2, <4>1 DEF TypeOK
    <3> QED
      BY <1>1, <2>1, <3>1, <3>2, DataSteps
  <2>5. messages'[c] = None
    <3>1. ASSUME NEW l \in loads, LoadArrives(l) PROVE messages'[c] = None
      BY <1>1, <2>1, <3>1 DEF LoadArrives, TypeOK
    <3>2. ASSUME NEW d \in Chats, Ask(d) \/ CreateDone(d) \/ DeleteDone(d)
          PROVE  messages'[c] = None
      <4>1. d # c /\ \E x : messages' = [messages EXCEPT ![d] = x]
        BY <1>1, <2>1, <3>2, ConstantsAssumption DEF Ask, CreateDone, DeleteDone, TypeOK
      <4> QED
        BY <1>1, <2>1, <4>1 DEF TypeOK
    <3>3. ASSUME NEW k \in DOMAIN streams, Done(k) PROVE messages'[c] = None
      BY <1>1, <2>1, <2>2, <3>3 DEF Done, AskedIn, TypeOK
    <3> QED
      BY <1>1, <2>1, <3>1, <3>2, <3>3, DataSteps
  <2> QED
    BY <2>3, <2>4, <2>5
<1> QED
  BY <1>0, <1>2, <1>3 DEF OnlyKnownChats

\* Every step leaves a chat with a question cached, or notes that it raced.
LEMMA QuestionsCachedStep ==
    ASSUME Types, OnlyKnownChats, QuestionsCached, [Next]_vars
    PROVE  QuestionsCached'
<1>0. TypeOK /\ DOMAIN streams = 1 .. Len(streams)
  BY DEF Types, TypeOK
\* A chat the server has was there before, or is new and nobody knows it.
<1>1. /\ raced \subseteq raced'
      /\ \A c \in rows' : c \in rows \/ (c \notin rows \cup gone /\ StartCreate(c))
  <2>1. \A d \in Chats : Ask(d) => raced \subseteq raced'
    BY DEF Ask
  <2>2. \A d \in Chats : StartCreate(d) =>
            \A c \in rows' : c \in rows \/ (c \notin rows \cup gone /\ StartCreate(c))
    BY DEF StartCreate
  <2>3. \A d \in Chats : StartDelete(d) => rows' \subseteq rows
    BY DEF StartDelete
  <2> QED
    BY <1>0, <2>1, <2>2, <2>3, DataSteps
<1>2. \A c \in Chats : StartCreate(c) =>
        UNCHANGED <<history, messages, loads, raced, streams>>
  BY DEF StartCreate, cacheVars
<1>3. \A c \in Chats : Asked(c) => Asked(c)'
  BY AskedSteps
\* What the server has of a chat without questions does not change.
<1>4. ASSUME NEW c \in rows', c \in rows, ~Asked(c) PROVE history'[c] = history[c]
  <2>1. ASSUME NEW d \in Chats, StartDelete(d) PROVE history'[c] = history[c]
    BY <1>0, <1>4, <2>1 DEF StartDelete, TypeOK
  <2>2. ASSUME NEW k \in DOMAIN streams, ServerAccepts(k) \/ ServerFinishes(k)
        PROVE  history'[c] = history[c]
    <3>1. \E x : history' = [history EXCEPT ![streams[k].chat] = x]
      BY <2>2 DEF ServerAccepts, ServerFinishes
    <3>2. streams[k].chat # c
      BY <1>4 DEF Asked
    <3> QED
      BY <1>0, <3>1, <3>2 DEF TypeOK
  <2> QED
    BY <1>0, <2>1, <2>2, DataSteps
<1>5. ASSUME NEW c \in rows', ~Asked(c)' PROVE history'[c] = <<>>
  <2>1. c \in Chats /\ ~Asked(c)
    <3>1. Types'
      BY TypesStep
    <3> QED
      BY <1>3, <1>5, <3>1 DEF Types, TypeOK
  <2>2. CASE c \in rows
    BY <1>4, <2>1, <2>2 DEF QuestionsCached
  <2>3. CASE c \notin rows \cup gone /\ StartCreate(c)
    BY <1>2, <2>1, <2>3 DEF OnlyKnownChats
  <2> QED
    BY <1>1, <2>2, <2>3
<1>6. ASSUME NEW c \in rows' \ raced', messages'[c] = None \/ c \in creating'
      PROVE  ~Asked(c)'
  <2>0. c \in Chats
    <3>1. Types'
      BY TypesStep
    <3> QED
      BY <3>1 DEF Types, TypeOK
  <2>1. CASE c \notin rows
    BY <1>1, <1>2, <2>0, <2>1 DEF OnlyKnownChats, Asked
  <2>2. CASE c \in rows
    <3>1. c \in rows \ raced
      BY <1>1, <2>2
    <3>2. ASSUME NEW d \in Chats, Ask(d), d = c PROVE FALSE
      <4>1. messages' = [messages EXCEPT ![c] = Appended(c, Question(Len(streams) + 1))]
            /\ c \notin creating /\ creating' = creating
            /\ Len(streams) + 1 <= MaxStreams
        BY <3>2, <1>6 DEF Ask, opVars
      <4>2. Len(streams) + 1 \in 1 .. MaxStreams
        BY <1>0, <4>1, ConstantsAssumption DEF TypeOK
      <4>3. Appended(c, Question(Len(streams) + 1)) # None
        BY <1>0, <2>0, <4>2, AppendedType
      <4> QED
        BY <1>0, <1>6, <2>0, <4>1, <4>3 DEF TypeOK
    <3>3. ASSUME Asked(c) PROVE FALSE
      <4>1. messages[c] # None /\ c \notin creating
        BY <3>1, <3>3 DEF QuestionsCached
      <4>2. c \notin creating'
        <5>1. \A d \in Chats : CreateDone(d) \/ OpFails(d) => creating' \subseteq creating
          BY DEF CreateDone, OpFails
        <5>2. \A d \in Chats : StartCreate(d) => d # c /\ creating' = creating \cup {d}
          BY <2>2 DEF StartCreate
        <5> QED
          BY <1>0, <4>1, <5>1, <5>2, DataSteps
      <4>3. messages'[c] # None
        <5>1. ASSUME NEW l \in loads, LoadArrives(l) PROVE messages'[c] # None
          BY <1>0, <2>0, <4>1, <5>1 DEF LoadArrives, TypeOK
        <5>2. ASSUME NEW d \in Chats, CreateDone(d) PROVE messages'[c] # None
          <6>1. <<>> # None
            <7>1. <<>> \in Messages
              BY DEF Messages
            <7> QED
              BY <7>1, NoneAssumption
          <6> QED
            BY <1>0, <2>0, <4>1, <5>2, <6>1 DEF CreateDone, TypeOK
        <5>3. ASSUME NEW d \in Chats, DeleteDone(d) PROVE messages'[c] # None
          <6>1. d \in gone
            BY <5>3 DEF DeleteDone, OnlyKnownChats
          <6>2. d # c
            BY <2>2, <6>1 DEF OnlyKnownChats
          <6> QED
            BY <1>0, <2>0, <4>1, <5>3, <6>2 DEF DeleteDone, TypeOK
        <5>4. ASSUME NEW d \in Chats, Ask(d) PROVE messages'[c] # None
          BY <1>0, <2>0, <3>2, <4>1, <5>4 DEF Ask, TypeOK
        <5>5. ASSUME NEW k \in DOMAIN streams, Done(k) PROVE messages'[c] # None
          <6>1. k \in 1 .. MaxStreams /\ streams[k] \in Stream
            BY <1>0, ConstantsAssumption DEF TypeOK
          <6>2. streams[k].chat \in Chats
            BY <6>1 DEF Stream
          <6>3. Appended(streams[k].chat, Answer(k)) # None
            BY <1>0, <6>1, <6>2, AppendedType
          <6> QED
            BY <1>0, <2>0, <4>1, <5>5, <6>2, <6>3 DEF Done, AskedIn, TypeOK
        <5> QED
          BY <1>0, <4>1, <5>1, <5>2, <5>3, <5>4, <5>5, DataSteps
      <4> QED
        BY <1>6, <4>2, <4>3
    <3> QED
      BY <2>0, <3>2, <3>3, AskedSteps
  <2> QED
    BY <2>1, <2>2
<1>7. ASSUME NEW l \in loads', l.chat \in rows' \ raced'
      PROVE  ~Asked(l.chat)' /\ (l.got # None => l.got = history'[l.chat])
  <2>1. l.chat \in rows \ raced
    <3>1. ASSUME StartCreate(l.chat), l.chat \notin rows \cup gone, l.chat \in Chats
          PROVE  FALSE
      <4>1. l \in loads
        BY <1>2, <3>1
      <4> QED
        BY <3>1, <4>1 DEF OnlyKnownChats
    <3>2. l.chat \in Chats
      <4>1. Types'
        BY TypesStep
      <4> QED
        BY <1>7, <4>1 DEF Types, TypeOK
    <3> QED
      BY <1>1, <1>7, <3>1, <3>2
  <2>2. l.chat \in Chats
    BY <1>0, <2>1 DEF TypeOK
  <2>3. ~Asked(l.chat) /\ (l.got # None => l.got = history[l.chat])
    <3>1. CASE l \in loads
      BY <2>1, <3>1 DEF QuestionsCached
    <3>2. CASE messages[l.chat] = None /\ l.got = None
      BY <2>1, <3>2 DEF QuestionsCached
    <3>3. ASSUME NEW m \in loads, l.chat = m.chat, l.got = history[m.chat]
          PROVE  ~Asked(l.chat) /\ (l.got # None => l.got = history[l.chat])
      BY <2>1, <3>3 DEF QuestionsCached
    <3> QED
      BY <3>1, <3>2, <3>3, LoadSteps
  <2>4. history'[l.chat] = history[l.chat]
    BY <1>4, <1>7, <2>1, <2>3
  <2>5. ASSUME NEW d \in Chats, Ask(d) PROVE d # l.chat
    <3>1. loads' = loads
      BY <2>5 DEF Ask
    <3> QED
      BY <1>7, <2>5, <3>1 DEF Ask
  <2>6. ~Asked(l.chat)'
    BY <2>2, <2>3, <2>5, AskedSteps
  <2> QED
    BY <2>3, <2>4, <2>6
<1> QED
  BY <1>5, <1>6, <1>7 DEF QuestionsCached

\* Every step leaves the cache as far behind the server as its requests say.
LEMMA CacheFollowsStep ==
    ASSUME Types, LiveStream, OnlyKnownChats, QuestionsCached, CacheFollows, [Next]_vars
    PROVE  CacheFollows'
<1>0. TypeOK /\ DOMAIN streams = 1 .. Len(streams) /\ Len(streams) \in Nat
      /\ TypeOK' /\ DOMAIN streams' = 1 .. Len(streams') /\ Len(streams') \in Nat
  <2>1. Types'
    BY TypesStep
  <2> QED
    BY <2>1 DEF Types, TypeOK
<1> SUFFICES ASSUME NEW c \in rows' \ raced',
                    messages'[c] # None,
                    \A k \in DOMAIN streams' :
                        streams'[k].chat = c => streams'[k].client \in {"open", "done"}
             PROVE  Synchronized(c)'
  BY DEF CacheFollows
<1>1. c \in Chats /\ c \notin raced
  <2>1. \A d \in Chats : Ask(d) => raced \subseteq raced'
    BY DEF Ask
  <2> QED
    BY <1>0, <2>1, DataSteps DEF TypeOK
\* The chat is as it was, and so are its requests.
<1>2. ASSUME c \in rows, messages'[c] = messages[c], history'[c] = history[c],
             Len(streams') = Len(streams),
             \A k \in DOMAIN streams : streams[k].chat = c =>
                \/ streams'[k].client \in {"failed", "aborted", "silent"}
                \/ /\ streams'[k].client = streams[k].client
                   /\ streams'[k].server = streams[k].server
      PROVE  Synchronized(c)'
  <2>1. \A k \in DOMAIN streams : streams'[k].chat = streams[k].chat
    BY <1>0, StreamsKept
  <2>2. \A k \in DOMAIN streams : streams[k].chat = c =>
            /\ streams'[k].client = streams[k].client
            /\ streams'[k].server = streams[k].server
            /\ streams[k].client \in {"open", "done"}
    BY <1>0, <1>2, <2>1
  <2>3. Synchronized(c)
    BY <1>1, <1>2, <2>2 DEF CacheFollows
  <2>4. \A k \in DOMAIN streams : Open(k, c)' <=> Open(k, c)
    BY <2>1, <2>2 DEF Open
  <2>5. (\A k \in DOMAIN streams' : ~Open(k, c)') => messages'[c] = history'[c]
    BY <1>0, <1>2, <2>3, <2>4 DEF Synchronized
  <2>6. ASSUME NEW k \in DOMAIN streams', Open(k, c)'
        PROVE  CASE streams'[k].server = "sent" ->
                        messages'[c] = Append(history'[c], Question(k))
                 [] streams'[k].server = "accepted" -> messages'[c] = history'[c]
                 [] streams'[k].server = "finished" ->
                        history'[c] = Append(messages'[c], Answer(k))
    <3>1. k \in DOMAIN streams /\ Open(k, c) /\ streams'[k].server = streams[k].server
      BY <1>0, <1>2, <2>2, <2>4, <2>6 DEF Open
    <3> QED
      BY <1>2, <2>3, <3>1 DEF Synchronized
  <2> QED
    BY <2>5, <2>6 DEF Synchronized, Question, Answer
\* A chat without questions has what the server has.
<1>3. ASSUME ~Asked(c)', messages'[c] = history'[c] PROVE Synchronized(c)'
  BY <1>3 DEF Synchronized, Asked, Open
<1>4. CASE c \notin rows
  <2>1. PICK d \in Chats : StartCreate(d) \/ StartDelete(d)
    BY <1>0, <1>1, <1>4, DataSteps
  <2>2. d = c /\ messages' = messages
    BY <1>4, <2>1 DEF StartCreate, StartDelete, cacheVars
  <2> QED
    BY <1>1, <1>4, <2>1, <2>2 DEF StartCreate, StartDelete, OnlyKnownChats
<1>5. ASSUME c \in rows, NEW l \in loads, LoadArrives(l), l.chat = c PROVE Synchronized(c)'
  <2>1. /\ l.got # None /\ messages' = [messages EXCEPT ![c] = l.got]
        /\ UNCHANGED <<history, streams>>
    BY <1>5 DEF LoadArrives, serverVars
  <2>2. ~Asked(c) /\ l.got = history[c]
    BY <1>1, <1>5, <2>1 DEF QuestionsCached
  <2>3. ~Asked(c)'
    BY <2>1, <2>2 DEF Asked
  <2> QED
    BY <1>0, <1>1, <1>3, <2>1, <2>2, <2>3 DEF TypeOK
<1>6. ASSUME c \in rows, CreateDone(c) PROVE Synchronized(c)'
  <2>1. c \in creating /\ messages' = [messages EXCEPT ![c] = <<>>] /\ UNCHANGED history
        /\ Front(c) /\ c # None
    BY <1>1, <1>6, ConstantsAssumption DEF CreateDone, serverVars
  <2>2. ~Asked(c) /\ history[c] = <<>>
    BY <1>1, <1>6, <2>1 DEF QuestionsCached
  <2>3. ~Asked(c)'
    BY <2>1, <2>2 DEF Asked, Front
  <2> QED
    BY <1>0, <1>1, <1>3, <2>1, <2>2, <2>3 DEF TypeOK
<1>7. ASSUME c \in rows, Ask(c) PROVE Synchronized(c)'
  <2>0. PICK k : k = Len(streams) + 1
    OBVIOUS
  <2> DEFINE new == [chat |-> c, server |-> "sent", sent |-> 0, client |-> "open"]
  <2>1. /\ ~streaming /\ UNCHANGED history
        /\ streams' = Append(streams, new)
        /\ messages' = [messages EXCEPT ![c] = Appended(c, Question(k))]
    BY <1>7, <2>0 DEF Ask, MayAsk, serverVars
  <2>2. \A q \in DOMAIN streams : streams[q].client # "open"
    BY <2>1 DEF LiveStream, OneLiveStream
  <2>3. new.chat = c /\ new.server = "sent" /\ new.client = "open"
    OBVIOUS
  <2> HIDE DEF new
  <2>4. /\ Len(streams') = k /\ streams'[k] = new
        /\ \A q \in DOMAIN streams : streams'[q] = streams[q]
        /\ \A q \in DOMAIN streams' : q \in DOMAIN streams \/ q = k
        /\ DOMAIN streams \subseteq DOMAIN streams'
    BY <1>0, <2>0, <2>1 DEF TypeOK
  <2>5. \A q \in DOMAIN streams' : Open(q, c)' => q = k
    BY <2>2, <2>4 DEF Open
  <2>6. k \in DOMAIN streams' /\ Open(k, c)' /\ streams'[k].server = "sent"
    BY <1>0, <2>0, <2>3, <2>4 DEF Open
  <2>7. CASE messages[c] = None
    <3>1. ~Asked(c) /\ history[c] = <<>>
      BY <1>1, <1>7, <2>7 DEF QuestionsCached
    <3>2. messages'[c] = Append(history'[c], Question(k))
      BY <1>0, <1>1, <2>1, <2>7, <3>1 DEF Appended, TypeOK
    <3> QED
      BY <2>5, <2>6, <3>2 DEF Synchronized, Question
  <2>8. CASE messages[c] # None
    <3>1. \A q \in DOMAIN streams : streams[q].chat = c => streams[q].client \in {"open", "done"}
      BY <2>4
    <3>2. messages[c] = history[c]
      BY <1>1, <1>7, <2>2, <2>8, <3>1 DEF CacheFollows, Synchronized, Open
    <3>3. messages'[c] = Append(history'[c], Question(k))
      BY <1>0, <1>1, <2>1, <2>8, <3>2 DEF Appended, TypeOK
    <3> QED
      BY <2>5, <2>6, <3>3 DEF Synchronized, Question
  <2> QED
    BY <2>7, <2>8
\* The only request of the chat that is under way goes on.
<1>8. ASSUME c \in rows, NEW k \in DOMAIN streams,
             ServerAccepts(k) \/ ServerFinishes(k) \/ Done(k), streams[k].chat = c
      PROVE  Synchronized(c)'
  <2>1. streams[k].client = "open" /\ Asked(c) /\ k = Len(streams)
    BY <1>8 DEF ServerAccepts, ServerFinishes, Done, Asked, LiveStream, OneLiveStream
  <2>2. messages[c] # None
    BY <1>1, <1>8, <2>1 DEF QuestionsCached
  <2>3. \A q \in DOMAIN streams : q # k => streams[q].client # "open"
    BY <2>1 DEF LiveStream, OneLiveStream
  <2>4. \E x : streams' = [streams EXCEPT ![k] = x]
    BY <1>8 DEF ServerAccepts, ServerFinishes, Done
  <2>5. /\ Len(streams') = Len(streams) /\ DOMAIN streams' = DOMAIN streams
        /\ \A q \in DOMAIN streams : q # k => streams'[q] = streams[q]
    BY <1>0, <2>4 DEF TypeOK
  <2>6. streams'[k].chat = c
    BY <1>0, <1>8, StreamsKept
  <2>7. Synchronized(c)
    <3>1. \A q \in DOMAIN streams : streams[q].chat = c => streams[q].client \in {"open", "done"}
      BY <2>1, <2>5
    <3> QED
      BY <1>1, <1>8, <2>2, <3>1 DEF CacheFollows
  <2>8. Open(k, c) /\ streams[k] \in Stream
    BY <1>0, <1>8, <2>1 DEF Open, TypeOK
  <2>9. CASE ServerAccepts(k)
    <3>1. /\ streams[k].server = "sent" /\ UNCHANGED messages
          /\ history' = [history EXCEPT ![c] = Append(history[c], Question(k))]
          /\ streams' = [streams EXCEPT ![k] = [streams[k] EXCEPT !.server = "accepted"]]
      BY <1>8, <2>9 DEF ServerAccepts, cacheVars
    <3>2. messages[c] = Append(history[c], Question(k))
      BY <2>7, <2>8, <3>1 DEF Synchronized
    <3>3. messages'[c] = history'[c]
      BY <1>0, <1>1, <3>1, <3>2 DEF TypeOK
    <3>4. streams'[k].server = "accepted" /\ streams'[k].client = "open"
      BY <2>1, <2>8, <3>1 DEF Stream
    <3> QED
      BY <2>3, <2>5, <3>3, <3>4 DEF Synchronized, Open
  <2>10. CASE ServerFinishes(k)
    <3>1. /\ streams[k].server = "accepted" /\ UNCHANGED messages
          /\ history' = [history EXCEPT ![c] = Append(history[c], Answer(k))]
          /\ streams' = [streams EXCEPT ![k] = [streams[k] EXCEPT !.server = "finished"]]
      BY <1>8, <2>10 DEF ServerFinishes, cacheVars
    <3>2. messages[c] = history[c]
      BY <2>7, <2>8, <3>1 DEF Synchronized
    <3>3. history'[c] = Append(messages'[c], Answer(k))
      BY <1>0, <1>1, <3>1, <3>2 DEF TypeOK
    <3>4. streams'[k].server = "finished" /\ streams'[k].client = "open"
      BY <2>1, <2>8, <3>1 DEF Stream
    <3>5. \A q \in DOMAIN streams' : Open(q, c)' => q = k
      BY <2>3, <2>5 DEF Open
    <3>6. Open(k, c)' /\ k \in DOMAIN streams'
      BY <2>5, <2>6, <3>4 DEF Open
    <3> QED
      BY <3>3, <3>4, <3>5, <3>6 DEF Synchronized, Answer
  <2>11. CASE Done(k)
    <3>1. /\ streams[k].server = "finished" /\ UNCHANGED history
          /\ messages' = [messages EXCEPT ![c] = Appended(c, Answer(k))]
          /\ streams' = [streams EXCEPT ![k] = Ended(k, "done")]
      BY <1>8, <2>11 DEF Done, AskedIn, serverVars
    <3>2. history[c] = Append(messages[c], Answer(k))
      BY <2>7, <2>8, <3>1 DEF Synchronized
    <3>3. messages'[c] = history'[c]
      BY <1>0, <1>1, <2>2, <3>1, <3>2 DEF Appended, TypeOK
    <3>4. streams'[k].client = "done"
      BY <1>0, <3>1, EndedType
    <3>5. \A q \in DOMAIN streams' : ~Open(q, c)'
      BY <2>3, <2>5, <3>4 DEF Open
    <3> QED
      BY <3>3, <3>5 DEF Synchronized
  <2> QED
    BY <1>8, <2>9, <2>10, <2>11
\* Everything else concerns other chats, or ends a request.
<1>9. ASSUME c \in rows,
             \A l \in loads : ~(LoadArrives(l) /\ l.chat = c),
             ~CreateDone(c), ~Ask(c),
             \A k \in DOMAIN streams : streams[k].chat = c =>
                ~ServerAccepts(k) /\ ~ServerFinishes(k) /\ ~Done(k)
      PROVE  Synchronized(c)'
  <2>1. messages'[c] = messages[c]
    <3>1. ASSUME NEW l \in loads, LoadArrives(l) PROVE messages'[c] = messages[c]
      BY <1>0, <1>1, <1>9, <3>1 DEF LoadArrives, TypeOK
    <3>2. ASSUME NEW d \in Chats, Ask(d) \/ CreateDone(d) \/ DeleteDone(d)
          PROVE  messages'[c] = messages[c]
      <4>1. DeleteDone(d) => d # c
        BY <1>9 DEF DeleteDone, OnlyKnownChats
      <4>2. d # c /\ \E x : messages' = [messages EXCEPT ![d] = x]
        BY <1>9, <3>2, <4>1 DEF Ask, CreateDone, DeleteDone
      <4> QED
        BY <1>0, <1>1, <4>2 DEF TypeOK
    <3>3. ASSUME NEW k \in DOMAIN streams, Done(k) PROVE messages'[c] = messages[c]
      <4>1. streams[k].chat # c
            /\ \E x : messages' = [messages EXCEPT ![streams[k].chat] = x]
        BY <1>9, <3>3 DEF Done, AskedIn
      <4> QED
        BY <1>0, <1>1, <4>1 DEF TypeOK
    <3> QED
      BY <1>0, <3>1, <3>2, <3>3, DataSteps
  <2>2. history'[c] = history[c]
    <3>1. ASSUME NEW d \in Chats, StartDelete(d) PROVE history'[c] = history[c]
      <4>1. d # c
        BY <3>1, <1>1 DEF StartDelete
      <4> QED
        BY <1>0, <1>1, <3>1, <4>1 DEF StartDelete, TypeOK
    <3>2. ASSUME NEW k \in DOMAIN streams, ServerAccepts(k) \/ ServerFinishes(k)
          PROVE  history'[c] = history[c]
      <4>1. streams[k].chat # c
            /\ \E x : history' = [history EXCEPT ![streams[k].chat] = x]
        BY <1>9, <3>2 DEF ServerAccepts, ServerFinishes
      <4> QED
        BY <1>0, <1>1, <4>1 DEF TypeOK
    <3> QED
      BY <1>0, <3>1, <3>2, DataSteps
  <2>3. CASE Len(streams') = Len(streams)
    <3>1. \A k \in DOMAIN streams : streams[k].chat = c =>
                \/ streams'[k].client \in {"failed", "aborted", "silent"}
                \/ /\ streams'[k].client = streams[k].client
                   /\ streams'[k].server = streams[k].server
      <4>1. ASSUME NEW d \in Chats, Ask(d) PROVE FALSE
        <5>1. PICK x : streams' = Append(streams, x)
          BY <4>1 DEF Ask
        <5>2. Len(streams') = Len(streams) + 1
          BY <1>0, <5>1 DEF TypeOK
        <5> QED
          BY <1>0, <2>3, <5>2
      <4>2. ASSUME NEW q \in DOMAIN streams, ServerAccepts(q) \/ ServerFinishes(q) \/ Done(q)
            PROVE  \A k \in DOMAIN streams : streams[k].chat = c => streams'[k] = streams[k]
        <5>1. streams[q].chat # c /\ \E x : streams' = [streams EXCEPT ![q] = x]
          BY <1>9, <4>2 DEF ServerAccepts, ServerFinishes, Done
        <5> QED
          BY <1>0, <5>1 DEF TypeOK
      <4> QED
        BY <1>0, <4>1, <4>2, RequestsKept
    <3> QED
      BY <1>2, <1>9, <2>1, <2>2, <2>3, <3>1
  \* A question in another chat.
  <2>4. ASSUME NEW d \in Chats, Ask(d), Len(streams') = Len(streams) + 1,
               \A k \in DOMAIN streams : streams'[k] = streams[k],
               streams'[Len(streams')] =
                  [chat |-> d, server |-> "sent", sent |-> 0, client |-> "open"]
        PROVE  Synchronized(c)'
    <3>1. d # c /\ streams'[Len(streams')].chat # c
      BY <1>9, <2>4
    <3>2. \A k \in DOMAIN streams' : k \in DOMAIN streams \/ k = Len(streams')
      BY <1>0, <2>4
    <3>3. DOMAIN streams \subseteq DOMAIN streams'
      BY <1>0, <2>4
    <3>4. Synchronized(c)
      BY <1>1, <1>9, <2>1, <2>4, <3>3 DEF CacheFollows
    <3>5. \A k \in DOMAIN streams' : Open(k, c)' => k \in DOMAIN streams /\ Open(k, c)
      BY <2>4, <3>1, <3>2 DEF Open
    <3>6. (\A k \in DOMAIN streams' : ~Open(k, c)') => messages'[c] = history'[c]
      BY <2>1, <2>2, <2>4, <3>3, <3>4 DEF Synchronized, Open
    <3>7. ASSUME NEW k \in DOMAIN streams', Open(k, c)'
          PROVE  CASE streams'[k].server = "sent" ->
                        messages'[c] = Append(history'[c], Question(k))
                   [] streams'[k].server = "accepted" -> messages'[c] = history'[c]
                   [] streams'[k].server = "finished" ->
                        history'[c] = Append(messages'[c], Answer(k))
      <4>1. k \in DOMAIN streams /\ Open(k, c) /\ streams'[k] = streams[k]
        BY <2>4, <3>5, <3>7
      <4> QED
        BY <2>1, <2>2, <3>4, <4>1 DEF Synchronized
    <3> QED
      BY <3>6, <3>7 DEF Synchronized, Question, Answer
  <2> QED
    BY <2>3, <2>4, AskedSteps
<1> QED
  BY <1>4, <1>5, <1>6, <1>7, <1>8, <1>9

\* What is shown of a chat is what the server has of it, for any number of
\* chats and questions, once the answers have come and if no question overtook
\* the answer that fills the cache.
THEOREM CacheCorrect == Spec => []CacheAgrees
<1> DEFINE IInv == OnlyKnownChats /\ QuestionsCached /\ CacheFollows
<1>1. Init => IInv
  <2> SUFFICES ASSUME Init PROVE IInv
    OBVIOUS
  <2>1. OnlyKnownChats
    BY ConstantsAssumption DEF Init, OnlyKnownChats, Asked
  <2>2. QuestionsCached
    BY ConstantsAssumption DEF Init, QuestionsCached, Asked
  <2>3. CacheFollows
    BY ConstantsAssumption DEF Init, CacheFollows
  <2> QED
    BY <2>1, <2>2, <2>3
<1>2. Types /\ LiveStream /\ IInv /\ [Next]_vars => IInv'
  BY OnlyKnownStep, QuestionsCachedStep, CacheFollowsStep
<1>3. Types /\ IInv => CacheAgrees
  <2> SUFFICES ASSUME TypeOK, CacheFollows PROVE CacheAgrees
    BY DEF Types
  <2> SUFFICES ASSUME NEW c \in rows \ raced, messages[c] # None,
                      \A k \in DOMAIN streams :
                         streams[k].chat = c => streams[k].client = "done"
               PROVE  messages[c] = history[c]
    BY DEF CacheAgrees
  <2> QED
    BY DEF CacheFollows, Synchronized, Open
<1> HIDE DEF IInv
<1>4. Spec => []IInv
  BY <1>1, <1>2, LiveStreamAlways, PTL DEF Spec
<1> QED
  BY <1>3, <1>4, TypesAlways, PTL

=============================================================================
