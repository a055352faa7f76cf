----------------------------- MODULE ChatPanel -----------------------------
(***************************************************************************)
(* The assistant chats of an editor view: the chat list and the message    *)
(* cache (useChatManager), the chat tabs (EditorView), and the window that *)
(* streams an answer (ChatWindow, streamChat), with React's rendering of   *)
(* the stream buffer and the assistant-service they talk to.               *)
(*                                                                         *)
(* One user, one project, one view. A question and its answer have the     *)
(* number of the stream; a text is the sequence of the chunks it is made   *)
(* of. Titles, the input box and the error banner are left out.            *)
(***************************************************************************)
EXTENDS Naturals, Sequences, FiniteSets

CONSTANTS
    Chats,      \* chats the project has or may get
    Existing,   \* those it has when the view opens
    None,       \* no entry in a map; no chat tab in front
    MaxStreams, \* bound: questions asked
    MaxChunks,  \* bound: chunks of an answer
    MaxOps      \* bound: chats created or deleted

ASSUME ConstantsAssumption ==
    /\ Existing \subseteq Chats
    /\ None \notin Chats
    /\ {MaxStreams, MaxChunks, MaxOps} \subseteq Nat

\* The messages of a chat, and a text as far as it has arrived.
Messages == Seq([role : {"user", "assistant"}, of : 1 .. MaxStreams])
Text == Seq([of : 1 .. MaxStreams, n : 1 .. MaxChunks])

\* A missing entry is not mistaken for an empty one.
ASSUME NoneAssumption == None \notin Messages \cup Text

VARIABLES
    \* assistant-service: the chats, those deleted, and the questions and
    \* answers of each.
    rows, gone, history,
    \* useChatManager: the list, the pending request for it, the cached
    \* messages, the chats marked as loading.
    chats, listing, messages, loading,
    \* Requests under way: GETs of messages, POSTs and DELETEs of chats.
    loads, creating, deleting,
    \* EditorView: the chat tabs, and the one in front (None: a file is).
    tabs, active,
    \* ChatWindow: streaming; streamBuffer as set and as rendered; the ref;
    \* the value a passive effect has yet to write to the ref.
    streaming, buffer, rendered, ref, effect,
    \* streamChat: every question asked.
    streams,
    \* History: chats in which a question was asked while their messages were
    \* loading, or the answer to their creation was still under way.
    raced

serverVars == <<rows, gone, history>>
cacheVars  == <<chats, listing, messages, loading, loads, raced>>
opVars     == <<creating, deleting>>
tabVars    == <<tabs, active>>
windowVars == <<streaming, buffer, rendered, ref, effect>>
vars == <<serverVars, cacheVars, opVars, tabVars, windowVars, streams>>

Init ==
    /\ rows = Existing /\ gone = {}
    /\ history = [c \in Chats |-> <<>>]
    /\ chats = {} /\ listing = [step |-> "sent", got |-> {}]
    /\ messages = [c \in Chats |-> None] /\ loading = {} /\ loads = {}
    /\ creating = {} /\ deleting = {}
    /\ tabs = {} /\ active = None
    /\ streaming = FALSE
    /\ buffer = <<>> /\ rendered = <<>> /\ ref = <<>> /\ effect = None
    /\ streams = <<>>
    /\ raced = {}

Question(k) == [role |-> "user", of |-> k]
Answer(k)   == [role |-> "assistant", of |-> k]

-----------------------------------------------------------------------------
(***************************************************************************)
(* The list of chats. It is requested once, when the view opens.           *)
(***************************************************************************)

\* The server answers with what there is now.
ListRead ==
    /\ listing.step = "sent"
    /\ listing' = [step |-> "read", got |-> rows]
    /\ UNCHANGED <<serverVars, chats, messages, loading, loads, raced, opVars,
                   tabVars, windowVars, streams>>

\* The answer replaces the list.
ListArrives ==
    /\ listing.step = "read"
    /\ chats' = listing.got
    /\ listing' = [step |-> "done", got |-> {}]
    /\ UNCHANGED <<serverVars, messages, loading, loads, raced, opVars, tabVars,
                   windowVars, streams>>

ListFails ==
    /\ listing.step = "sent"
    /\ listing' = [step |-> "done", got |-> {}]
    /\ UNCHANGED <<serverVars, chats, messages, loading, loads, raced, opVars,
                   tabVars, windowVars, streams>>

-----------------------------------------------------------------------------
(***************************************************************************)
(* The messages of a chat.                                                 *)
(***************************************************************************)

NotCached(c) == messages[c] = None
\* The guard of ensureChatMessages.
MustLoad(c) == messages[c] = None /\ c \notin loading

Request(c) == [chat |-> c, got |-> None,
               n |-> 1 + Cardinality({l \in loads : l.chat = c})]

\* ensureChatMessages, called by the click on a chat and by the effect that
\* runs when another chat is active or the maps have changed.
EnsureChatMessages(c) ==
    IF c # None /\ MustLoad(c)
    THEN loading' = loading \cup {c} /\ loads' = loads \cup {Request(c)}
    ELSE UNCHANGED <<loading, loads>>

\* The server answers with the messages of now.
LoadRead(l) ==
    /\ l \in loads /\ l.got = None
    /\ loads' = (loads \ {l}) \cup {[l EXCEPT !.got = history[l.chat]]}
    /\ UNCHANGED <<serverVars, chats, listing, messages, loading, raced, opVars,
                   tabVars, windowVars, streams>>

\* The answer replaces what is cached.
LoadArrives(l) ==
    /\ l \in loads /\ l.got # None
    /\ loads' = loads \ {l}
    /\ messages' = [messages EXCEPT ![l.chat] = l.got]
    /\ loading' = loading \ {l.chat}
    /\ UNCHANGED <<serverVars, chats, listing, raced, opVars, tabVars, windowVars,
                   streams>>

\* The request fails. The flag is lowered, so that ensureChatMessages is a new
\* function, and the effect calls it at once for the active chat.
LoadFails(l) ==
    /\ l \in loads /\ l.got = None
    /\ IF active = l.chat /\ NotCached(l.chat)
       THEN UNCHANGED <<loads, loading>>
       ELSE /\ loads' = loads \ {l}
            /\ loading' = loading \ {l.chat}
    /\ UNCHANGED <<serverVars, chats, listing, messages, raced, opVars, tabVars,
                   windowVars, streams>>

-----------------------------------------------------------------------------
(***************************************************************************)
(* Tabs. All chats share one ChatWindow, which is there while a chat tab   *)
(* is in front; it aborts its request when it unmounts.                    *)
(***************************************************************************)

\* A request that has been aborted or has failed is not followed any further:
\* the server may or may not go on with it.
Ended(k, how) ==
    [chat |-> streams[k].chat, server |-> "finished", sent |-> 0, client |-> how]
Abort(k) == IF streams[k].client = "open" THEN Ended(k, "aborted") ELSE streams[k]

LeavesRunning(k) == streams[k]
AbortOnUnmount(k) == Abort(k)

CloseWindow ==
    /\ streaming' = FALSE
    /\ buffer' = <<>> /\ rendered' = <<>> /\ ref' = <<>> /\ effect' = None
    /\ streams' = [k \in DOMAIN streams |-> AbortOnUnmount(k)]

\* Chat tab c, or None for a file or a main panel, comes to the front.
Front(c) ==
    /\ active' = c
    /\ IF c = None THEN CloseWindow ELSE UNCHANGED <<windowVars, streams>>

\* The user acts on what is drawn: React renders, and runs the effects left
\* over, before it handles a click or a key.
Drawn == buffer = rendered /\ effect = None

\* handleOpenChatTab, and the click on a chat tab.
OpenChat(c) ==
    /\ Drawn
    /\ c \in tabs \/ (c \in chats /\ listing.step = "done")
    /\ c # active
    /\ tabs' = tabs \cup {c}
    /\ Front(c)
    /\ EnsureChatMessages(c)
    /\ UNCHANGED <<serverVars, chats, listing, messages, raced, opVars>>

ShowFile ==
    /\ Drawn
    /\ active # None
    /\ Front(None)
    /\ UNCHANGED <<serverVars, cacheVars, opVars, tabs>>

\* What closeTabs may show instead of a closed tab: the rightmost remaining
\* one, any in this order-less model, or a file or nothing.
AnyTab(c) == tabs \cup {None}
Remaining(c) == (tabs \ {c}) \cup {None}

\* handleTabClose: another tab replaces the active one. The cache of a chat outlives its tab.
CloseTab(c) ==
    /\ Drawn
    /\ c \in tabs
    /\ tabs' = tabs \ {c}
    /\ \/ active # c /\ UNCHANGED <<active, windowVars, streams, loading, loads>>
       \/ /\ active = c
          /\ \E d \in Remaining(c) : Front(d) /\ EnsureChatMessages(d)
    /\ UNCHANGED <<serverVars, chats, listing, messages, raced, opVars>>

-----------------------------------------------------------------------------
(***************************************************************************)
(* handleCreateChatTab and handleDeleteChat.                               *)
(***************************************************************************)

Created == (rows \cup gone) \ Existing
MoreOps == Cardinality(Created) + Cardinality(gone) < MaxOps

\* createChat: the POST takes effect.
StartCreate(c) ==
    /\ Drawn /\ MoreOps
    /\ c \notin rows \cup gone
    /\ rows' = rows \cup {c}
    /\ creating' = creating \cup {c}
    /\ UNCHANGED <<gone, history, cacheVars, deleting, tabVars, windowVars, streams>>

\* createNewChat and addTab.
CreateDone(c) ==
    /\ c \in creating
    /\ creating' = creating \ {c}
    /\ chats' = chats \cup {c}
    /\ messages' = [messages EXCEPT ![c] = <<>>]
    /\ tabs' = tabs \cup {c}
    /\ Front(c)
    /\ UNCHANGED <<serverVars, listing, loading, loads, raced, deleting>>

\* deleteChat: the DELETE takes effect.
StartDelete(c) ==
    /\ Drawn /\ MoreOps
    /\ c \in chats \cap rows /\ listing.step = "done"
    /\ rows' = rows \ {c} /\ gone' = gone \cup {c}
    /\ history' = [history EXCEPT ![c] = <<>>]
    /\ deleting' = deleting \cup {c}
    /\ UNCHANGED <<cacheVars, creating, tabVars, windowVars, streams>>

\* removeChat and handleTabClose.
DeleteDone(c) ==
    /\ c \in deleting
    /\ deleting' = deleting \ {c}
    /\ chats' = chats \ {c}
    /\ messages' = [messages EXCEPT ![c] = None]
    /\ tabs' = tabs \ {c}
    /\ IF active # c
       THEN /\ loading' = loading \ {c}
            /\ UNCHANGED <<active, windowVars, streams, loads>>
       ELSE \E d \in Remaining(c) :
              /\ Front(d)
              /\ IF d # None /\ MustLoad(d)
                 THEN /\ loading' = (loading \ {c}) \cup {d}
                      /\ loads' = loads \cup {Request(d)}
                 ELSE loading' = loading \ {c} /\ UNCHANGED loads
    /\ UNCHANGED <<serverVars, listing, raced, creating>>

\* The answer is lost, or the request refused: nothing follows.
OpFails(c) ==
    /\ c \in creating \cup deleting
    /\ creating' = creating \ {c} /\ deleting' = deleting \ {c}
    /\ UNCHANGED <<serverVars, cacheVars, tabVars, windowVars, streams>>

-----------------------------------------------------------------------------
(***************************************************************************)
(* Questions and answers.                                                  *)
(***************************************************************************)

\* updateChatMessages with an appended message.
Prepended(c, m) == <<m>> \o (IF messages[c] = None THEN <<>> ELSE messages[c])
Appended(c, m) == Append(IF messages[c] = None THEN <<>> ELSE messages[c], m)

AlwaysMayAsk == TRUE
\* The guard of handleSendStable.
MayAsk == ~streaming

\* handleSendStable for the chat in front.
Ask(c) ==
    LET k == Len(streams) + 1
    IN  /\ Drawn /\ c = active /\ MayAsk /\ k <= MaxStreams
        /\ messages' = [messages EXCEPT ![c] = Appended(c, Question(k))]
        /\ streaming' = TRUE /\ buffer' = <<>> /\ ref' = <<>>
        /\ streams' = Append(streams, [chat |-> c, server |-> "sent", sent |-> 0,
                                       client |-> "open"])
        /\ raced' = IF c \in creating \/ \E l \in loads : l.chat = c
                    THEN raced \cup {c} ELSE raced
        /\ UNCHANGED <<serverVars, chats, listing, loading, loads, opVars, tabVars,
                       rendered, effect>>

\* The server stores the question.
ServerAccepts(k) ==
    LET c == streams[k].chat
    IN  /\ streams[k].client = "open" /\ streams[k].server = "sent"
        /\ c \in rows
        /\ history' = [history EXCEPT ![c] = Append(@, Question(k))]
        /\ streams' = [streams EXCEPT ![k].server = "accepted"]
        /\ UNCHANGED <<rows, gone, cacheVars, opVars, tabVars, windowVars>>

\* The server stores the answer, having sent its chunks.
ServerFinishes(k) ==
    LET c == streams[k].chat
    IN  /\ streams[k].client = "open" /\ streams[k].server = "accepted"
        /\ c \in rows
        /\ history' = [history EXCEPT ![c] = Append(@, Answer(k))]
        /\ streams' = [streams EXCEPT ![k].server = "finished"]
        /\ UNCHANGED <<rows, gone, cacheVars, opVars, tabVars, windowVars>>

\* onChunk: the ref grows and its value is set as the state.
Chunk(k) ==
    /\ streams[k].client = "open" /\ streams[k].server = "accepted"
    /\ streams[k].sent < MaxChunks
    /\ ref' = Append(ref, [of |-> k, n |-> streams[k].sent + 1])
    /\ buffer' = ref'
    /\ streams' = [streams EXCEPT ![k].sent = @ + 1]
    /\ UNCHANGED <<serverVars, cacheVars, opVars, tabVars, streaming, rendered,
                   effect>>

\* The chat an answer is added to: the one in front when it was asked.
InFront(k) == IF active = None THEN streams[k].chat ELSE active
AskedIn(k) == streams[k].chat

\* onDone.
Done(k) ==
    /\ streams[k].client = "open" /\ streams[k].server = "finished"
    /\ streaming' = FALSE /\ buffer' = <<>> /\ ref' = <<>>
    /\ messages' = [messages EXCEPT ![AskedIn(k)] = Appended(AskedIn(k), Answer(k))]
    /\ streams' = [streams EXCEPT ![k] = Ended(k, "done")]
    /\ UNCHANGED <<serverVars, chats, listing, loading, loads, raced, opVars, tabVars,
                   rendered, effect>>

\* onError: the request is refused, the connection breaks, or the server
\* reports an error; it does not, then, go on.
StreamFails(k) ==
    /\ streams[k].client = "open"
    /\ streaming' = FALSE /\ buffer' = <<>> /\ ref' = <<>>
    /\ streams' = [streams EXCEPT ![k] = Ended(k, "failed")]
    /\ UNCHANGED <<serverVars, cacheVars, opVars, tabVars, rendered, effect>>

\* The body ends, or reports an error without a message, which streamChat takes
\* for no event: none of the callbacks runs, and the window goes on waiting
\* until it unmounts.
EndsSilently(k) ==
    /\ streams[k].client = "open"
    /\ streams' = [streams EXCEPT ![k] = Ended(k, "silent")]
    /\ UNCHANGED <<serverVars, cacheVars, opVars, tabVars, windowVars>>

\* The button to stop is there instead of the one to send.
StopShown == streaming

\* handleStop. Nothing tells the window that the request was aborted. (Once the
\* request has ended silently, the button does nothing.)
Stop ==
    /\ Drawn
    /\ StopShown
    /\ streams # <<>> /\ streams[Len(streams)].client = "open"
    /\ streams' = [streams EXCEPT ![Len(streams)] = Abort(Len(streams))]
    /\ UNCHANGED <<serverVars, cacheVars, opVars, tabVars, windowVars>>

\* React renders the window with the new streamBuffer. It runs the passive
\* effects of the last render first, and leaves a new one behind.
Render ==
    /\ active # None /\ buffer # rendered
    /\ ref' = IF effect = None THEN ref ELSE effect
    /\ rendered' = buffer /\ effect' = buffer
    /\ UNCHANGED <<serverVars, cacheVars, opVars, tabVars, streaming, buffer, streams>>

\* The effect that copies streamBuffer to the ref runs.
RunEffect ==
    /\ effect # None
    /\ ref' = effect /\ effect' = None
    /\ UNCHANGED <<serverVars, cacheVars, opVars, tabVars, streaming, buffer, rendered,
                   streams>>

-----------------------------------------------------------------------------
Next ==
    \/ ListRead \/ ListArrives \/ ListFails
    \/ \E l \in loads : LoadRead(l) \/ LoadArrives(l) \/ LoadFails(l)
    \/ \E c \in Chats :
        \/ OpenChat(c) \/ CloseTab(c) \/ Ask(c) \/ OpFails(c)
        \/ StartCreate(c) \/ CreateDone(c) \/ StartDelete(c) \/ DeleteDone(c)
    \/ ShowFile \/ Stop \/ Render \/ RunEffect
    \/ \E k \in DOMAIN streams :
        \/ ServerAccepts(k) \/ ServerFinishes(k)
        \/ Chunk(k) \/ Done(k) \/ StreamFails(k) \/ EndsSilently(k)

Spec == Init /\ [][Next]_vars

-----------------------------------------------------------------------------
(***************************************************************************)
(* Properties.                                                             *)
(***************************************************************************)

Load == [chat : Chats, n : Nat, got : Messages \cup {None}]
Stream == [chat : Chats, server : {"sent", "accepted", "finished"},
           sent : 0 .. MaxChunks,
           client : {"open", "done", "failed", "aborted", "silent"}]

\* The types of the variables.
TypeOK ==
    /\ rows \subseteq Chats /\ gone \subseteq Chats
    /\ history \in [Chats -> Messages]
    /\ chats \subseteq Chats
    /\ listing \in [step : {"sent", "read", "done"}, got : SUBSET Chats]
    /\ messages \in [Chats -> Messages \cup {None}]
    /\ loading \subseteq Chats
    /\ loads \subseteq Load
    /\ creating \subseteq Chats /\ deleting \subseteq Chats
    /\ tabs \subseteq Chats /\ active \in tabs \cup {None}
    /\ streaming \in BOOLEAN
    /\ buffer \in Text /\ rendered \in Text /\ ref \in Text
    /\ effect \in Text \cup {None}
    /\ streams \in Seq(Stream) /\ Len(streams) <= MaxStreams
    /\ raced \subseteq Chats

\* An answer is added to the chat it was asked in, although all chats share a
\* window and another one may be in front by then (onMessagesUpdate).
AnswersStayInTheirChat ==
    \A c \in Chats : messages[c] # None =>
        \A i \in DOMAIN messages[c] : streams[messages[c][i].of].chat = c

\* The window and its requests agree. At most one request can still call back
\* into the window: the last one, of a window that is there and waits for it
\* (streaming, abortRef). And the window waits, its input disabled, only for a
\* request under way, or for one that ended without a callback: the user
\* stopped it, or streamChat ended silently. After onDone and onError, whatever
\* tabs were opened and closed meanwhile, it does not wait.
OneLiveStream ==
    /\ \A k \in DOMAIN streams : streams[k].client = "open" =>
        k = Len(streams) /\ streaming /\ active # None
    /\ streaming => streams[Len(streams)].client \in {"open", "aborted", "silent"}

\* The chunks of two answers never meet: whatever stands in the buffer, in the
\* ref an answer is taken from, or in an effect that has yet to write to that
\* ref, is the last question's answer once it has begun to arrive.
AnswersAreNotMixed ==
    LET k == Len(streams)
        Foreign(text) == \E i \in DOMAIN text : text[i].of # k
    IN  k > 0 /\ streams[k].client = "open" =>
            /\ ~Foreign(buffer) /\ ~Foreign(ref)
            /\ effect # None => ~Foreign(effect)

\* What is shown of a chat is what the server has of it, once its questions
\* are answered, unless one was stopped, failed or ended silently, or was
\* asked before an answer that replaces the cache: that of the GET or of the
\* POST.
CacheAgrees ==
    \A c \in rows \ raced :
        /\ messages[c] # None
        /\ \A k \in DOMAIN streams :
              streams[k].chat = c => streams[k].client = "done"
        => messages[c] = history[c]

=============================================================================
