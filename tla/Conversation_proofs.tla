-------------------------- MODULE Conversation_proofs --------------------------
(***************************************************************************)
(* Proofs about Conversation, for any messages and number of attempts.     *)
(*                                                                         *)
(* Three inductive invariants, one above the other.  BrowserSound: of the  *)
(* browser's streams the only one not idle is the open question's, or the  *)
(* one the conversation was cleared on; it gives the refinement of         *)
(* Dialogue.  RelaySound: while the relay asks the agent nothing of the    *)
(* response has begun.  StreamedSound: what is on its way to the log as a  *)
(* text was streamed.                                                      *)
(***************************************************************************)
EXTENDS Conversation, TLAPS

USE DEF vars, chatVars, clientVars

StreamType == [phase : {"idle", "fetch", "read", "aborted"}, acc : BOOLEAN]

RelayType == [phase : {"idle", "check", "fetch", "stream"}, attempt : 0 .. MaxAttempts, got : BOOLEAN]

ReplyType == [state : {"none", "awaited", "failed", "open", "closed", "broken", "gone"},
              text : BOOLEAN]

QueryType == {"idle", "received", "stream", "over", "failed"}

Live(s) == stream[s].phase \in {"fetch", "read"}
Aborted(s) == stream[s].phase = "aborted"

BrowserSound ==
    /\ log \in Seq(DisplayMessage)
    /\ sending \in BOOLEAN
    /\ stream \in [Sends -> StreamType]
    /\ \A s \in Sends : Live(s) => sending /\ pending = s /\ abortRef = s
    /\ sending => pending \in Sends /\ Live(pending)
    /\ \A s \in Sends : Aborted(s) => ~ sending
    /\ \A s, t \in Sends : Aborted(s) /\ Aborted(t) => s = t

\* A relay r and its response p.
RelayLink(r, p) ==
    /\ r.phase \in {"fetch", "stream"} => r.attempt # 0
    /\ r.phase \in {"check", "fetch"} => p.state \in {"awaited", "gone"}

RelaySound ==
    /\ relay \in [Sends -> RelayType]
    /\ reply \in [Sends -> ReplyType]
    /\ \A s \in Sends : RelayLink(relay[s], reply[s])

\* A query of s has come as far as its answer.
Streamed(s) == \E q \in Attempts(s) : query[q] \in {"stream", "over"}

\* An answer to s has come some way from the agent to the log.
OnItsWay(s) == relay[s].phase = "stream" \/ reply[s].text \/ stream[s].acc

StreamedSound ==
    /\ query \in [Queries -> QueryType]
    /\ \A s \in Sends : OnItsWay(s) => Streamed(s)
    /\ \A i \in DOMAIN log : log[i].role = "agent" /\ log[i].kind = "text" => Streamed(log[i].send)

-------------------------------------------------------------------------------
(* The browser *)

LEMMA MessagesTyped ==
    ASSUME NEW s \in Sends
    PROVE  /\ UserMessage(s) \in DisplayMessage
           /\ \A kind \in {"text", "empty", "error"} : AgentMessage(s, kind) \in DisplayMessage
           /\ Failure(s) \in Seq(DisplayMessage)
<1>1. UserMessage(s) \in DisplayMessage
  BY DEF DisplayMessage
<1>2. \A kind \in {"text", "empty", "error"} : AgentMessage(s, kind) \in DisplayMessage
  BY DEF DisplayMessage
<1> QED BY <1>1, <1>2 DEF Failure

LEMMA StreamUpdate ==
    ASSUME BrowserSound, NEW s \in Sends, NEW new \in StreamType,
           stream' = [stream EXCEPT ![s] = new]
    PROVE  /\ stream' \in [Sends -> StreamType]
           /\ stream'[s] = new
           /\ \A t \in Sends \ {s} : stream'[t] = stream[t]
BY DEF BrowserSound

LEMMA IdleStreamTyped ==
    /\ IdleStream \in StreamType /\ IdleStream.phase = "idle" /\ ~ IdleStream.acc
BY DEF IdleStream, StreamType

LEMMA HandleSendSound ==
    ASSUME BrowserSound, NEW s \in Sends, HandleSend(s)
    PROVE  BrowserSound'
<1> DEFINE new == [IdleStream EXCEPT !.phase = "fetch"]
<1>1. new \in StreamType /\ new.phase = "fetch"
  BY DEF IdleStream, StreamType
<1>2. stream' = [stream EXCEPT ![s] = new]
  BY DEF HandleSend, BrowserSound
<1> HIDE DEF new
<1>3. /\ stream' \in [Sends -> StreamType] /\ stream'[s] = new
      /\ \A t \in Sends \ {s} : stream'[t] = stream[t]
  BY <1>1, <1>2, StreamUpdate
<1>4. \A t \in Sends : stream[t].phase \notin {"fetch", "read", "aborted"}
  BY DEF HandleSend, Settled, BrowserSound, Live
<1>5. \A t \in Sends : Live(t)' <=> t = s
  BY <1>1, <1>3, <1>4 DEF Live
<1>6. \A t \in Sends : ~ Aborted(t)'
  BY <1>1, <1>3, <1>4 DEF Aborted
<1>7. log' \in Seq(DisplayMessage)
  BY MessagesTyped DEF HandleSend, BrowserSound
<1>8. sending' = TRUE /\ pending' = s /\ abortRef' = s
  BY DEF HandleSend
<1> QED BY <1>3, <1>5, <1>6, <1>7, <1>8 DEF BrowserSound

\* The response's head or a chunk of it has come.
LEMMA ReadSound ==
    ASSUME BrowserSound, NEW s \in Sends, Live(s), NEW new \in StreamType, new.phase = "read",
           stream' = [stream EXCEPT ![s] = new], pending' = s, UNCHANGED <<log, sending, abortRef>>
    PROVE  BrowserSound'
<1>1. /\ stream' \in [Sends -> StreamType] /\ stream'[s] = new
      /\ \A t \in Sends \ {s} : stream'[t] = stream[t]
  BY StreamUpdate
<1>2. sending /\ pending = s /\ abortRef = s /\ \A t \in Sends : Live(t) => t = s
  BY DEF BrowserSound
<1>3. \A t \in Sends : Live(t)' <=> Live(t)
  BY <1>1 DEF Live
<1>4. \A t \in Sends : Aborted(t)' <=> Aborted(t)
  BY <1>1 DEF Live, Aborted
<1> QED BY <1>1, <1>2, <1>3, <1>4 DEF BrowserSound

LEMMA ResponseOkSound ==
    ASSUME BrowserSound, NEW s \in Sends, ResponseOk(s)
    PROVE  BrowserSound'
<1> DEFINE new == [stream[s] EXCEPT !.phase = "read"]
<1>1. stream[s] \in StreamType /\ Live(s)
  BY DEF BrowserSound, ResponseOk, Live
<1>2. new \in StreamType /\ new.phase = "read"
  BY <1>1 DEF StreamType
<1>3. stream' = [stream EXCEPT ![s] = new] /\ pending = s
  BY <1>1 DEF ResponseOk, BrowserSound
<1> HIDE DEF new
<1> QED BY <1>1, <1>2, <1>3, ReadSound DEF ResponseOk

LEMMA OnChunkSound ==
    ASSUME BrowserSound, NEW s \in Sends, OnChunk(s)
    PROVE  BrowserSound'
<1> DEFINE new == [stream[s] EXCEPT !.acc = TRUE]
<1>1. stream[s] \in StreamType /\ Live(s) /\ stream[s].phase = "read"
  BY DEF BrowserSound, OnChunk, Live
<1>2. new \in StreamType /\ new.phase = "read"
  BY <1>1 DEF StreamType
<1>3. stream' = [stream EXCEPT ![s] = new]
  BY DEF OnChunk, BrowserSound
<1> HIDE DEF new
<1> QED BY <1>1, <1>2, <1>3, ReadSound DEF OnChunk

\* A stream ends, the open question's or the aborted one.
LEMMA FinishSound ==
    ASSUME BrowserSound, NEW s \in Sends, Live(s) \/ Aborted(s),
           NEW messages \in Seq(DisplayMessage), Finish(s, messages)
    PROVE  BrowserSound'
<1>1. /\ stream' \in [Sends -> StreamType] /\ stream'[s] = IdleStream
      /\ \A t \in Sends \ {s} : stream'[t] = stream[t]
  BY StreamUpdate, IdleStreamTyped DEF Finish
<1>2. \A t \in Sends : Live(t) => t = s
  BY DEF BrowserSound
<1>3. \A t \in Sends : ~ Live(t)'
  BY <1>1, <1>2, IdleStreamTyped DEF Live
<1>4. \A t \in Sends : Aborted(t)' => Aborted(t)
  BY <1>1, IdleStreamTyped DEF Aborted
<1>5. log' \in Seq(DisplayMessage) /\ sending' = FALSE
  BY DEF Finish, BrowserSound
<1> QED BY <1>1, <1>3, <1>4, <1>5 DEF BrowserSound

LEMMA OnDoneSound ==
    ASSUME BrowserSound, NEW s \in Sends, OnDone(s)
    PROVE  BrowserSound'
<1>1. <<AgentMessage(s, IF stream[s].acc THEN "text" ELSE "empty")>> \in Seq(DisplayMessage)
  BY MessagesTyped
<1> QED BY <1>1, FinishSound DEF OnDone, Live

LEMMA OnErrorSound ==
    ASSUME BrowserSound, NEW s \in Sends, OnError(s) \/ OnAbort(s)
    PROVE  BrowserSound'
BY MessagesTyped, FinishSound DEF OnError, OnAbort, Live, Aborted

\* Clearing aborts the stream of the open question, if there is one.
LEMMA ClearAborts ==
    ASSUME BrowserSound, HandleClear
    PROVE  /\ stream' \in [Sends -> StreamType]
           /\ \A s \in Sends : ~ Live(s)'
           /\ \A s \in Sends : Aborted(s)' <=> sending /\ s = pending
           /\ \A s \in Sends : stream'[s].acc = stream[s].acc
<1>0. \A s \in Sends : stream[s] \in StreamType
  BY DEF BrowserSound
<1>1. \A s \in Sends : /\ [stream[s] EXCEPT !.phase = "aborted"] \in StreamType
                       /\ [stream[s] EXCEPT !.phase = "aborted"].phase = "aborted"
                       /\ [stream[s] EXCEPT !.phase = "aborted"].acc = stream[s].acc
  BY <1>0 DEF StreamType
<1>2. \A s \in Sends : stream'[s] = IF s = abortRef /\ stream[s].phase # "idle"
                                    THEN [stream[s] EXCEPT !.phase = "aborted"] ELSE stream[s]
  BY DEF HandleClear
<1>3. stream' \in [Sends -> StreamType]
  BY <1>0, <1>1 DEF HandleClear
<1>4. \A s \in Sends : ~ Aborted(s)
  BY DEF HandleClear, Settled, Aborted
<1>5. \A s \in Sends : Live(s) <=> sending /\ s = pending
  BY DEF BrowserSound
<1>6. \A s \in Sends : stream[s].phase # "idle" => Live(s) /\ s = abortRef
  BY <1>0, <1>4 DEF StreamType, Live, Aborted, BrowserSound
<1>7. \A s \in Sends : ~ Live(s)'
  BY <1>0, <1>1, <1>2, <1>6 DEF Live
<1>8. \A s \in Sends : Aborted(s)' <=> sending /\ s = pending
  <2> SUFFICES ASSUME NEW s \in Sends
               PROVE  Aborted(s)' <=> Live(s)
    BY <1>5
  <2>1. CASE Live(s)
    <3>1. stream[s].phase # "idle" /\ s = abortRef
      BY <2>1, <1>6 DEF Live
    <3>2. stream'[s] = [stream[s] EXCEPT !.phase = "aborted"]
      BY <1>2, <3>1
    <3> QED BY <1>1, <2>1, <3>2 DEF Aborted
  <2>2. CASE ~ Live(s)
    <3>1. stream[s].phase = "idle"
      BY <2>2, <1>6
    <3> QED BY <1>2, <2>2, <3>1 DEF Aborted
  <2> QED BY <2>1, <2>2
<1>9. \A s \in Sends : stream'[s].acc = stream[s].acc
  BY <1>1, <1>2
<1> QED BY <1>3, <1>7, <1>8, <1>9

LEMMA HandleClearSound ==
    ASSUME BrowserSound, HandleClear
    PROVE  BrowserSound'
<1>1. log' \in Seq(DisplayMessage) /\ sending' = FALSE
  BY DEF HandleClear
<1> QED BY <1>1, ClearAborts DEF BrowserSound

LEMMA ReloadSound ==
    ASSUME Reload
    PROVE  BrowserSound' /\ \A s \in Sends : ~ Live(s)' /\ ~ Aborted(s)'
<1>1. stream' \in [Sends -> StreamType] /\ \A s \in Sends : stream'[s] = IdleStream
  BY IdleStreamTyped DEF Reload
<1>2. \A s \in Sends : ~ Live(s)' /\ ~ Aborted(s)'
  BY <1>1, IdleStreamTyped DEF Live, Aborted
<1>3. log' \in Seq(DisplayMessage) /\ sending' = FALSE
  BY DEF Reload
<1> QED BY <1>1, <1>2, <1>3 DEF BrowserSound

\* The chat is only changed by what the browser does, and by the server in no step.
LEMMA ChatStep ==
    ASSUME [Next]_vars
    PROVE  \/ UNCHANGED chatVars
           \/ \E s \in Sends : \/ HandleSend(s) \/ ResponseOk(s) \/ OnChunk(s) \/ OnDone(s)
                               \/ OnError(s) \/ OnAbort(s)
           \/ HandleClear \/ Reload
<1>1. ASSUME NEW s \in Sends, Send(s) \/ BrowserStep(s) \/ ConnectionLost(s)
      PROVE  \/ HandleSend(s) \/ ResponseOk(s) \/ OnChunk(s) \/ OnDone(s)
             \/ OnError(s) \/ OnAbort(s)
  BY <1>1 DEF Send, BrowserStep, HeadersArrive, ChunkArrives, ReplyEnds, ReplyFails, Abort,
              ConnectionLost
<1>2. ASSUME NEW s \in Sends,
             RelayStep(s) \/ Reaches(s) \/ Streams(s) \/ StreamEnds(s) \/ StreamLost(s)
      PROVE  UNCHANGED chatVars
  BY <1>2 DEF RelayStep, Refuse, StartFetch, FetchRetried, FetchEnds, Answers, Reaches, Streams,
              StreamEnds, StreamLost
<1>3. ASSUME (\E q \in Queries : AgentStep(q)) \/ Restart
      PROVE  UNCHANGED chatVars
  BY <1>3 DEF AgentStep, Restart
<1>4. Clear => HandleClear
  BY DEF Clear
<1>5. ReloadPage => Reload
  BY DEF ReloadPage
<1> QED BY <1>1, <1>2, <1>3, <1>4, <1>5 DEF Next

LEMMA BrowserStaysSound == Spec => []BrowserSound
<1>1. Init => BrowserSound
  <2> SUFFICES ASSUME Init
               PROVE  BrowserSound
    OBVIOUS
  <2>1. stream \in [Sends -> StreamType] /\ \A s \in Sends : stream[s].phase = "idle"
    BY IdleStreamTyped DEF Init, ChatInit
  <2>2. log \in Seq(DisplayMessage) /\ sending = FALSE
    BY DEF Init, ChatInit
  <2> QED BY <2>1, <2>2 DEF BrowserSound, Live, Aborted
<1>2. BrowserSound /\ [Next]_vars => BrowserSound'
  <2> SUFFICES ASSUME BrowserSound, [Next]_vars
               PROVE  BrowserSound'
    OBVIOUS
  <2>1. CASE UNCHANGED chatVars
    BY <2>1 DEF BrowserSound, Live, Aborted
  <2> QED BY <2>1, ChatStep, HandleSendSound, ResponseOkSound, OnChunkSound, OnDoneSound,
             OnErrorSound, HandleClearSound, ReloadSound
<1> QED BY <1>1, <1>2, PTL DEF Spec

-------------------------------------------------------------------------------
(* The refinement of Dialogue *)

\* What the dialogue sees of the browser.
DialogueSees ==
    /\ \A s \in Sends : Live(s) => asking = s /\ cutOff = NoSend
    /\ ~ sending => asking = NoSend
    /\ Settled => cutOff = NoSend
    /\ \A s \in Sends : Aborted(s) => asking = NoSend /\ cutOff = s

LEMMA DialogueView == BrowserSound => DialogueSees
<1> SUFFICES ASSUME BrowserSound
             PROVE  DialogueSees
  OBVIOUS
<1>1. ASSUME NEW s \in Sends, Live(s)
      PROVE  asking = s /\ cutOff = NoSend
  <2>1. sending /\ pending = s
    BY <1>1 DEF BrowserSound
  <2>2. Settled
    BY <2>1 DEF BrowserSound, Aborted, Settled
  <2> QED BY <2>1, <2>2 DEF asking, cutOff
<1>2. ASSUME NEW s \in Sends, Aborted(s)
      PROVE  asking = NoSend /\ cutOff = s
  <2>1. ~ sending /\ ~ Settled
    BY <1>2 DEF BrowserSound, Aborted, Settled
  <2>2. \A t \in Sends : stream[t].phase = "aborted" <=> t = s
    BY <1>2 DEF BrowserSound, Aborted
  <2>3. (CHOOSE t \in Sends : stream[t].phase = "aborted") = s
    BY <2>2
  <2> QED BY <2>1, <2>3 DEF asking, cutOff
<1> QED BY <1>1, <1>2 DEF DialogueSees, asking, cutOff

LEMMA DialogueViewNext == BrowserSound' => DialogueSees'
BY DialogueView, PTL

LEMMA SameMessages ==
    ASSUME NEW s, NEW kind
    PROVE  Talk!UserMessage(s) = UserMessage(s) /\ Talk!AgentMessage(s, kind) = AgentMessage(s, kind)
BY DEF Talk!UserMessage, Talk!AgentMessage, UserMessage, AgentMessage

\* What streams write is what the dialogue allows.
LEMMA FailureCuts ==
    ASSUME NEW s
    PROVE  /\ Failure(s) \in Talk!Cut(s)
           /\ Failure(s) \in Talk!Closings(s)
           /\ \A kind \in {"text", "empty"} : <<AgentMessage(s, kind)>> \in Talk!Closings(s)
BY SameMessages DEF Failure, Talk!Cut, Talk!Closings

LEMMA SendAsks ==
    ASSUME BrowserSound, NEW s \in Sends, HandleSend(s)
    PROVE  Talk!Ask(s)
<1>1. asking = NoSend /\ cutOff = NoSend
  BY DialogueView DEF HandleSend, DialogueSees
<1>2. stream'[s].phase = "fetch"
  BY DEF HandleSend, BrowserSound, IdleStream
<1>3. asking' = s /\ cutOff' = NoSend
  BY <1>2, HandleSendSound, DialogueViewNext DEF Live, DialogueSees
<1> QED BY <1>1, <1>3, SameMessages DEF HandleSend, Talk!Ask

\* A head or a chunk changes nothing that is written.
LEMMA ReadUnseen ==
    ASSUME BrowserSound, NEW s \in Sends, ResponseOk(s) \/ OnChunk(s)
    PROVE  UNCHANGED <<log, asking, cutOff>>
<1>1. Live(s) /\ stream[s] \in StreamType
  BY DEF ResponseOk, OnChunk, Live, BrowserSound
<1>2. Live(s)'
  BY <1>1 DEF ResponseOk, OnChunk, Live, BrowserSound, StreamType
<1>3. asking = s /\ cutOff = NoSend
  BY <1>1, DialogueView DEF DialogueSees
<1>4. asking' = s /\ cutOff' = NoSend
  BY <1>2, ResponseOkSound, OnChunkSound, DialogueViewNext DEF DialogueSees
<1> QED BY <1>3, <1>4 DEF ResponseOk, OnChunk

\* The open question is closed.
LEMMA FinishCloses ==
    ASSUME BrowserSound, NEW s \in Sends, Live(s), NEW messages \in Talk!Closings(s),
           messages \in Seq(DisplayMessage), Finish(s, messages)
    PROVE  Talk!Close
<1>1. asking = s /\ cutOff = NoSend
  BY DialogueView DEF DialogueSees
<1>2. \A t \in Sends : ~ Aborted(t)
  BY DEF BrowserSound
<1>3. Settled'
  BY <1>2, IdleStreamTyped DEF Finish, BrowserSound, Settled, Aborted
<1>4. asking' = NoSend /\ cutOff' = NoSend
  BY <1>3, FinishSound, DialogueViewNext DEF Finish, DialogueSees
<1>5. log' = log \o messages /\ s # NoSend
  BY ChatMessagesAssumption DEF Finish
<1> QED BY <1>1, <1>4, <1>5 DEF Talk!Close

LEMMA AbortTrails ==
    ASSUME BrowserSound, NEW s \in Sends, OnAbort(s)
    PROVE  Talk!Trail
<1>1. Aborted(s) /\ Finish(s, Failure(s))
  BY DEF OnAbort, Aborted
<1>2. asking = NoSend /\ cutOff = s
  BY <1>1, DialogueView DEF DialogueSees
<1>3. \A t \in Sends \ {s} : ~ Aborted(t)
  BY <1>1 DEF BrowserSound
<1>4. Settled'
  BY <1>1, <1>3, IdleStreamTyped DEF Finish, BrowserSound, Settled, Aborted
<1>5. asking' = NoSend /\ cutOff' = NoSend
  BY <1>1, <1>4, OnErrorSound, DialogueViewNext DEF Finish, DialogueSees
<1>6. log' = log \o Failure(s) /\ s # NoSend
  BY <1>1, ChatMessagesAssumption DEF Finish
<1> QED BY <1>2, <1>5, <1>6, FailureCuts DEF Talk!Trail

LEMMA ClearClears ==
    ASSUME BrowserSound, HandleClear
    PROVE  Talk!Clear
<1>1. cutOff = NoSend
  BY DialogueView DEF HandleClear, DialogueSees
<1>2. DialogueSees' /\ sending' = FALSE
  BY HandleClearSound, DialogueViewNext DEF HandleClear
<1>3. asking' = NoSend
  BY <1>2 DEF DialogueSees
<1>4. cutOff' = asking
  <2>1. CASE sending
    <3>1. PICK s \in Sends : s = pending /\ asking = s
      BY <2>1 DEF BrowserSound, asking
    <3>2. Aborted(s)'
      BY <2>1, <3>1, ClearAborts
    <3> QED BY <1>2, <3>1, <3>2 DEF DialogueSees
  <2>2. CASE ~ sending
    <3>1. Settled'
      BY <2>2, ClearAborts DEF Settled, Aborted
    <3> QED BY <1>2, <2>2, <3>1 DEF DialogueSees, asking
  <2> QED BY <2>1, <2>2
<1> QED BY <1>1, <1>3, <1>4 DEF HandleClear, Talk!Clear

LEMMA ReloadStartsOver ==
    ASSUME Reload
    PROVE  Talk!StartOver
<1>1. Settled' /\ sending' = FALSE
  BY ReloadSound DEF Reload, Settled, Aborted
<1>2. asking' = NoSend /\ cutOff' = NoSend
  BY <1>1, ReloadSound, DialogueViewNext DEF DialogueSees
<1> QED BY <1>2 DEF Reload, Talk!StartOver

\* Callbacks of a stream never reach another question or a log cleared earlier: one
\* question at a time, closed once (chat-workspace.tsx:45-80).
THEOREM ChatIsADialogue == Spec => ImplementsDialogue
<1>1. Init => Talk!Init
  <2> SUFFICES ASSUME Init
               PROVE  log = <<>> /\ asking = NoSend /\ cutOff = NoSend
    BY DEF Talk!Init
  <2>1. \A s \in Sends : stream[s].phase = "idle"
    BY IdleStreamTyped DEF Init, ChatInit
  <2> QED BY <2>1 DEF Init, ChatInit, asking, cutOff, Settled
<1>2. BrowserSound /\ [Next]_vars => [Talk!Next]_<<log, asking, cutOff>>
  <2> SUFFICES ASSUME BrowserSound, [Next]_vars
               PROVE  Talk!Next \/ UNCHANGED <<log, asking, cutOff>>
    OBVIOUS
  <2>1. CASE UNCHANGED chatVars
    BY <2>1 DEF asking, cutOff, Settled
  <2>2. ASSUME NEW s \in Sends, HandleSend(s)
        PROVE  Talk!Next
    BY <2>2, SendAsks DEF Talk!Next
  <2>3. ASSUME NEW s \in Sends, ResponseOk(s) \/ OnChunk(s)
        PROVE  UNCHANGED <<log, asking, cutOff>>
    BY <2>3, ReadUnseen
  <2>4. ASSUME NEW s \in Sends, OnDone(s)
        PROVE  Talk!Next
    <3> DEFINE kind == IF stream[s].acc THEN "text" ELSE "empty"
    <3>1. Finish(s, <<AgentMessage(s, kind)>>) /\ Live(s) /\ kind \in {"text", "empty"}
      BY <2>4 DEF OnDone, Live
    <3> HIDE DEF kind
    <3>2. <<AgentMessage(s, kind)>> \in Seq(DisplayMessage)
      BY <3>1, MessagesTyped
    <3> QED BY <3>1, <3>2, FailureCuts, FinishCloses DEF Talk!Next
  <2>5. ASSUME NEW s \in Sends, OnError(s)
        PROVE  Talk!Next
    BY <2>5, FailureCuts, MessagesTyped, FinishCloses DEF OnError, Live, Talk!Next
  <2>6. ASSUME NEW s \in Sends, OnAbort(s)
        PROVE  Talk!Next
    BY <2>6, AbortTrails DEF Talk!Next
  <2>7. HandleClear => Talk!Next
    BY ClearClears DEF Talk!Next
  <2>8. Reload => Talk!Next
    BY ReloadStartsOver DEF Talk!Next
  <2> QED BY <2>1, <2>2, <2>3, <2>4, <2>5, <2>6, <2>7, <2>8, ChatStep
<1> QED BY <1>1, <1>2, BrowserStaysSound, PTL DEF Spec, ImplementsDialogue, Talk!Spec

-------------------------------------------------------------------------------
(* The relay *)

LEMMA NoReplyTyped == NoReply \in ReplyType /\ NoReply.state = "none" /\ ~ NoReply.text
BY DEF NoReply, ReplyType

LEMMA IdleRelayTyped == IdleRelay \in RelayType /\ IdleRelay.phase = "idle"
BY AgentClientAssumption DEF IdleRelay, RelayType

LEMMA LeftTyped ==
    ASSUME NEW s
    PROVE  /\ Left(s) \in ReplyType /\ ~ Left(s).text
           /\ relay[s].phase # "idle" => Left(s).state = "gone"
BY NoReplyTyped DEF Left, ReplyType

\* One relay changes, its response, or both.
LEMMA RelayStepSound ==
    ASSUME RelaySound, NEW s \in Sends, NEW r \in RelayType, NEW p \in ReplyType, RelayLink(r, p),
           relay' = [relay EXCEPT ![s] = r] /\ reply' = [reply EXCEPT ![s] = p]
    PROVE  RelaySound'
<1>1. relay' \in [Sends -> RelayType] /\ reply' \in [Sends -> ReplyType]
  BY DEF RelaySound
<1>2. \A t \in Sends : /\ relay'[t] = IF t = s THEN r ELSE relay[t]
                       /\ reply'[t] = IF t = s THEN p ELSE reply[t]
  BY DEF RelaySound
<1>3. \A t \in Sends : RelayLink(relay'[t], reply'[t])
  BY <1>2, Zenon DEF RelaySound
<1> QED BY <1>1, <1>3 DEF RelaySound

LEMMA AcceptSound ==
    ASSUME RelaySound, NEW s \in Sends, Accept(s)
    PROVE  RelaySound'
<1> DEFINE r == [relay[s] EXCEPT !.phase = "check"]
           p == [reply[s] EXCEPT !.state = "awaited"]
<1>0. relay[s] \in RelayType /\ reply[s] \in ReplyType
  BY DEF RelaySound
<1>1. r \in RelayType /\ r.phase = "check" /\ p \in ReplyType /\ p.state = "awaited"
  BY <1>0 DEF RelayType, ReplyType
<1>2. relay' = [relay EXCEPT ![s] = r] /\ reply' = [reply EXCEPT ![s] = p]
  BY DEF Accept, RelaySound
<1> HIDE DEF r, p
<1>3. RelayLink(r, p)
  BY <1>1 DEF RelayLink
<1> QED BY <1>1, <1>2, <1>3, RelayStepSound

LEMMA RelayEndsSound ==
    ASSUME RelaySound, NEW s \in Sends, NEW state \in {"failed", "closed", "broken"},
           RelayEnds(s, state)
    PROVE  RelaySound'
<1> DEFINE p == IF Listening(s) THEN [reply[s] EXCEPT !.state = state] ELSE NoReply
<1>0. reply[s] \in ReplyType
  BY DEF RelaySound
<1>1. p \in ReplyType
  BY <1>0, NoReplyTyped DEF ReplyType
<1>2. relay' = [relay EXCEPT ![s] = IdleRelay] /\ reply' = [reply EXCEPT ![s] = p]
  BY DEF RelayEnds, Respond, RelaySound
<1> HIDE DEF p
<1>3. RelayLink(IdleRelay, p)
  BY IdleRelayTyped DEF RelayLink
<1> QED BY <1>1, <1>2, <1>3, IdleRelayTyped, RelayStepSound

\* The relay goes on, its response as it is.
LEMMA RelayGoesOn ==
    ASSUME RelaySound, NEW s \in Sends, NEW r \in RelayType, RelayLink(r, reply[s]),
           relay' = [relay EXCEPT ![s] = r], UNCHANGED reply
    PROVE  RelaySound'
<1>1. reply[s] \in ReplyType /\ reply' = [reply EXCEPT ![s] = reply[s]]
  BY DEF RelaySound
<1> QED BY <1>1, RelayStepSound

\* The browser reads or leaves.
LEMMA ReplyGoesOn ==
    ASSUME RelaySound, NEW s \in Sends, NEW p \in ReplyType, RelayLink(relay[s], p),
           reply' = [reply EXCEPT ![s] = p], UNCHANGED relay
    PROVE  RelaySound'
<1>1. relay[s] \in RelayType /\ relay' = [relay EXCEPT ![s] = relay[s]]
  BY DEF RelaySound
<1> QED BY <1>1, RelayStepSound

LEMMA FirstAttemptSound ==
    ASSUME RelaySound, NEW s \in Sends, FirstAttempt(s)
    PROVE  RelaySound'
<1> DEFINE r == [relay[s] EXCEPT !.phase = "fetch", !.attempt = 1]
<1>0. relay[s] \in RelayType /\ RelayLink(relay[s], reply[s]) /\ relay[s].phase = "check"
  BY DEF RelaySound, FirstAttempt
<1>1. r \in RelayType /\ r.phase = "fetch" /\ r.attempt = 1
  <2>1. 1 \in 0 .. MaxAttempts
    BY AgentClientAssumption
  <2> QED BY <1>0, <2>1 DEF RelayType
<1>2. relay' = [relay EXCEPT ![s] = r] /\ UNCHANGED reply
  BY DEF FirstAttempt, RelaySound
<1> HIDE DEF r
<1>3. RelayLink(r, reply[s])
  BY <1>0, <1>1 DEF RelayLink
<1> QED BY <1>1, <1>2, <1>3, RelayGoesOn

LEMMA FetchFailsSound ==
    ASSUME RelaySound, NEW s \in Sends, FetchFails(s)
    PROVE  RelaySound'
<1> DEFINE r == [relay[s] EXCEPT !.attempt = @ + 1]
<1>0. relay[s] \in RelayType /\ RelayLink(relay[s], reply[s]) /\ relay[s].phase = "fetch"
  BY DEF RelaySound, FetchFails
<1>1. CASE relay[s].attempt < MaxAttempts
  <2>1. r \in RelayType /\ r.phase = "fetch" /\ r.attempt = relay[s].attempt + 1
    BY <1>0, <1>1, AgentClientAssumption DEF RelayType
  <2>2. relay' = [relay EXCEPT ![s] = r] /\ UNCHANGED reply
    BY <1>1 DEF FetchFails, RelaySound
  <2>3. relay[s].attempt + 1 # 0
    BY <1>0 DEF RelayType
  <2> HIDE DEF r
  <2>4. RelayLink(r, reply[s])
    BY <1>0, <2>1, <2>3 DEF RelayLink
  <2> QED BY <2>1, <2>2, <2>4, RelayGoesOn
<1>2. CASE ~ (relay[s].attempt < MaxAttempts)
  BY <1>2, RelayEndsSound DEF FetchFails
<1> QED BY <1>1, <1>2

LEMMA FetchAnswersSound ==
    ASSUME RelaySound, NEW s \in Sends, FetchAnswers(s)
    PROVE  RelaySound'
<1> DEFINE r == [relay[s] EXCEPT !.phase = "stream"]
           p == IF Listening(s) THEN [reply[s] EXCEPT !.state = "open"] ELSE reply[s]
<1>0. /\ relay[s] \in RelayType /\ reply[s] \in ReplyType
      /\ RelayLink(relay[s], reply[s]) /\ relay[s].phase = "fetch"
  BY DEF RelaySound, FetchAnswers
<1>1. r \in RelayType /\ r.phase = "stream" /\ r.attempt = relay[s].attempt /\ p \in ReplyType
  BY <1>0 DEF RelayType, ReplyType
<1>2. relay' = [relay EXCEPT ![s] = r] /\ reply' = [reply EXCEPT ![s] = p]
  BY DEF FetchAnswers, RelaySound
<1> HIDE DEF r, p
<1>3. RelayLink(r, p)
  BY <1>0, <1>1 DEF RelayLink
<1> QED BY <1>1, <1>2, <1>3, RelayStepSound

LEMMA PassChunkSound ==
    ASSUME RelaySound, NEW s \in Sends, PassChunk(s)
    PROVE  RelaySound'
<1> DEFINE r == [relay[s] EXCEPT !.got = TRUE]
           p == [reply[s] EXCEPT !.text = TRUE]
<1>0. /\ relay[s] \in RelayType /\ reply[s] \in ReplyType
      /\ RelayLink(relay[s], reply[s]) /\ relay[s].phase = "stream"
  BY DEF RelaySound, PassChunk
<1>1. CASE Listening(s)
  <2>1. r \in RelayType /\ r.phase = "stream" /\ r.attempt = relay[s].attempt /\ p \in ReplyType
    BY <1>0 DEF RelayType, ReplyType
  <2>2. relay' = [relay EXCEPT ![s] = r] /\ reply' = [reply EXCEPT ![s] = p]
    BY <1>1 DEF PassChunk, RelaySound
  <2> HIDE DEF r, p
  <2>3. RelayLink(r, p)
    BY <1>0, <2>1 DEF RelayLink
  <2> QED BY <2>1, <2>2, <2>3, RelayStepSound
<1>2. CASE ~ Listening(s)
  BY <1>2, RelayEndsSound DEF PassChunk
<1> QED BY <1>1, <1>2

\* The browser's side of a response.
LEMMA LeavesSound ==
    ASSUME RelaySound, NEW s \in Sends, reply' = [reply EXCEPT ![s] = Left(s)], UNCHANGED relay
    PROVE  RelaySound'
<1>1. RelayLink(relay[s], Left(s))
  BY LeftTyped DEF RelaySound, RelayLink
<1> QED BY <1>1, LeftTyped, ReplyGoesOn

LEMMA ReplyReadSound ==
    ASSUME RelaySound, NEW s \in Sends, ChunkArrives(s) \/ ReplyEnds(s)
    PROVE  RelaySound'
<1>0. /\ relay[s] \in RelayType /\ reply[s] \in ReplyType
      /\ RelayLink(relay[s], reply[s])
  BY DEF RelaySound
<1>1. CASE ChunkArrives(s)
  <2> DEFINE p == [reply[s] EXCEPT !.text = FALSE]
  <2>1. p \in ReplyType /\ p.state = reply[s].state
    BY <1>0 DEF ReplyType
  <2>2. reply' = [reply EXCEPT ![s] = p] /\ UNCHANGED relay
    BY <1>1 DEF ChunkArrives, RelaySound
  <2> HIDE DEF p
  <2>3. RelayLink(relay[s], p)
    BY <1>0, <2>1 DEF RelayLink
  <2> QED BY <2>1, <2>2, <2>3, ReplyGoesOn
<1>2. CASE ReplyEnds(s)
  <2>1. RelayLink(relay[s], NoReply)
    BY <1>0, <1>2 DEF ReplyEnds, RelayLink
  <2>2. reply' = [reply EXCEPT ![s] = NoReply] /\ UNCHANGED relay
    BY <1>2 DEF ReplyEnds
  <2> QED BY <2>1, <2>2, NoReplyTyped, ReplyGoesOn
<1> QED BY <1>1, <1>2

LEMMA AllLeaveSound ==
    ASSUME RelaySound, Clear \/ ReloadPage
    PROVE  RelaySound'
<1>0. UNCHANGED relay
  BY DEF Clear, ReloadPage
<1>1. \A s \in Sends : \/ reply'[s] = reply[s] \/ reply'[s] = Left(s)
                       \/ reply'[s] = NoReply /\ reply[s].state = "none"
  <2>1. CASE Clear
    <3>1. \A s \in Sends : reply'[s] = IF stream'[s].phase = "aborted" THEN Left(s) ELSE reply[s]
      BY <2>1, Zenon DEF Clear
    <3> QED BY <3>1, Zenon
  <2>2. CASE ReloadPage
    <3>1. \A s \in Sends : reply'[s] = IF reply[s].state = "none" THEN NoReply ELSE Left(s)
      BY <2>2, Zenon DEF ReloadPage
    <3> QED BY <3>1, Zenon
  <2> QED BY <2>1, <2>2
<1>2. \A s \in Sends : reply'[s] \in ReplyType /\ RelayLink(relay[s], reply'[s])
  <2> TAKE s \in Sends
  <2>1. reply[s] \in ReplyType /\ RelayLink(relay[s], reply[s])
    BY DEF RelaySound
  <2>2. CASE reply'[s] = reply[s]
    BY <2>1, <2>2
  <2>3. CASE reply'[s] = Left(s)
    BY <2>1, <2>3, LeftTyped DEF RelayLink
  <2>4. CASE reply'[s] = NoReply /\ reply[s].state = "none"
    BY <2>1, <2>4, NoReplyTyped DEF RelayLink
  <2> QED BY <1>1, <2>2, <2>3, <2>4
<1>3. reply' \in [Sends -> ReplyType]
  BY <1>2 DEF Clear, ReloadPage
<1> QED BY <1>0, <1>2, <1>3 DEF RelaySound

\* Steps that touch the relays.
LEMMA RelayActs ==
    ASSUME NEW s \in Sends,
           RelayStep(s) \/ Answers(s) \/ Streams(s) \/ StreamEnds(s) \/ StreamLost(s)
    PROVE  \/ \E state \in {"failed", "closed", "broken"} : RelayEnds(s, state)
           \/ FirstAttempt(s) \/ FetchFails(s) \/ FetchAnswers(s) \/ PassChunk(s)
BY DEF RelayStep, Refuse, RefuseMessage, StartFetch, FetchRetried, FetchEnds, FetchGivesUp,
       Answers, Streams, StreamEnds, StreamDone, StreamLost, StreamBroken

LEMMA RelayStaysSound == Spec => []RelaySound
<1>1. Init => RelaySound
  <2> SUFFICES ASSUME Init
               PROVE  RelaySound
    OBVIOUS
  <2>1. /\ relay \in [Sends -> RelayType] /\ reply \in [Sends -> ReplyType]
        /\ \A s \in Sends : relay[s] = IdleRelay
    BY IdleRelayTyped, NoReplyTyped DEF Init, ClientInit
  <2> QED BY <2>1, IdleRelayTyped DEF RelaySound, RelayLink
<1>2. RelaySound /\ [Next]_vars => RelaySound'
  <2> SUFFICES ASSUME RelaySound, [Next]_vars
               PROVE  RelaySound'
    OBVIOUS
  <2>1. CASE UNCHANGED clientVars
    BY <2>1 DEF RelaySound
  <2>2. ASSUME NEW s \in Sends, Send(s)
        PROVE  RelaySound'
    BY <2>2, AcceptSound DEF Send
  <2>3. ASSUME NEW s \in Sends, BrowserStep(s) \/ ConnectionLost(s)
        PROVE  RelaySound'
    <3>1. CASE HeadersArrive(s) \/ Abort(s)
      BY <2>1, <3>1 DEF HeadersArrive, Abort
    <3>2. CASE ChunkArrives(s) \/ ReplyEnds(s)
      BY <3>2, ReplyReadSound
    <3>3. CASE ReplyFails(s) \/ ConnectionLost(s)
      BY <3>3, LeavesSound DEF ReplyFails, ConnectionLost
    <3> QED BY <2>3, <3>1, <3>2, <3>3 DEF BrowserStep
  <2>4. ASSUME NEW s \in Sends,
               RelayStep(s) \/ Streams(s) \/ StreamEnds(s) \/ StreamLost(s)
        PROVE  RelaySound'
    BY <2>4, RelayActs, RelayEndsSound, FirstAttemptSound, FetchFailsSound, FetchAnswersSound,
       PassChunkSound
  <2>5. ASSUME NEW s \in Sends, Reaches(s)
        PROVE  UNCHANGED clientVars
    BY <2>5 DEF Reaches
  <2>6. (\E q \in Queries : AgentStep(q)) \/ Restart => UNCHANGED clientVars
    BY DEF AgentStep, Restart
  <2> QED BY <2>1, <2>2, <2>3, <2>4, <2>5, <2>6, AllLeaveSound DEF Next
<1> QED BY <1>1, <1>2, PTL DEF Spec

-------------------------------------------------------------------------------
(* The agent's queries *)

LEMMA QueryOfTyped ==
    ASSUME RelaySound, NEW s \in Sends, relay[s].phase \in {"fetch", "stream"}
    PROVE  QueryOf(s) \in Attempts(s) /\ QueryOf(s) \in Queries
<1>1. relay[s].attempt \in 1 .. MaxAttempts
  BY AgentClientAssumption DEF RelaySound, RelayType, RelayLink
<1> QED BY <1>1, ConversationAssumption DEF QueryOf, Attempts

\* Only a relay that is fetching puts a question, and its own.
LEMMA WhoAsks ==
    ASSUME RelaySound, [Next]_vars, NEW q \in Queries, query'[q] = "received", query[q] # "received",
           query \in [Queries -> QueryType]
    PROVE  \E s \in Sends : relay[s].phase = "fetch" /\ q \in Attempts(s)
<1>1. ASSUME NEW s \in Sends, Reaches(s)
      PROVE  relay[s].phase = "fetch" /\ q \in Attempts(s)
  <2>1. query' = [query EXCEPT ![QueryOf(s)] = "received"] /\ relay[s].phase = "fetch"
    BY <1>1 DEF Reaches, Receive, Step
  <2>2. q = QueryOf(s)
    BY <2>1
  <2> QED BY <2>1, <2>2, QueryOfTyped
<1>2. ASSUME NEW s \in Sends, Send(s)
      PROVE  FALSE
  BY <1>2 DEF Send
<1>3. ASSUME NEW s \in Sends, StreamEnds(s)
      PROVE  FALSE
  BY <1>3 DEF StreamEnds, Stop, Step
<1>4. ASSUME NEW r \in Queries, AgentStep(r)
      PROVE  FALSE
  BY <1>4 DEF AgentStep, Fail, Answer, AbandonedStops, Stop, Step
<1>5. ~ Restart
  BY DEF Restart, AgentRestarts
<1>6. query' # query
  OBVIOUS
<1>7. ASSUME NEW s \in Sends,
             BrowserStep(s) \/ ConnectionLost(s) \/ RelayStep(s) \/ Streams(s) \/ StreamLost(s)
      PROVE  FALSE
  BY <1>6, <1>7 DEF BrowserStep, HeadersArrive, ChunkArrives, ReplyEnds, ReplyFails, Abort,
       ConnectionLost, RelayStep, Refuse, StartFetch, FetchRetried, FetchEnds, Answers, Streams,
       StreamLost
<1>8. ~ Clear /\ ~ ReloadPage
  BY <1>6 DEF Clear, ReloadPage
<1> QED BY <1>1, <1>2, <1>3, <1>4, <1>5, <1>6, <1>7, <1>8 DEF Next

-------------------------------------------------------------------------------
(* From the agent to the log *)

\* A query that was answered stays so, unless its message is sent anew.
LEMMA QueriesStep ==
    ASSUME query \in [Queries -> QueryType], RelaySound, [Next]_vars
    PROVE  /\ query' \in [Queries -> QueryType]
           /\ \A t \in Sends : (\E s \in Sends : Send(s) /\ s = t) \/ (Streamed(t) => Streamed(t)')
<1> DEFINE Kept(q) == query[q] \in {"stream", "over"} => query'[q] \in {"stream", "over"}
<1>1. ASSUME query' \in [Queries -> QueryType], \A q \in Queries : Kept(q)
      PROVE  \A t \in Sends : Streamed(t) => Streamed(t)'
  BY <1>1 DEF Streamed, Attempts
<1>2. ASSUME NEW q \in Queries, Receive(q) \/ Fail(q) \/ Answer(q) \/ Stop(q)
      PROVE  query' \in [Queries -> QueryType] /\ \A r \in Queries : Kept(r)
  <2>1. PICK from \in QueryType, to \in QueryType : Step(q, from, to) /\ (from = "stream" => to = "over")
                                                 /\ from # "over"
    BY <1>2 DEF Receive, Fail, Answer, Stop, QueryType
  <2>2. query' \in [Queries -> QueryType]
    BY <2>1 DEF Step
  <2>3. \A r \in Queries : query'[r] = IF r = q THEN to ELSE query[r]
    BY <2>1 DEF Step
  <2> QED BY <2>1, <2>2, <2>3 DEF Step
<1>3. ASSUME Restart
      PROVE  query' \in [Queries -> QueryType] /\ \A r \in Queries : Kept(r)
  <2>1. \A r \in Queries : query'[r] = CASE query[r] = "stream" -> "over"
                                         [] query[r] = "received" -> "failed"
                                         [] OTHER -> query[r]
    BY <1>3 DEF Restart, AgentRestarts
  <2>2. \A r \in Queries : query'[r] \in QueryType /\ Kept(r)
    BY <2>1 DEF QueryType
  <2> QED BY <1>3, <2>2 DEF Restart, AgentRestarts
<1>4. ASSUME NEW s \in Sends, Send(s)
      PROVE  /\ query' \in [Queries -> QueryType]
             /\ \A t \in Sends \ {s} : Streamed(t) => Streamed(t)'
  <2>1. \A q \in Queries : query'[q] = IF q \in Attempts(s) THEN "idle" ELSE query[q]
    BY <1>4 DEF Send
  <2>2. query' \in [Queries -> QueryType]
    BY <1>4 DEF Send, QueryType
  <2>3. \A t \in Sends \ {s} : \A q \in Attempts(t) : query'[q] = query[q]
    BY <2>1 DEF Attempts
  <2> QED BY <2>2, <2>3 DEF Streamed, Attempts
<1>5. ASSUME UNCHANGED query
      PROVE  query' \in [Queries -> QueryType] /\ \A r \in Queries : Kept(r)
  BY <1>5
<1>6. ASSUME NEW s \in Sends, BrowserStep(s) \/ ConnectionLost(s) \/ RelayStep(s) \/ Streams(s)
                              \/ StreamLost(s)
      PROVE  UNCHANGED query
  BY <1>6 DEF BrowserStep, HeadersArrive, ChunkArrives, ReplyEnds, ReplyFails, Abort,
       ConnectionLost, RelayStep, Refuse, StartFetch, FetchRetried, FetchEnds, Answers, Streams,
       StreamLost
<1>7. Clear \/ ReloadPage => UNCHANGED query
  BY DEF Clear, ReloadPage
<1>8. ASSUME NEW s \in Sends, Reaches(s) \/ StreamEnds(s)
      PROVE  \E q \in Queries : Receive(q) \/ Stop(q)
  BY <1>8, QueryOfTyped DEF Reaches, StreamEnds, StreamDone
<1>9. ASSUME NEW q \in Queries, AgentStep(q)
      PROVE  Fail(q) \/ Answer(q) \/ Stop(q)
  BY <1>9 DEF AgentStep, AbandonedStops
<1> HIDE DEF Kept
<1>10. ASSUME NEW s \in Sends, Send(s)
       PROVE  /\ query' \in [Queries -> QueryType]
              /\ \A t \in Sends : (\E u \in Sends : Send(u) /\ u = t) \/ (Streamed(t) => Streamed(t)')
  BY <1>4, <1>10
<1>11. CASE \A s \in Sends : ~ Send(s)
  <2>1. query' \in [Queries -> QueryType] /\ \A r \in Queries : Kept(r)
    <3>1. CASE UNCHANGED query
      BY <1>5, <3>1
    <3>2. CASE Restart
      BY <1>3, <3>2
    <3>3. CASE \E q \in Queries : Receive(q) \/ Fail(q) \/ Answer(q) \/ Stop(q)
      BY <1>2, <3>3
    <3> QED BY <1>6, <1>7, <1>8, <1>9, <1>11, <3>1, <3>2, <3>3 DEF Next
  <2> QED BY <1>1, <2>1
<1> QED BY <1>10, <1>11

\* What of an answer is read was there to read.
LEMMA ReadWasSent ==
    ASSUME BrowserSound, [Next]_vars, NEW t \in Sends, stream'[t].acc
    PROVE  stream[t].acc \/ reply[t].text
<1> SUFFICES ASSUME ~ reply[t].text
             PROVE  stream[t].acc
  OBVIOUS
<1>0. stream \in [Sends -> StreamType] /\ \A s \in Sends : stream[s] \in StreamType
  BY DEF BrowserSound
<1>1. ASSUME NEW s \in Sends, HandleSend(s)
      PROVE  stream[t].acc
  <2>1. stream'[s].acc = IdleStream.acc /\ stream[s] = IdleStream
    BY <1>0, <1>1 DEF HandleSend, IdleStream
  <2>2. t # s => stream'[t] = stream[t]
    BY <1>0, <1>1 DEF HandleSend
  <2> QED BY <2>1, <2>2
<1>2. ASSUME NEW s \in Sends, ResponseOk(s)
      PROVE  stream[t].acc
  <2>1. stream'[s].acc = stream[s].acc
    BY <1>0, <1>2 DEF ResponseOk, StreamType
  <2>2. t # s => stream'[t] = stream[t]
    BY <1>0, <1>2 DEF ResponseOk
  <2> QED BY <2>1, <2>2
<1>3. ASSUME NEW s \in Sends, ChunkArrives(s)
      PROVE  stream[t].acc
  BY <1>0, <1>3 DEF ChunkArrives, OnChunk
<1>4. ASSUME NEW s \in Sends, NEW messages, Finish(s, messages)
      PROVE  stream[t].acc
  BY <1>0, <1>4, IdleStreamTyped DEF Finish
<1>5. HandleClear => stream[t].acc
  BY ClearAborts
<1>6. ~ Reload
  BY IdleStreamTyped DEF Reload
<1>7. UNCHANGED chatVars => stream[t].acc
  OBVIOUS
<1>8. ASSUME NEW s \in Sends, Send(s) \/ BrowserStep(s) \/ ConnectionLost(s)
      PROVE  stream[t].acc
  BY <1>1, <1>2, <1>3, <1>4, <1>8
     DEF Send, BrowserStep, HeadersArrive, ReplyEnds, ReplyFails, Abort, ConnectionLost,
         OnDone, OnError, OnAbort
<1>9. ASSUME NEW s \in Sends,
             RelayStep(s) \/ Reaches(s) \/ Streams(s) \/ StreamEnds(s) \/ StreamLost(s)
      PROVE  UNCHANGED chatVars
  BY <1>9 DEF RelayStep, Refuse, StartFetch, FetchRetried, FetchEnds, Answers, Reaches, Streams,
              StreamEnds, StreamLost
<1>10. (\E q \in Queries : AgentStep(q)) \/ Restart => UNCHANGED chatVars
  BY DEF AgentStep, Restart
<1> QED BY <1>5, <1>6, <1>7, <1>8, <1>9, <1>10 DEF Next, Clear, ReloadPage

\* What there is to read was streamed by the relay.
LEMMA SentWasRelayed ==
    ASSUME RelaySound, [Next]_vars, NEW t \in Sends, reply'[t].text
    PROVE  reply[t].text \/ relay[t].phase = "stream"
<1> SUFFICES ASSUME relay[t].phase # "stream"
             PROVE  reply[t].text
  OBVIOUS
<1>0. reply \in [Sends -> ReplyType] /\ \A s \in Sends : reply[s] \in ReplyType
  BY DEF RelaySound
<1>1. ASSUME NEW s \in Sends, Accept(s)
      PROVE  reply[t].text
  <2>1. reply'[s].text = reply[s].text
    BY <1>0, <1>1 DEF Accept, ReplyType
  <2>2. t # s => reply'[t] = reply[t]
    BY <1>0, <1>1 DEF Accept
  <2> QED BY <2>1, <2>2
<1>2. ASSUME NEW s \in Sends, NEW state, RelayEnds(s, state)
      PROVE  reply[t].text
  <2>1. reply'[s].text => reply[s].text
    BY <1>0, <1>2, NoReplyTyped DEF RelayEnds, Respond, ReplyType
  <2>2. t # s => reply'[t] = reply[t]
    BY <1>0, <1>2 DEF RelayEnds, Respond
  <2> QED BY <2>1, <2>2
<1>3. ASSUME NEW s \in Sends, FetchAnswers(s)
      PROVE  reply[t].text
  <2>1. reply'[s].text = reply[s].text
    BY <1>0, <1>3 DEF FetchAnswers, ReplyType
  <2>2. t # s => reply'[t] = reply[t]
    BY <1>0, <1>3 DEF FetchAnswers
  <2> QED BY <2>1, <2>2
<1>4. ASSUME NEW s \in Sends, PassChunk(s)
      PROVE  reply[t].text
  <2>1. t # s
    BY <1>4 DEF PassChunk
  <2>2. CASE Listening(s)
    BY <1>0, <1>4, <2>1, <2>2 DEF PassChunk
  <2>3. CASE ~ Listening(s)
    BY <1>2, <1>4, <2>3 DEF PassChunk
  <2> QED BY <2>2, <2>3
<1>5. ASSUME NEW s \in Sends, NEW p, reply' = [reply EXCEPT ![s] = p], ~ p.text
      PROVE  reply[t].text
  BY <1>0, <1>5
<1>6. ASSUME NEW s \in Sends, ChunkArrives(s)
      PROVE  reply[t].text
  <2>1. ~ reply'[s].text
    BY <1>0, <1>6 DEF ChunkArrives, ReplyType
  <2>2. t # s => reply'[t] = reply[t]
    BY <1>0, <1>6 DEF ChunkArrives
  <2> QED BY <2>1, <2>2
<1>7. Clear => reply[t].text
  BY LeftTyped DEF Clear
<1>8. ~ ReloadPage
  BY LeftTyped, NoReplyTyped DEF ReloadPage
<1>9. UNCHANGED reply => reply[t].text
  OBVIOUS
<1>10. ASSUME NEW s \in Sends, BrowserStep(s) \/ ConnectionLost(s)
       PROVE  reply[t].text
  BY <1>5, <1>6, <1>9, <1>10, LeftTyped, NoReplyTyped
     DEF BrowserStep, HeadersArrive, ReplyEnds, ReplyFails, Abort, ConnectionLost
<1>11. ASSUME NEW s \in Sends,
              RelayStep(s) \/ Answers(s) \/ Streams(s) \/ StreamEnds(s) \/ StreamLost(s)
       PROVE  reply[t].text
  <2>1. CASE \E state \in {"failed", "closed", "broken"} : RelayEnds(s, state)
    BY <1>2, <2>1
  <2>2. CASE FirstAttempt(s)
    BY <1>9, <2>2 DEF FirstAttempt
  <2>3. CASE FetchFails(s)
    BY <1>2, <1>9, <2>3 DEF FetchFails
  <2> QED BY <1>3, <1>4, <1>11, <2>1, <2>2, <2>3, RelayActs
<1>12. (\E s \in Sends : Reaches(s)) \/ (\E q \in Queries : AgentStep(q)) \/ Restart => UNCHANGED reply
  BY DEF Reaches, AgentStep, Restart
<1> QED BY <1>1, <1>7, <1>8, <1>9, <1>10, <1>11, <1>12 DEF Next, Send

\* What the relay streams, a query of the message streams.
LEMMA RelayedWasStreamed ==
    ASSUME RelaySound, [Next]_vars, NEW t \in Sends, relay'[t].phase = "stream"
    PROVE  relay[t].phase = "stream" \/ Streamed(t)
<1> SUFFICES ASSUME relay[t].phase # "stream"
             PROVE  Streamed(t)
  OBVIOUS
<1>0. relay \in [Sends -> RelayType] /\ \A s \in Sends : relay[s] \in RelayType
  BY DEF RelaySound
<1>1. ASSUME NEW s \in Sends, NEW r, relay' = [relay EXCEPT ![s] = r], r.phase # "stream"
      PROVE  Streamed(t)
  BY <1>0, <1>1
<1>2. ASSUME NEW s \in Sends, Accept(s) \/ FirstAttempt(s)
      PROVE  Streamed(t)
  <2>1. relay'[s].phase # "stream"
    BY <1>0, <1>2 DEF Accept, FirstAttempt, RelayType
  <2>2. t # s => relay'[t] = relay[t]
    BY <1>0, <1>2 DEF Accept, FirstAttempt
  <2> QED BY <2>1, <2>2
<1>3. ASSUME NEW s \in Sends, NEW state, RelayEnds(s, state)
      PROVE  Streamed(t)
  BY <1>1, <1>3, IdleRelayTyped DEF RelayEnds
<1>4. ASSUME NEW s \in Sends, FetchFails(s)
      PROVE  Streamed(t)
  <2>1. CASE relay[s].attempt < MaxAttempts
    <3>1. relay'[s].phase = "fetch"
      BY <1>0, <1>4, <2>1 DEF FetchFails, RelayType
    <3>2. t # s => relay'[t] = relay[t]
      BY <1>0, <1>4, <2>1 DEF FetchFails
    <3> QED BY <3>1, <3>2
  <2>2. CASE ~ (relay[s].attempt < MaxAttempts)
    BY <1>3, <1>4, <2>2 DEF FetchFails
  <2> QED BY <2>1, <2>2
<1>5. ASSUME NEW s \in Sends, Answers(s)
      PROVE  Streamed(t)
  <2>1. Streamed(s)
    BY <1>5, QueryOfTyped DEF Answers, Streamed
  <2>2. t # s => relay'[t] = relay[t]
    BY <1>0, <1>5 DEF Answers, FetchAnswers
  <2> QED BY <2>1, <2>2
<1>6. ASSUME NEW s \in Sends, PassChunk(s)
      PROVE  Streamed(t)
  <2>1. t # s
    BY <1>6 DEF PassChunk
  <2>2. CASE Listening(s)
    BY <1>0, <1>6, <2>1, <2>2 DEF PassChunk
  <2>3. CASE ~ Listening(s)
    BY <1>3, <1>6, <2>3 DEF PassChunk
  <2> QED BY <2>2, <2>3
<1>7. UNCHANGED relay => Streamed(t)
  OBVIOUS
<1>8. ASSUME NEW s \in Sends, BrowserStep(s) \/ ConnectionLost(s) \/ Reaches(s)
      PROVE  UNCHANGED relay
  BY <1>8 DEF BrowserStep, HeadersArrive, ChunkArrives, ReplyEnds, ReplyFails, Abort,
              ConnectionLost, Reaches
<1>9. ASSUME NEW s \in Sends,
             RelayStep(s) \/ Streams(s) \/ StreamEnds(s) \/ StreamLost(s)
      PROVE  Streamed(t)
  BY <1>2, <1>3, <1>4, <1>5, <1>6, <1>9
     DEF RelayStep, Refuse, RefuseMessage, StartFetch, FetchRetried, FetchEnds, FetchGivesUp,
         Streams, StreamEnds, StreamDone, StreamLost, StreamBroken
<1>10. (\E q \in Queries : AgentStep(q)) \/ Restart \/ Clear \/ ReloadPage => UNCHANGED relay
  BY DEF AgentStep, Restart, Clear, ReloadPage
<1> QED BY <1>2, <1>7, <1>8, <1>9, <1>10 DEF Next, Send

\* What is written as an answer is what came of it.
LEMMA WrittenWasRead ==
    ASSUME BrowserSound, [Next]_vars, NEW i \in DOMAIN log',
           log'[i].role = "agent", log'[i].kind = "text"
    PROVE  \/ i \in DOMAIN log /\ log'[i] = log[i]
           \/ log'[i].send \in Sends /\ stream[log'[i].send].acc
<1>1. ASSUME NEW s \in Sends, HandleSend(s)
      PROVE  i \in DOMAIN log /\ log'[i] = log[i]
  <2>1. UserMessage(s).role = "user"
    BY DEF UserMessage
  <2> QED BY <1>1, <2>1 DEF HandleSend, BrowserSound
<1>2. ASSUME NEW s \in Sends, NEW messages \in Seq(DisplayMessage), Finish(s, messages),
             \A j \in DOMAIN messages :
                messages[j].kind = "text" => messages[j].send = s /\ stream[s].acc
      PROVE  \/ i \in DOMAIN log /\ log'[i] = log[i]
             \/ log'[i].send \in Sends /\ stream[log'[i].send].acc
  <2>1. log' = log \o messages /\ log \in Seq(DisplayMessage)
    BY <1>2 DEF Finish, BrowserSound
  <2>2. CASE i \in DOMAIN log
    BY <2>1, <2>2
  <2>3. CASE i \notin DOMAIN log
    <3>1. PICK j \in DOMAIN messages : log'[i] = messages[j]
      BY <2>1, <2>3
    <3> QED BY <1>2, <3>1
  <2> QED BY <2>2, <2>3
<1>3. ASSUME NEW s \in Sends, OnDone(s)
      PROVE  \/ i \in DOMAIN log /\ log'[i] = log[i]
             \/ log'[i].send \in Sends /\ stream[log'[i].send].acc
  <2> DEFINE messages == <<AgentMessage(s, IF stream[s].acc THEN "text" ELSE "empty")>>
  <2>1. messages \in Seq(DisplayMessage) /\ Finish(s, messages)
    BY <1>3, MessagesTyped DEF OnDone
  <2>2. \A j \in DOMAIN messages :
            messages[j].kind = "text" => messages[j].send = s /\ stream[s].acc
    BY DEF AgentMessage
  <2> QED BY <1>2, <2>1, <2>2
<1>4. ASSUME NEW s \in Sends, OnError(s) \/ OnAbort(s)
      PROVE  \/ i \in DOMAIN log /\ log'[i] = log[i]
             \/ log'[i].send \in Sends /\ stream[log'[i].send].acc
  <2>1. Failure(s) \in Seq(DisplayMessage) /\ Finish(s, Failure(s))
    BY <1>4, MessagesTyped DEF OnError, OnAbort
  <2>2. \A j \in DOMAIN Failure(s) :
            Failure(s)[j].kind = "text" => Failure(s)[j].send = s /\ stream[s].acc
    BY DEF Failure, AgentMessage
  <2> QED BY <1>2, <2>1, <2>2
<1>5. ~ HandleClear /\ ~ Reload
  BY DEF HandleClear, Reload
<1>6. ASSUME NEW s \in Sends, ResponseOk(s) \/ OnChunk(s)
      PROVE  UNCHANGED log
  BY <1>6 DEF ResponseOk, OnChunk
<1> QED BY <1>1, <1>3, <1>4, <1>5, <1>6, ChatStep

LEMMA StreamedStep ==
    ASSUME BrowserSound, RelaySound, StreamedSound, [Next]_vars
    PROVE  StreamedSound'
<1>1. /\ query' \in [Queries -> QueryType]
      /\ \A t \in Sends : (\E s \in Sends : Send(s) /\ s = t) \/ (Streamed(t) => Streamed(t)')
  BY QueriesStep DEF StreamedSound
<1>2. ASSUME NEW t \in Sends, OnItsWay(t)'
      PROVE  Streamed(t)
  BY <1>2, ReadWasSent, SentWasRelayed, RelayedWasStreamed DEF OnItsWay, StreamedSound
<1>3. ASSUME NEW t \in Sends, Send(t)
      PROVE  ~ OnItsWay(t)'
  <2>1. reply[t] = NoReply /\ stream[t] = IdleStream /\ relay[t] = IdleRelay
    BY <1>3 DEF Send, Fresh, HandleSend
  <2>2. relay'[t].phase = "check"
    BY <1>3 DEF Send, Accept, RelaySound, RelayType
  <2>3. ~ stream'[t].acc
    BY <2>1, ReadWasSent, IdleStreamTyped, NoReplyTyped
  <2>4. ~ reply'[t].text
    BY <2>1, SentWasRelayed, IdleRelayTyped, NoReplyTyped
  <2> QED BY <2>2, <2>3, <2>4 DEF OnItsWay
<1>4. ASSUME NEW t \in Sends, OnItsWay(t)'
      PROVE  Streamed(t)'
  BY <1>1, <1>2, <1>3, <1>4
<1>5. ASSUME NEW i \in DOMAIN log', log'[i].role = "agent" /\ log'[i].kind = "text"
      PROVE  \E q \in Attempts(log'[i].send) : query'[q] \in {"stream", "over"}
  <2>1. CASE i \in DOMAIN log /\ log'[i] = log[i]
    <3>1. log[i] \in DisplayMessage
      BY <2>1 DEF BrowserSound
    <3>2. PICK t \in Sends : log[i].send = t
      BY <3>1 DEF DisplayMessage, UserMessage, AgentMessage
    <3>3. ~ Send(t)
      BY <2>1, <3>2 DEF Send, Fresh
    <3>4. Streamed(t)
      BY <1>5, <2>1, <3>2 DEF StreamedSound
    <3>5. Streamed(t)'
      BY <1>1, <3>3, <3>4
    <3> QED BY <2>1, <3>2, <3>5 DEF Streamed
  <2>2. CASE log'[i].send \in Sends /\ stream[log'[i].send].acc
    <3>1. PICK t \in Sends : log'[i].send = t /\ stream[t].acc
      BY <2>2
    <3>2. ~ Send(t)
      BY <3>1, IdleStreamTyped DEF Send, HandleSend
    <3>3. Streamed(t)
      BY <3>1 DEF StreamedSound, OnItsWay
    <3>4. Streamed(t)'
      BY <1>1, <3>2, <3>3
    <3> QED BY <3>1, <3>4 DEF Streamed
  <2> QED BY <1>5, <2>1, <2>2, WrittenWasRead
<1>6. \A i \in DOMAIN log' : log'[i].role = "agent" /\ log'[i].kind = "text" =>
        \E q \in Attempts(log'[i].send) : query'[q] \in {"stream", "over"}
  BY <1>5
<1> QED BY <1>1, <1>4, <1>6, Zenon DEF StreamedSound, Streamed, Attempts

LEMMA StreamedStaysSound == Spec => []StreamedSound
<1>1. Init => StreamedSound
  <2> SUFFICES ASSUME Init
               PROVE  StreamedSound
    OBVIOUS
  <2>1. query \in [Queries -> QueryType]
    BY DEF Init, QueriesInit, QueryType
  <2>2. \A s \in Sends : ~ OnItsWay(s)
    BY IdleStreamTyped, IdleRelayTyped, NoReplyTyped DEF Init, ChatInit, ClientInit, OnItsWay
  <2> QED BY <2>1, <2>2 DEF Init, ChatInit, StreamedSound
<1>2. BrowserSound /\ RelaySound /\ StreamedSound /\ [Next]_vars => StreamedSound'
  BY StreamedStep
<1> QED BY <1>1, <1>2, BrowserStaysSound, RelayStaysSound, PTL DEF Spec

\* What the log shows as an answer was streamed by a query of its message
\* (stream-client.ts:38-48).
THEOREM AnswersStayStreamed == Spec => []AnswersWereStreamed
<1>1. StreamedSound => AnswersWereStreamed
  BY DEF StreamedSound, AnswersWereStreamed, Streamed
<1> QED BY <1>1, StreamedStaysSound, PTL

\* A question whose stream has begun is not put to the agent again (client.ts:103-123).
THEOREM NeverAskedAgain == Spec => NotAskedAgain
<1>1. RelaySound /\ StreamedSound /\ [Next]_vars =>
        [\A s \in Sends : reply[s].state \in {"open", "closed", "broken"} =>
            \A q \in Attempts(s) : query'[q] = "received" => query[q] = "received"]_vars
  <2> SUFFICES ASSUME RelaySound, StreamedSound, [Next]_vars,
                      NEW s \in Sends, reply[s].state \in {"open", "closed", "broken"},
                      NEW q \in Attempts(s), query'[q] = "received", query[q] # "received"
               PROVE  FALSE
    OBVIOUS
  <2>1. PICK t \in Sends : relay[t].phase = "fetch" /\ q \in Attempts(t)
    BY WhoAsks DEF StreamedSound, Attempts
  <2>2. t = s
    BY <2>1 DEF Attempts
  <2> QED BY <2>1, <2>2 DEF RelaySound, RelayLink
<1> QED BY <1>1, RelayStaysSound, StreamedStaysSound, PTL DEF Spec, NotAskedAgain

===============================================================================
