----------------------------- MODULE ChatWorkspace -----------------------------
(***************************************************************************)
(* ChatWorkspace and streamAgent of web-app, in the browser: the log of    *)
(* the conversation and the callbacks of the streams that write into it.   *)
(*                                                                         *)
(* React commits the updates of a handler together, and a handler that     *)
(* runs before a commit still sees sending, and does nothing; so handlers  *)
(* read the current state.  Aborting rejects the stream's pending promise  *)
(* at once: its callback runs before the browser takes another event.      *)
(***************************************************************************)
EXTENDS ChatMessages, Sequences

VARIABLES
    log,        \* messages
    sending,
    pending,    \* the message whose answer is being shown
    abortRef,   \* whose AbortController it holds
    stream      \* stream[s] : the call of streamAgent for s

chatVars == <<log, sending, pending, abortRef, stream>>

\* A stream goes idle, fetch, read, idle, or is aborted.  acc: a chunk has come.
IdleStream == [phase |-> "idle", acc |-> FALSE]

ChatInit ==
    /\ log = <<>>
    /\ sending = FALSE
    /\ pending = NoSend
    /\ abortRef = NoSend
    /\ stream = [s \in Sends |-> IdleStream]

\* No callback is due before the next event.
Settled == \A s \in Sends : stream[s].phase # "aborted"

\* handleSend: the button and Enter do nothing while sending.
HandleSend(s) ==
    /\ Settled
    /\ ~ sending
    /\ stream[s] = IdleStream
    /\ log' = Append(log, UserMessage(s))
    /\ sending' = TRUE
    /\ pending' = s
    /\ abortRef' = s
    /\ stream' = [stream EXCEPT ![s].phase = "fetch"]

ResponseOk(s) ==
    /\ Settled
    /\ stream[s].phase = "fetch"
    /\ stream' = [stream EXCEPT ![s].phase = "read"]
    /\ UNCHANGED <<log, sending, pending, abortRef>>

OnChunk(s) ==
    /\ Settled
    /\ stream[s].phase = "read"
    /\ stream' = [stream EXCEPT ![s].acc = TRUE]
    /\ pending' = s
    /\ UNCHANGED <<log, sending, abortRef>>

Finish(s, messages) ==
    /\ log' = log \o messages
    /\ pending' = NoSend
    /\ sending' = FALSE
    /\ stream' = [stream EXCEPT ![s] = IdleStream]
    /\ UNCHANGED abortRef

OnDone(s) ==
    /\ Settled
    /\ stream[s].phase = "read"
    /\ Finish(s, <<AgentMessage(s, IF stream[s].acc THEN "text" ELSE "empty")>>)

\* Mutant of Failure: acc is not looked at.
FailureAlwaysText(s) == <<AgentMessage(s, "text"), AgentMessage(s, "error")>>

\* What onError appends.
Failure(s) ==
    IF stream[s].acc THEN <<AgentMessage(s, "text"), AgentMessage(s, "error")>>
    ELSE <<AgentMessage(s, "error")>>

\* Mutant of OnError: it leaves sending alone.
OnErrorStillSending(s) ==
    /\ Settled
    /\ stream[s].phase \in {"fetch", "read"}
    /\ log' = log \o Failure(s)
    /\ pending' = NoSend
    /\ stream' = [stream EXCEPT ![s] = IdleStream]
    /\ UNCHANGED <<sending, abortRef>>

\* fetch rejects, the status is an error, or reading fails.
OnError(s) ==
    /\ Settled
    /\ stream[s].phase \in {"fetch", "read"}
    /\ Finish(s, Failure(s))

\* Mutant of HandleClear: the stream is left alone.
HandleClearOnly ==
    /\ Settled
    /\ log' = <<>>
    /\ sending' = FALSE
    /\ pending' = NoSend
    /\ abortRef' = NoSend
    /\ UNCHANGED stream

\* handleClear: the signal of a stream that has ended is aborted to no effect.
HandleClear ==
    /\ Settled
    /\ log' = <<>>
    /\ sending' = FALSE
    /\ pending' = NoSend
    /\ abortRef' = NoSend
    /\ stream' = [s \in Sends |-> IF s = abortRef /\ stream[s].phase # "idle"
                                  THEN [stream[s] EXCEPT !.phase = "aborted"]
                                  ELSE stream[s]]

\* The aborted stream's promise has rejected: onError, as ever.
OnAbort(s) ==
    /\ stream[s].phase = "aborted"
    /\ Finish(s, Failure(s))

\* The page is loaded again; the streams of the old one are gone.
Reload ==
    /\ log' = <<>>
    /\ sending' = FALSE
    /\ pending' = NoSend
    /\ abortRef' = NoSend
    /\ stream' = [s \in Sends |-> IdleStream]
===============================================================================
