--------------------------- MODULE UserServer_proofs ---------------------------
(***************************************************************************)
(* Proofs about UserServer, for any number of requests, any tokens, tools, *)
(* operations, records and list in the file.                               *)
(*                                                                         *)
(*   ListSound   types of the list and the tasks, and no two records of    *)
(*               the list share an address: inductive                      *)
(*   GrantSound  a request is granted what its own token carries, and the  *)
(*               repository works only for one that has been admitted, for *)
(*               the tool it names, with its scopes: inductive with the    *)
(*               types of ListSound                                        *)
(*   Settled     requests are taken once the list is loaded, and a task at *)
(*               rest has no operation: inductive with ListSound, and      *)
(*               enough for every step to be one of UserDirectory or none  *)
(***************************************************************************)
EXTENDS UserServer, SequenceTheorems, TLAPS

USE DEF serverVars, fileVars

-------------------------------------------------------------------------------
(* The list *)

\* No two places of a list have the same address.
Distinct(list) ==
    \A i, j \in DOMAIN list : SameAddress(list[i].email, list[j].email) => i = j

\* Removing one place moves those behind it forward.
LEMMA RemoveAtProperties ==
    ASSUME NEW S, NEW s \in Seq(S), NEW i \in 1 .. Len(s)
    PROVE  /\ RemoveAt(s, i) \in Seq(S)
           /\ Len(RemoveAt(s, i)) = Len(s) - 1
           /\ \A j \in 1 .. Len(s) - 1 :
                RemoveAt(s, i)[j] = IF j < i THEN s[j] ELSE s[j + 1]
<1> DEFINE before == SubSeq(s, 1, i - 1)
           after == SubSeq(s, i + 1, Len(s))
<1>0. Len(s) \in Nat /\ \A k \in 1 .. Len(s) : s[k] \in S
  BY ElementOfSeq, LenProperties
<1>1. /\ before \in Seq(S)
      /\ Len(before) = i - 1
      /\ \A j \in 1 .. i - 1 : before[j] = s[j]
  <2>1. \A k \in 1 .. i - 1 : s[k] \in S
    BY <1>0
  <2>2. /\ before \in Seq(S)
        /\ Len(before) = IF 1 <= i - 1 THEN (i - 1) - 1 + 1 ELSE 0
        /\ \A j \in 1 .. (i - 1) - 1 + 1 : before[j] = s[1 + j - 1]
    BY <1>0, <2>1, SubSeqProperties
  <2> QED BY <1>0, <2>2
<1>2. /\ after \in Seq(S)
      /\ Len(after) = Len(s) - i
      /\ \A j \in 1 .. Len(s) - i : after[j] = s[i + j]
  <2>1. \A k \in i + 1 .. Len(s) : s[k] \in S
    BY <1>0
  <2>2. /\ after \in Seq(S)
        /\ Len(after) = IF i + 1 <= Len(s) THEN Len(s) - (i + 1) + 1 ELSE 0
        /\ \A j \in 1 .. Len(s) - (i + 1) + 1 : after[j] = s[(i + 1) + j - 1]
    BY <1>0, <2>1, SubSeqProperties
  <2> QED BY <1>0, <2>2
<1> HIDE DEF before, after
<1>3. /\ before \o after \in Seq(S)
      /\ Len(before \o after) = Len(before) + Len(after)
      /\ \A j \in 1 .. Len(before) + Len(after) :
            (before \o after)[j] = IF j <= Len(before) THEN before[j]
                                   ELSE after[j - Len(before)]
  BY <1>1, <1>2, ConcatProperties
<1>4. \A j \in 1 .. Len(s) - 1 :
        (before \o after)[j] = IF j < i THEN s[j] ELSE s[j + 1]
  <2> SUFFICES ASSUME NEW j \in 1 .. Len(s) - 1
               PROVE  (before \o after)[j] = IF j < i THEN s[j] ELSE s[j + 1]
    OBVIOUS
  <2>1. CASE j < i
    BY <1>0, <1>1, <1>2, <1>3, <2>1
  <2>2. CASE ~ (j < i)
    <3>1. j - (i - 1) \in 1 .. Len(s) - i
      BY <1>0, <2>2
    <3>2. after[j - (i - 1)] = s[i + (j - (i - 1))]
      BY <1>2, <3>1
    <3>3. i + (j - (i - 1)) = j + 1
      BY <1>0
    <3> QED BY <1>0, <1>1, <1>2, <1>3, <2>2, <3>2, <3>3
  <2> QED BY <2>1, <2>2
<1>5. RemoveAt(s, i) = before \o after
  BY DEF RemoveAt, before, after
<1>6. before \o after \in Seq(S) /\ Len(before \o after) = Len(s) - 1
  BY <1>0, <1>1, <1>2, <1>3
<1> QED BY <1>4, <1>5, <1>6, Zenon

\* The three ways the list changes keep its addresses distinct.
LEMMA RemoveDistinct ==
    ASSUME NEW list \in Seq(UserRecord), Distinct(list), NEW i \in 1 .. Len(list)
    PROVE  RemoveAt(list, i) \in Seq(UserRecord) /\ Distinct(RemoveAt(list, i))
<1> DEFINE rest == RemoveAt(list, i)
           place(j) == IF j < i THEN j ELSE j + 1
<1>0. Len(list) \in Nat /\ DOMAIN list = 1 .. Len(list)
  BY LenProperties
<1>1. /\ rest \in Seq(UserRecord)
      /\ Len(rest) = Len(list) - 1
      /\ \A j \in 1 .. Len(list) - 1 : rest[j] = IF j < i THEN list[j] ELSE list[j + 1]
  BY RemoveAtProperties
<1> HIDE DEF rest
<1>2. DOMAIN rest = 1 .. Len(list) - 1
  BY <1>1, LenProperties
<1>3. \A j \in DOMAIN rest : place(j) \in DOMAIN list /\ rest[j] = list[place(j)]
  BY <1>0, <1>1, <1>2
<1>4. \A j, k \in DOMAIN rest : place(j) = place(k) => j = k
  BY <1>0, <1>2
<1> HIDE DEF place
<1>5. Distinct(rest)
  BY <1>3, <1>4 DEF Distinct
<1> QED BY <1>1, <1>5 DEF rest

LEMMA AppendDistinct ==
    ASSUME NEW list \in Seq(UserRecord), Distinct(list), NEW user \in UserRecord,
           \A i \in DOMAIN list : ~ SameAddress(list[i].email, user.email)
    PROVE  Append(list, user) \in Seq(UserRecord) /\ Distinct(Append(list, user))
<1> DEFINE new == Append(list, user)
<1>0. Len(list) \in Nat /\ DOMAIN list = 1 .. Len(list)
  BY LenProperties
<1>1. /\ new \in Seq(UserRecord)
      /\ Len(new) = Len(list) + 1
      /\ \A i \in 1 .. Len(list) : new[i] = list[i]
      /\ new[Len(list) + 1] = user
  BY AppendProperties
<1> HIDE DEF new
<1>2. DOMAIN new = (DOMAIN list) \cup {Len(list) + 1}
  BY <1>0, <1>1, LenProperties
<1>3. \A i \in DOMAIN list : new[i] = list[i]
  BY <1>0, <1>1
<1>4. \A i \in DOMAIN list : /\ ~ SameAddress(list[i].email, user.email)
                             /\ ~ SameAddress(user.email, list[i].email)
  BY DEF SameAddress
<1>5. Distinct(new)
  BY <1>1, <1>2, <1>3, <1>4, Zenon DEF Distinct
<1> QED BY <1>1, <1>5 DEF new

LEMMA ReplaceDistinct ==
    ASSUME NEW list \in Seq(UserRecord), Distinct(list), NEW user \in UserRecord,
           NEW i \in DOMAIN list,
           \A j \in DOMAIN list : SameAddress(list[j].email, user.email) => j = i
    PROVE  /\ [list EXCEPT ![i] = user] \in Seq(UserRecord)
           /\ Distinct([list EXCEPT ![i] = user])
<1>0. i \in 1 .. Len(list)
  BY LenProperties
<1>1. [list EXCEPT ![i] = user] \in Seq(UserRecord)
  BY <1>0, ExceptSeq
<1>2. Distinct([list EXCEPT ![i] = user])
  BY DEF Distinct, SameAddress
<1> QED BY <1>1, <1>2

-------------------------------------------------------------------------------
(* The repository *)

Task == [phase : {"idle", "waiting", "done", "answered"},
         operation : Operations \cup {NoOperation}, answer : Answer]

\* A task at work has an operation.
TaskSound(t) == t \in Task /\ (t.phase = "waiting" => t.operation \in Operations)

ListSound ==
    /\ task \in [Calls -> Task]
    /\ \A c \in Calls : TaskSound(task[c])
    /\ users \in Seq(UserRecord)
    /\ Distinct(users)

LEMMA PlainAnswers ==
    /\ {Unanswered, Exists, Missing, Failed} \subseteq Answer
    /\ \A S \in SUBSET UserRecord : Returned(S) \in Answer
BY DEF Unanswered, Exists, Missing, Failed, NoUsers, Returned, Answer

\* One task and the list change.
LEMMA ListStep ==
    ASSUME ListSound, NEW c \in Calls, NEW t, TaskSound(t), task' = [task EXCEPT ![c] = t],
           users' \in Seq(UserRecord), Distinct(users')
    PROVE  ListSound'
<1>1. \A d \in Calls : task'[d] = IF d = c THEN t ELSE task[d]
  BY DEF ListSound
<1>2. task' \in [Calls -> Task]
  BY DEF ListSound, TaskSound
<1> QED BY <1>1, <1>2 DEF ListSound, TaskSound, Distinct, SameAddress

\* An operation that found its answer, and leaves a sound list.
LEMMA FinishSound ==
    ASSUME ListSound, NEW c \in Calls, task[c].phase = "waiting",
           NEW list \in Seq(UserRecord), Distinct(list), NEW answer \in Answer,
           Finish(c, list, answer)
    PROVE  ListSound'
<1> DEFINE t == [task[c] EXCEPT !.phase = "done", !.answer = answer]
<1>1. task' = [task EXCEPT ![c] = t] /\ users' = list
  BY DEF Finish, ListSound
<1>2. TaskSound(t)
  BY DEF ListSound, TaskSound, Task
<1> QED BY <1>1, <1>2, ListStep

\* The place an address names is in the list, and the only one.
LEMMA FoundPlace ==
    ASSUME ListSound, NEW a, Indices(a) # {}
    PROVE  FindIndex(a) \in DOMAIN users /\ Indices(a) = {FindIndex(a)}
<1>1. PICK i \in DOMAIN users : i \in Indices(a)
  BY DEF Indices
<1>2. \A j \in Indices(a) : j = i
  BY <1>1 DEF Indices, ListSound, Distinct, SameAddress
<1>3. i \in Nat
  BY LenProperties DEF ListSound
<1>4. \A j \in Indices(a) : i <= j
  BY <1>2, <1>3
<1>5. FindIndex(a) \in Indices(a)
  BY <1>1, <1>4, Zenon DEF FindIndex
<1> QED BY <1>1, <1>2, <1>5

LEMMA ListOperate ==
    ASSUME ListSound, NEW c \in Calls, Operate(c)
    PROVE  ListSound'
<1>0. /\ users \in Seq(UserRecord)
      /\ Distinct(users)
      /\ DOMAIN users = 1 .. Len(users)
      /\ \A i \in DOMAIN users : users[i] \in UserRecord
      /\ TaskSound(task[c])
  BY LenProperties, ElementOfSeq DEF ListSound
<1> DEFINE o == task[c].operation
<1>1. task[c].phase = "waiting" /\ o \in Operation
  BY <1>0, FileUsersAssumption
  DEF Operate, ListAll, SearchByFirstName, Create, DeleteByEmail, UpdateByEmail, Holds, TaskSound
<1>2. CASE ListAll(c)
  <2>1. Returned(ToSet(users)) \in Answer
    BY <1>0, PlainAnswers DEF ToSet
  <2> QED BY <1>0, <1>1, <1>2, <2>1, FinishSound DEF ListAll
<1>3. CASE SearchByFirstName(c)
  <2>1. Returned({u \in ToSet(users) : u.first_name = o.first_name}) \in Answer
    BY <1>0, PlainAnswers DEF ToSet
  <2> QED BY <1>0, <1>1, <1>3, <2>1, FinishSound DEF SearchByFirstName
<1>4. CASE Create(c)
  <2>1. o.user \in UserRecord
    BY <1>1, <1>4 DEF Create, Holds, Operation
  <2>2. CASE Indices(o.user.email) # {}
    BY <1>0, <1>1, <1>4, <2>2, PlainAnswers, FinishSound DEF Create
  <2>3. CASE Indices(o.user.email) = {}
    <3>1. \A i \in DOMAIN users : ~ SameAddress(users[i].email, o.user.email)
      BY <2>3 DEF Indices
    <3>2. Append(users, o.user) \in Seq(UserRecord) /\ Distinct(Append(users, o.user))
      BY <1>0, <2>1, <3>1, AppendDistinct
    <3>3. Returned({o.user}) \in Answer
      BY <2>1, PlainAnswers
    <3> QED BY <1>1, <1>4, <2>3, <3>2, <3>3, FinishSound DEF Create
  <2> QED BY <2>2, <2>3
<1>5. CASE DeleteByEmail(c)
  <2>1. CASE Indices(o.email) = {}
    BY <1>0, <1>1, <1>5, <2>1, PlainAnswers, FinishSound DEF DeleteByEmail
  <2>2. CASE Indices(o.email) # {}
    <3> DEFINE i == FindIndex(o.email)
    <3>1. i \in DOMAIN users
      BY <2>2, FoundPlace
    <3>2. RemoveAt(users, i) \in Seq(UserRecord) /\ Distinct(RemoveAt(users, i))
      BY <1>0, <3>1, RemoveDistinct
    <3>3. Returned({users[i]}) \in Answer
      BY <1>0, <3>1, PlainAnswers
    <3> QED BY <1>1, <1>5, <2>2, <3>2, <3>3, FinishSound DEF DeleteByEmail
  <2> QED BY <2>1, <2>2
<1>6. CASE UpdateByEmail(c)
  <2>1. o.user \in UserRecord
    BY <1>1, <1>6 DEF UpdateByEmail, Holds, Operation
  <2> DEFINE i == FindIndex(o.email)
  <2>2. CASE Indices(o.email) = {}
    BY <1>0, <1>1, <1>6, <2>2, PlainAnswers, FinishSound DEF UpdateByEmail
  <2>3. CASE Indices(o.email) # {} /\ Indices(o.user.email) \ {i} # {}
    BY <1>0, <1>1, <1>6, <2>3, PlainAnswers, FinishSound DEF UpdateByEmail
  <2>4. CASE Indices(o.email) # {} /\ Indices(o.user.email) \ {i} = {}
    <3>1. i \in DOMAIN users
      BY <2>4, FoundPlace
    <3>2. \A j \in DOMAIN users : SameAddress(users[j].email, o.user.email) => j = i
      BY <2>4 DEF Indices
    <3>3. /\ [users EXCEPT ![i] = o.user] \in Seq(UserRecord)
          /\ Distinct([users EXCEPT ![i] = o.user])
      BY <1>0, <2>1, <3>1, <3>2, ReplaceDistinct
    <3>4. Returned({o.user}) \in Answer
      BY <2>1, PlainAnswers
    <3> QED BY <1>1, <1>6, <2>4, <3>3, <3>4, FinishSound DEF UpdateByEmail
  <2> QED BY <2>2, <2>3, <2>4
<1> QED BY <1>2, <1>3, <1>4, <1>5, <1>6 DEF Operate

\* The tasks change and the list stays.
LEMMA TasksStep ==
    ASSUME ListSound, UNCHANGED users, NEW c \in Calls, NEW t, TaskSound(t),
           task' = [task EXCEPT ![c] = t]
    PROVE  ListSound'
BY ListStep DEF ListSound

LEMMA EmptyListSound == <<>> \in Seq(UserRecord) /\ Distinct(<<>>)
BY EmptySeq DEF Distinct

LEMMA ListInit == ServerInit => ListSound
<1> SUFFICES ASSUME Init
             PROVE  ListSound
  BY DEF ServerInit
<1>1. TaskSound(IdleTask) /\ IdleTask \in Task
  BY PlainAnswers DEF IdleTask, TaskSound, Task
<1> QED BY <1>1, EmptyListSound DEF Init, ListSound

LEMMA ListNext == ListSound /\ [ServerNext]_serverVars => ListSound'
<1> SUFFICES ASSUME ListSound, [ServerNext]_serverVars
             PROVE  ListSound'
  OBVIOUS
<1>0. task \in [Calls -> Task] /\ \A c \in Calls : TaskSound(task[c])
  BY DEF ListSound
<1>1. CASE UNCHANGED <<users, task>>
  BY <1>1 DEF ListSound, TaskSound, Distinct, SameAddress
<1>2. CASE Startup
  <2>1. users' = Seed /\ task' = task
    BY <1>2 DEF Startup
  <2>2. Seed \in Seq(UserRecord) /\ Distinct(Seed)
    BY FileUsersAssumption DEF Distinct
  <2> QED BY <1>0, <2>1, <2>2 DEF ListSound, TaskSound, Distinct, SameAddress
<1>3. CASE RestartServer
  <2>1. users' \in Seq(UserRecord) /\ Distinct(users')
    BY <1>3, EmptyListSound DEF RestartServer, ServerRestarts
  <2>2. ASSUME NEW c \in Calls
        PROVE  task'[c] \in Task /\ TaskSound(task'[c])
    <3>1. task'[c] \in {[task[c] EXCEPT !.phase = "answered", !.answer = Failed], task[c]}
      BY <1>3, <2>2 DEF RestartServer, ServerRestarts
    <3> QED BY <1>0, <3>1, PlainAnswers DEF TaskSound, Task
  <2>3. task' \in [Calls -> Task]
    <3>1. task' = [c \in Calls |-> task'[c]]
      BY <1>3 DEF RestartServer, ServerRestarts
    <3> QED BY <2>2, <3>1
  <2> QED BY <2>1, <2>2, <2>3 DEF ListSound, TaskSound, Distinct, SameAddress
<1>4. ASSUME NEW c \in Calls, Dispatch(c)
      PROVE  ListSound'
  <2>1. PICK o \in Operations : Invoke(c, o)
    BY <1>4 DEF Dispatch
  <2> DEFINE t == [IdleTask EXCEPT !.phase = "waiting", !.operation = o]
  <2>2. TaskSound(t)
    BY PlainAnswers DEF IdleTask, TaskSound, Task
  <2> QED BY <2>1, <2>2, TasksStep DEF Invoke
<1>5. ASSUME NEW c \in Calls, RunOperation(c)
      PROVE  ListSound'
  BY <1>5, ListOperate DEF RunOperation
<1>6. ASSUME NEW c \in Calls, AnswerTool(c)
      PROVE  ListSound'
  <2> DEFINE t == [task[c] EXCEPT !.phase = "answered"]
  <2>1. task' = [task EXCEPT ![c] = t] /\ users' = users
    BY <1>0, <1>6 DEF AnswerTool, Respond
  <2>2. TaskSound(t)
    BY <1>0 DEF TaskSound, Task
  <2> QED BY <2>1, <2>2, TasksStep
<1>7. ASSUME NEW c \in Calls, Reuse(c)
      PROVE  ListSound'
  <2>1. TaskSound(IdleTask)
    BY PlainAnswers DEF IdleTask, TaskSound, Task
  <2> QED BY <1>7, <2>1, TasksStep DEF Reuse
<1> QED BY <1>1, <1>2, <1>3, <1>4, <1>5, <1>6, <1>7
    DEF ServerNext, SendRequest, Authenticate, NotServed, RefuseScopes, ForgetRequest

\* Whatever creates, updates and deletes meet, and whenever the server restarts, no two
\* users of the list share an address.
THEOREM AddressesStayDistinct == ServerSpec => []AddressesDistinct
<1>1. ListSound => AddressesDistinct
  BY DEF ListSound, Distinct, AddressesDistinct
<1> QED BY <1>1, ListInit, ListNext, PTL DEF ServerSpec

-------------------------------------------------------------------------------
(* The grant *)

\* What a bearer token lets its request do.
GrantOf(bearer) == IF bearer = NoToken THEN {} ELSE bearer.scope

AtWork(t) == t.phase \in {"waiting", "done"}

\* A request that has been admitted, and what the repository does for it.
GrantSoundFor(c) ==
    /\ rpc[c].phase = "admitted" => rpc[c].granted = GrantOf(rpc[c].bearer)
    /\ AtWork(task[c]) => /\ rpc[c].phase = "admitted"
                          /\ rpc[c].tool = ToolOf(task[c].operation)
                          /\ TOOL_SCOPE_REQUIREMENTS[rpc[c].tool] \subseteq rpc[c].granted
                          /\ rpc[c].tool \in DOMAIN TOOL_SCOPE_REQUIREMENTS

GrantSound ==
    /\ rpc \in [Calls -> Rpc]
    /\ task \in [Calls -> Task]
    /\ \A c \in Calls : GrantSoundFor(c)

\* One request and its task change.
LEMMA GrantStep ==
    ASSUME GrantSound, NEW c \in Calls,
           NEW q \in Rpc, rpc' = [rpc EXCEPT ![c] = q],
           NEW t \in Task, task' = [task EXCEPT ![c] = t],
           q.phase = "admitted" => q.granted = GrantOf(q.bearer),
           AtWork(t) => /\ q.phase = "admitted"
                        /\ q.tool = ToolOf(t.operation)
                        /\ TOOL_SCOPE_REQUIREMENTS[q.tool] \subseteq q.granted
                        /\ q.tool \in DOMAIN TOOL_SCOPE_REQUIREMENTS
    PROVE  GrantSound'
<1>1. \A d \in Calls : /\ rpc'[d] = IF d = c THEN q ELSE rpc[d]
                       /\ task'[d] = IF d = c THEN t ELSE task[d]
  BY DEF GrantSound
<1>2. rpc' \in [Calls -> Rpc] /\ task' \in [Calls -> Task]
  BY DEF GrantSound
<1>3. ASSUME NEW d \in Calls
      PROVE  GrantSoundFor(d)'
  <2>1. CASE d = c
    BY <1>1, <2>1 DEF GrantSoundFor
  <2>2. CASE d # c
    BY <1>1, <2>2 DEF GrantSoundFor, GrantSound
  <2> QED BY <2>1, <2>2
<1> QED BY <1>2, <1>3 DEF GrantSound

LEMMA GrantInit == ServerInit => GrantSound
<1>1. NoRpc \in Rpc
  BY DEF NoRpc, Rpc
<1>2. IdleTask \in Task
  BY PlainAnswers DEF IdleTask, Task
<1>3. ASSUME ServerInit
      PROVE  rpc = [c \in Calls |-> NoRpc] /\ task = [c \in Calls |-> IdleTask]
  BY <1>3, UserServerAssumption DEF ServerInit, McpInit, Init
<1>4. NoRpc.phase = "none" /\ IdleTask.phase = "idle"
  BY DEF NoRpc, IdleTask
<1> QED BY <1>1, <1>2, <1>3, <1>4 DEF AtWork, GrantSound, GrantSoundFor

\* What the middleware and the scope check do with a request.
LEMMA GrantMiddleware ==
    ASSUME GrantSound, NEW c \in Calls,
           SendRequest(c) \/ Authenticate(c) \/ NotServed(c) \/ RefuseScopes(c)
    PROVE  GrantSound'
<1>0. rpc[c] \in Rpc /\ task[c] \in Task /\ GrantSoundFor(c)
  BY DEF GrantSound
<1>1. task' = [task EXCEPT ![c] = task[c]]
  BY DEF GrantSound, SendRequest, Authenticate, NotServed, RefuseScopes
<1>2. ~ AtWork(task[c])
  <2>1. rpc[c].phase = "admitted" => ~ ScopesSuffice(c)
    BY DEF SendRequest, Post, Authenticate, Admit, Reject, NotServed, LoseRequest,
           RefuseScopes, RefuseTool
  <2> QED BY <1>0, <2>1 DEF GrantSoundFor, ScopesSuffice
<1>3. ASSUME NEW q \in Rpc, rpc' = [rpc EXCEPT ![c] = q],
             q.phase = "admitted" => q.granted = GrantOf(q.bearer)
      PROVE  GrantSound'
  BY <1>0, <1>1, <1>2, <1>3, GrantStep
<1>4. CASE SendRequest(c)
  <2>1. PICK tool \in ToolNames, bearer \in Bearers : Post(c, tool, bearer)
    BY <1>4 DEF SendRequest
  <2> DEFINE q == [NoRpc EXCEPT !.phase = "sent", !.tool = tool, !.bearer = bearer]
  <2>2. q \in Rpc /\ q.phase = "sent"
    BY UserServerAssumption DEF NoRpc, Rpc
  <2> QED BY <1>3, <2>1, <2>2 DEF Post
<1>5. ASSUME NEW granted \in SUBSET Scopes, granted = GrantOf(rpc[c].bearer),
             rpc' = [rpc EXCEPT ![c].phase = "admitted", ![c].granted = granted]
      PROVE  GrantSound'
  <2> DEFINE q == [rpc[c] EXCEPT !.phase = "admitted", !.granted = granted]
  <2>1. q \in Rpc /\ q.granted = GrantOf(q.bearer)
    BY <1>0, <1>5 DEF Rpc
  <2>2. rpc' = [rpc EXCEPT ![c] = q]
    BY <1>0, <1>5 DEF GrantSound
  <2> QED BY <1>3, <2>1, <2>2
<1>6. CASE Admit(c)
  <2>1. CASE Accepts(rpc[c].bearer)
               /\ rpc' = [rpc EXCEPT ![c].phase = "admitted", ![c].granted = rpc[c].bearer.scope]
    <3>1. rpc[c].bearer # NoToken /\ rpc[c].bearer.scope \in SUBSET Scopes
      BY <1>0, <2>1 DEF Accepts, Rpc, OboToken
    <3> QED BY <1>5, <2>1, <3>1 DEF GrantOf
  <2>2. CASE AcceptsAnonymous(rpc[c].bearer)
               /\ rpc' = [rpc EXCEPT ![c].phase = "admitted", ![c].granted = {}]
    <3> DEFINE none == {}
    <3>1. none \in SUBSET Scopes /\ none = GrantOf(rpc[c].bearer)
      BY <2>2 DEF AcceptsAnonymous, GrantOf
    <3>2. rpc' = [rpc EXCEPT ![c].phase = "admitted", ![c].granted = none]
      BY <2>2
    <3> HIDE DEF none
    <3> QED BY <1>5, <3>1, <3>2
  <2> QED BY <1>6, <2>1, <2>2 DEF Admit
<1>7. ASSUME NEW answer \in ErrorText, RpcAnswer(c, answer, FALSE)
      PROVE  GrantSound'
  <2> DEFINE q == [rpc[c] EXCEPT !.phase = "answered", !.answer = answer, !.ran = FALSE]
  <2>1. q.phase = "answered"
    BY <1>0 DEF Rpc
  <2>2. q \in Rpc
    BY <1>0, <1>7, Zenon DEF Rpc
  <2>3. rpc' = [rpc EXCEPT ![c] = q]
    BY <1>0, <1>7 DEF RpcAnswer, GrantSound
  <2> QED BY <1>3, <2>1, <2>2, <2>3
<1> QED BY <1>4, <1>6, <1>7
    DEF Authenticate, Reject, NotServed, LoseRequest, RefuseScopes, RefuseTool, ErrorText

LEMMA GrantNext == ListSound' /\ GrantSound /\ [ServerNext]_serverVars => GrantSound'
<1> SUFFICES ASSUME ListSound', GrantSound, [ServerNext]_serverVars
             PROVE  GrantSound'
  OBVIOUS
<1>0. rpc \in [Calls -> Rpc] /\ task \in [Calls -> Task] /\ \A c \in Calls : GrantSoundFor(c)
  BY DEF GrantSound
<1>a. task' \in [Calls -> Task]
  BY DEF ListSound
<1>1. CASE UNCHANGED <<rpc, task>>
  BY <1>1 DEF GrantSound, GrantSoundFor
<1>2. ASSUME NEW c \in Calls,
             SendRequest(c) \/ Authenticate(c) \/ NotServed(c) \/ RefuseScopes(c)
      PROVE  GrantSound'
  BY <1>2, GrantMiddleware
<1>3. ASSUME NEW c \in Calls, Dispatch(c)
      PROVE  GrantSound'
  <2>1. PICK o \in Operations : ToolOf(o) = rpc[c].tool /\ Invoke(c, o)
    BY <1>3 DEF Dispatch
  <2> DEFINE t == [IdleTask EXCEPT !.phase = "waiting", !.operation = o]
  <2>2. t \in Task /\ t.operation = o
    BY PlainAnswers DEF IdleTask, Task
  <2>3. rpc' = [rpc EXCEPT ![c] = rpc[c]]
    BY <1>0, <1>3 DEF Dispatch
  <2>4. /\ rpc[c] \in Rpc
        /\ rpc[c].phase = "admitted"
        /\ rpc[c].granted = GrantOf(rpc[c].bearer)
        /\ TOOL_SCOPE_REQUIREMENTS[rpc[c].tool] \subseteq rpc[c].granted
        /\ rpc[c].tool \in DOMAIN TOOL_SCOPE_REQUIREMENTS
    BY <1>0, <1>3 DEF Dispatch, ScopesSuffice, GrantSoundFor
  <2>5. task' = [task EXCEPT ![c] = t]
    BY <2>1 DEF Invoke
  <2> HIDE DEF t
  <2> QED BY <2>1, <2>2, <2>3, <2>4, <2>5, GrantStep
<1>4. ASSUME NEW c \in Calls, RunOperation(c)
      PROVE  GrantSound'
  <2>1. PICK list, answer : Finish(c, list, answer)
    BY <1>4 DEF RunOperation, Operate, ListAll, SearchByFirstName, Create, DeleteByEmail,
                UpdateByEmail
  <2> DEFINE t == [task[c] EXCEPT !.phase = "done", !.answer = answer]
  <2>2. task[c].phase = "waiting"
    BY <1>4 DEF RunOperation, Operate, ListAll, SearchByFirstName, Create, DeleteByEmail,
                UpdateByEmail, Holds
  <2>3. task' = [task EXCEPT ![c] = t]
    BY <1>0, <2>1 DEF Finish
  <2>4. t \in Task /\ t.operation = task[c].operation
    <3>1. task'[c] = t
      BY <1>0, <2>3, Zenon
    <3>2. t.operation = task[c].operation
      BY <1>0 DEF Task
    <3> HIDE DEF t
    <3> QED BY <1>a, <3>1, <3>2
  <2>5. rpc' = [rpc EXCEPT ![c] = rpc[c]] /\ rpc[c] \in Rpc
    BY <1>0, <1>4 DEF RunOperation
  <2>6. /\ rpc[c].phase = "admitted"
        /\ rpc[c].granted = GrantOf(rpc[c].bearer)
        /\ rpc[c].tool = ToolOf(task[c].operation)
        /\ TOOL_SCOPE_REQUIREMENTS[rpc[c].tool] \subseteq rpc[c].granted
        /\ rpc[c].tool \in DOMAIN TOOL_SCOPE_REQUIREMENTS
    BY <1>0, <2>2 DEF GrantSoundFor, AtWork
  <2>7. ToolOf(t.operation) = ToolOf(task[c].operation)
    BY <2>4
  <2> HIDE DEF t
  <2> QED BY <2>3, <2>4, <2>5, <2>6, <2>7, GrantStep
<1>5. ASSUME NEW c \in Calls, NEW q \in Rpc, rpc' = [rpc EXCEPT ![c] = q],
             NEW t, task' = [task EXCEPT ![c] = t], q.phase # "admitted", ~ AtWork(t)
      PROVE  GrantSound'
  <2>1. t \in Task
    <3>1. task'[c] = t
      BY <1>0, <1>5
    <3> QED BY <1>a, <3>1
  <2> QED BY <1>5, <2>1, GrantStep
<1>6. ASSUME NEW c \in Calls, AnswerTool(c)
      PROVE  GrantSound'
  <2>1. PICK answer \in {"output", "tool failed"}, ran \in BOOLEAN : RpcAnswer(c, answer, ran)
    BY <1>6 DEF AnswerTool
  <2> DEFINE q == [rpc[c] EXCEPT !.phase = "answered", !.answer = answer, !.ran = ran]
             t == [task[c] EXCEPT !.phase = "answered"]
  <2>2. rpc' = [rpc EXCEPT ![c] = q] /\ task' = [task EXCEPT ![c] = t]
    BY <1>0, <1>6, <2>1 DEF RpcAnswer, AnswerTool, Respond
  <2>3. q.phase = "answered" /\ t.phase = "answered"
    BY <1>0 DEF Rpc, Task
  <2>4. answer \in ErrorText \cup {"none", "output"}
    BY <2>1 DEF ErrorText
  <2>5. q \in Rpc
    BY <1>0, <2>4 DEF Rpc
  <2> HIDE DEF q, t
  <2> QED BY <1>5, <2>2, <2>3, <2>5 DEF AtWork
<1>7. ASSUME NEW c \in Calls, ForgetRequest(c)
      PROVE  GrantSound'
  <2>1. rpc' = [rpc EXCEPT ![c] = NoRpc] /\ NoRpc \in Rpc /\ NoRpc.phase # "admitted"
    BY <1>7 DEF ForgetRequest, Forget, NoRpc, Rpc
  <2>2. CASE Reuse(c)
    BY <1>5, <2>1, <2>2 DEF Reuse, IdleTask, AtWork
  <2>3. CASE task[c].phase = "idle" /\ UNCHANGED fileVars
    <3>1. task' = [task EXCEPT ![c] = task[c]]
      BY <1>0, <2>3
    <3> QED BY <1>5, <2>1, <2>3, <3>1 DEF AtWork
  <2> QED BY <1>7, <2>2, <2>3 DEF ForgetRequest
<1>8. CASE RestartServer
  <2>1. ASSUME NEW c \in Calls
        PROVE  rpc'[c] \in Rpc /\ GrantSoundFor(c)'
    <3>1. rpc'[c] = IF rpc[c].phase = "admitted"
                    THEN [rpc[c] EXCEPT !.phase = "answered", !.answer = "unreachable"]
                    ELSE rpc[c]
      BY <1>8, UserServerAssumption DEF RestartServer
    <3>2. rpc'[c] \in Rpc /\ rpc'[c].phase # "admitted"
      BY <1>0, <3>1 DEF Rpc, ErrorText
    <3>3. ~ AtWork(task'[c])
      <4>1. task'[c] = IF task[c].phase \in {"waiting", "done"}
                       THEN [task[c] EXCEPT !.phase = "answered", !.answer = Failed]
                       ELSE task[c]
        BY <1>8 DEF RestartServer, ServerRestarts
      <4>2. task[c] \in Task
        BY <1>0
      <4> QED BY <4>1, <4>2 DEF Task, AtWork
    <3> QED BY <3>2, <3>3 DEF GrantSoundFor
  <2>2. rpc' = [c \in Calls |-> rpc'[c]]
    BY <1>8, UserServerAssumption DEF RestartServer
  <2> QED BY <1>a, <2>1, <2>2 DEF GrantSound
<1> QED BY <1>1, <1>2, <1>3, <1>4, <1>6, <1>7, <1>8 DEF ServerNext, Startup

\* Whatever requests do to each other's binding, discovery included, the repository works
\* only for requests whose own token grants what the tool needs.
THEOREM RunsWithinGrant == ServerSpec => []RanWithinGrant
<1>1. GrantSound => RanWithinGrant
  <2> SUFFICES ASSUME GrantSound, NEW c \in Calls, AtWork(task[c])
               PROVE  /\ rpc[c].bearer # NoToken
                      /\ TOOL_SCOPE_REQUIREMENTS[ToolOf(task[c].operation)]
                            \subseteq rpc[c].bearer.scope
    BY DEF RanWithinGrant, AtWork
  <2>1. /\ rpc[c].tool = ToolOf(task[c].operation)
        /\ rpc[c].tool \in DOMAIN TOOL_SCOPE_REQUIREMENTS
        /\ TOOL_SCOPE_REQUIREMENTS[rpc[c].tool] \subseteq GrantOf(rpc[c].bearer)
    BY DEF GrantSound, GrantSoundFor
  <2>2. TOOL_SCOPE_REQUIREMENTS[rpc[c].tool] # {}
    BY <2>1 DEF TOOL_SCOPE_REQUIREMENTS
  <2> QED BY <2>1, <2>2 DEF GrantOf
<1> QED BY <1>1, ListInit, ListNext, GrantInit, GrantNext, PTL DEF ServerSpec

-------------------------------------------------------------------------------
(* The list is a directory *)

\* Requests are taken when the list is loaded; a task at rest has no operation.
Settled ==
    /\ loaded = serving
    /\ loaded \in BOOLEAN
    /\ \A c \in Calls : task[c].phase = "idle" => task[c] = IdleTask

LEMMA SettledInit == ServerInit => Settled
BY DEF ServerInit, Init, Settled

LEMMA SettledNext == ListSound /\ Settled /\ [ServerNext]_serverVars => Settled'
<1> SUFFICES ASSUME ListSound, Settled, [ServerNext]_serverVars
             PROVE  Settled'
  OBVIOUS
<1>0. /\ loaded = serving /\ loaded \in BOOLEAN
      /\ \A c \in Calls : task[c].phase = "idle" => task[c] = IdleTask
      /\ task \in [Calls -> Task]
  BY DEF Settled, ListSound
<1>1. ASSUME UNCHANGED <<serving, loaded>>, NEW c \in Calls, NEW t,
             task' = [task EXCEPT ![c] = t], t.phase = "idle" => t = IdleTask
      PROVE  Settled'
  <2>1. \A d \in Calls : task'[d] = IF d = c THEN t ELSE task[d]
    BY <1>0, <1>1
  <2> QED BY <1>0, <1>1, <2>1 DEF Settled
<1>2. CASE UNCHANGED <<serving, loaded, task>>
  BY <1>0, <1>2 DEF Settled
<1>3. CASE Startup
  BY <1>0, <1>3 DEF Startup, Settled
<1>4. CASE RestartServer
  <2>1. ASSUME NEW c \in Calls, task'[c].phase = "idle"
        PROVE  task'[c] = IdleTask
    <3>1. task'[c] \in {[task[c] EXCEPT !.phase = "answered", !.answer = Failed], task[c]}
      BY <1>4 DEF RestartServer, ServerRestarts
    <3> QED BY <1>0, <2>1, <3>1 DEF Task
  <2>2. loaded' = FALSE /\ serving' = FALSE
    BY <1>4 DEF RestartServer, ServerRestarts
  <2> QED BY <2>1, <2>2 DEF Settled
<1>5. ASSUME NEW c \in Calls, Dispatch(c)
      PROVE  Settled'
  <2>1. PICK o \in Operations : Invoke(c, o)
    BY <1>5 DEF Dispatch
  <2> DEFINE t == [IdleTask EXCEPT !.phase = "waiting", !.operation = o]
  <2>2. t.phase = "waiting"
    BY DEF IdleTask
  <2> QED BY <1>1, <2>1, <2>2 DEF Invoke
<1>6. ASSUME NEW c \in Calls, RunOperation(c)
      PROVE  Settled'
  <2>1. \E list, answer : Finish(c, list, answer)
    BY <1>6 DEF RunOperation, Operate, ListAll, SearchByFirstName, Create, DeleteByEmail,
                UpdateByEmail
  <2>2. PICK list, answer : Finish(c, list, answer)
    BY <2>1
  <2> DEFINE t == [task[c] EXCEPT !.phase = "done", !.answer = answer]
  <2>3. t.phase = "done" /\ task' = [task EXCEPT ![c] = t]
    BY <1>0, <2>2 DEF Finish, Task
  <2> HIDE DEF t
  <2> QED BY <1>1, <2>2, <2>3 DEF Finish
<1>7. ASSUME NEW c \in Calls, AnswerTool(c)
      PROVE  Settled'
  <2> DEFINE t == [task[c] EXCEPT !.phase = "answered"]
  <2>1. t.phase = "answered" /\ task' = [task EXCEPT ![c] = t]
    BY <1>0, <1>7 DEF AnswerTool, Respond, Task
  <2> HIDE DEF t
  <2> QED BY <1>1, <1>7, <2>1 DEF AnswerTool, Respond
<1>8. ASSUME NEW c \in Calls, Reuse(c)
      PROVE  Settled'
  BY <1>1, <1>8 DEF Reuse
<1> QED BY <1>2, <1>3, <1>4, <1>5, <1>6, <1>7, <1>8
    DEF ServerNext, SendRequest, Authenticate, NotServed, RefuseScopes, ForgetRequest

\* What the list's operations do to the set of its records.
LEMMA SetOfAppended ==
    ASSUME NEW list \in Seq(UserRecord), NEW user \in UserRecord
    PROVE  ToSet(Append(list, user)) = ToSet(list) \cup {user}
<1> DEFINE new == Append(list, user)
<1>0. Len(list) \in Nat /\ DOMAIN list = 1 .. Len(list)
  BY LenProperties
<1>1. /\ new \in Seq(UserRecord)
      /\ Len(new) = Len(list) + 1
      /\ \A i \in 1 .. Len(list) : new[i] = list[i]
      /\ new[Len(list) + 1] = user
  BY AppendProperties
<1> HIDE DEF new
<1>2. DOMAIN new = (DOMAIN list) \cup {Len(list) + 1}
  BY <1>0, <1>1, LenProperties
<1>3. ToSet(new) = ToSet(list) \cup {user}
  BY <1>0, <1>1, <1>2 DEF ToSet
<1> QED BY <1>3 DEF new

LEMMA SetOfRemoved ==
    ASSUME NEW list \in Seq(UserRecord), Distinct(list), NEW i \in DOMAIN list
    PROVE  ToSet(RemoveAt(list, i)) = ToSet(list) \ {list[i]}
<1> DEFINE rest == RemoveAt(list, i)
<1>0. Len(list) \in Nat /\ DOMAIN list = 1 .. Len(list)
  BY LenProperties
<1>1. /\ rest \in Seq(UserRecord)
      /\ Len(rest) = Len(list) - 1
      /\ \A j \in 1 .. Len(list) - 1 : rest[j] = IF j < i THEN list[j] ELSE list[j + 1]
  BY <1>0, RemoveAtProperties
<1> HIDE DEF rest
<1>2. DOMAIN rest = 1 .. Len(list) - 1
  BY <1>1, LenProperties
<1>3. \A j \in DOMAIN list : list[j] = list[i] => j = i
  BY DEF Distinct, SameAddress
<1>4. ASSUME NEW j \in DOMAIN list, j # i
      PROVE  \E k \in DOMAIN rest : rest[k] = list[j]
  <2>1. CASE j < i
    BY <1>0, <1>1, <1>2, <2>1
  <2>2. CASE ~ (j < i)
    <3>1. j - 1 \in 1 .. Len(list) - 1 /\ ~ (j - 1 < i) /\ (j - 1) + 1 = j
      BY <1>0, <1>4, <2>2
    <3>2. rest[j - 1] = list[j]
      BY <1>1, <3>1
    <3> QED BY <1>2, <3>1, <3>2
  <2> QED BY <2>1, <2>2
<1>5. \A k \in DOMAIN rest : \E j \in DOMAIN list : j # i /\ rest[k] = list[j]
  BY <1>0, <1>1, <1>2
<1>6. ToSet(rest) = ToSet(list) \ {list[i]}
  BY <1>3, <1>4, <1>5 DEF ToSet
<1> QED BY <1>6 DEF rest

LEMMA SetOfReplaced ==
    ASSUME NEW list \in Seq(UserRecord), Distinct(list), NEW i \in DOMAIN list, NEW user
    PROVE  ToSet([list EXCEPT ![i] = user]) = (ToSet(list) \ {list[i]}) \cup {user}
<1>1. \A j \in DOMAIN list : list[j] = list[i] => j = i
  BY DEF Distinct, SameAddress
<1>2. \A j \in DOMAIN list : [list EXCEPT ![i] = user][j] = IF j = i THEN user ELSE list[j]
  OBVIOUS
<1> QED BY <1>1, <1>2 DEF ToSet

\* An address that names a place of the list names one record of its set.
LEMMA FoundRecord ==
    ASSUME ListSound, NEW a
    PROVE  /\ Indices(a) = {} => At(ToSet(users), a) = {}
           /\ Indices(a) # {} => At(ToSet(users), a) = {users[FindIndex(a)]}
<1>1. Indices(a) = {} => At(ToSet(users), a) = {}
  BY DEF Indices, At, ToSet
<1>2. ASSUME Indices(a) # {}
      PROVE  At(ToSet(users), a) = {users[FindIndex(a)]}
  <2>1. FindIndex(a) \in DOMAIN users /\ Indices(a) = {FindIndex(a)}
    BY <1>2, FoundPlace
  <2>2. \A i \in DOMAIN users : SameAddress(users[i].email, a) <=> i = FindIndex(a)
    BY <2>1 DEF Indices
  <2> QED BY <2>1, <2>2 DEF At, ToSet
<1> QED BY <1>1, <1>2

\* UserDirectory's words for answers and addresses are these.
LEMMA SameWords ==
    /\ Directory!Unanswered = Unanswered /\ Directory!Exists = Exists
    /\ Directory!Missing = Missing /\ Directory!Failed = Failed
    /\ \A S : Directory!Returned(S) = Returned(S)
    /\ \A S, a : Directory!At(S, a) = At(S, a)
<1>1. \A status : Directory!NoUsers(status) = NoUsers(status)
  BY Zenon DEF NoUsers, Directory!NoUsers
<1>2. \A S : Directory!Returned(S) = Returned(S)
  BY Zenon DEF Returned, Directory!Returned
<1>3. \A S, a : Directory!At(S, a) = At(S, a)
  BY Zenon DEF At, Directory!At, SameAddress, Directory!SameAddress
<1> QED BY <1>1, <1>2, <1>3, Zenon
    DEF Unanswered, Exists, Missing, Failed, Directory!Unanswered,
        Directory!Exists, Directory!Missing, Directory!Failed

\* The request a task's phase stands for.
LEMMA RequestKinds ==
    ASSUME NEW t \in Task
    PROVE  /\ t = IdleTask => RequestOf(t) = Directory!Idle
           /\ t.phase = "waiting" => RequestOf(t) = Directory!Request("asked", t.operation, t.answer)
           /\ t.phase = "done" => RequestOf(t) = Directory!Request("done", t.operation, t.answer)
           /\ t.phase = "answered" => RequestOf(t) = Directory!Request("told", t.operation, t.answer)
<1>1. t = IdleTask => RequestOf(t) = Directory!Idle
  <2>1. /\ IdleTask.phase = "idle" /\ IdleTask.operation = NoOperation
        /\ IdleTask.answer = Unanswered
    BY DEF IdleTask
  <2> QED BY <2>1, SameWords DEF RequestOf, Directory!Idle, Directory!Request
<1>2. t.phase = "waiting" => RequestOf(t) = Directory!Request("asked", t.operation, t.answer)
  BY DEF RequestOf, Directory!Request
<1>3. t.phase = "done" => RequestOf(t) = Directory!Request("done", t.operation, t.answer)
  BY DEF RequestOf, Directory!Request
<1>4. t.phase = "answered" => RequestOf(t) = Directory!Request("told", t.operation, t.answer)
  BY DEF RequestOf, Directory!Request
<1> QED BY <1>1, <1>2, <1>3, <1>4

\* What a request tells of its state and operation.
LEMMA RequestFields ==
    ASSUME NEW state, NEW operation, NEW answer
    PROVE  /\ Directory!Request(state, operation, answer).state = state
           /\ Directory!Request(state, operation, answer).operation = operation
BY DEF Directory!Request

\* One task changes, and its request with it.
LEMMA OneRequest ==
    ASSUME task \in [Calls -> Task], NEW c \in Calls, NEW t, task' = [task EXCEPT ![c] = t]
    PROVE  requests' = [requests EXCEPT ![c] = RequestOf(t)]
<1>1. \A d \in Calls : task'[d] = IF d = c THEN t ELSE task[d]
  OBVIOUS
<1>2. \A d \in Calls : RequestOf(task'[d]) = IF d = c THEN RequestOf(t) ELSE RequestOf(task[d])
  BY <1>1, Zenon
<1> QED BY <1>2 DEF requests

\* An operation on the list is an effect on the directory.
LEMMA FinishEffects ==
    ASSUME task \in [Calls -> Task], loaded, NEW c \in Calls, task[c].phase = "waiting",
           NEW list, NEW answer \in Answer, Finish(c, list, answer)
    PROVE  Directory!Effect(c, ToSet(list), answer)
<1> DEFINE t == [task[c] EXCEPT !.phase = "done", !.answer = answer]
<1>1. t \in Task /\ t.phase = "done" /\ t.operation = task[c].operation /\ t.answer = answer
  BY DEF Task
<1>2. task' = [task EXCEPT ![c] = t] /\ users' = list /\ loaded' = loaded
  BY DEF Finish
<1> HIDE DEF t
<1>3. requests[c].operation = task[c].operation
  <2>1. requests[c] = Directory!Request("asked", task[c].operation, task[c].answer)
    BY RequestKinds DEF requests
  <2> QED BY <2>1, RequestFields
<1>4. requests' = [requests EXCEPT ![c] = Directory!Request("done", requests[c].operation, answer)]
  <2>1. RequestOf(t) = Directory!Request("done", requests[c].operation, answer)
    BY <1>1, <1>3, RequestKinds
  <2>2. requests' = [requests EXCEPT ![c] = RequestOf(t)]
    BY <1>2, OneRequest
  <2> QED BY <2>1, <2>2, Zenon
<1>5. listed' = ToSet(list)
  BY <1>2 DEF listed
<1> QED BY <1>4, <1>5 DEF Directory!Effect

\* Each operation of the list is its operation of the directory.
LEMMA OperateSimulates ==
    ASSUME ListSound, NEW c \in Calls, Operate(c)
    PROVE  Directory!Next
<1> DEFINE o == task[c].operation
           S == ToSet(users)
<1>0. /\ users \in Seq(UserRecord) /\ Distinct(users)
      /\ \A i \in DOMAIN users : users[i] \in UserRecord
      /\ task \in [Calls -> Task]
      /\ task[c].phase = "waiting" /\ loaded /\ o \in Operation
      /\ S \in SUBSET UserRecord
  <2>1. /\ users \in Seq(UserRecord) /\ Distinct(users)
        /\ \A i \in DOMAIN users : users[i] \in UserRecord
        /\ task \in [Calls -> Task] /\ TaskSound(task[c])
    BY LenProperties, ElementOfSeq DEF ListSound
  <2>2. task[c].phase = "waiting" /\ loaded
    BY DEF Operate, ListAll, SearchByFirstName, Create, DeleteByEmail, UpdateByEmail, Holds
  <2> QED BY <2>1, <2>2, FileUsersAssumption DEF TaskSound, ToSet
<1>1. listed = S
  BY <1>0 DEF listed
<1>2. requests[c].state = "asked" /\ requests[c].operation = o
  <2>1. requests[c] = Directory!Request("asked", o, task[c].answer)
    BY <1>0, RequestKinds DEF requests
  <2> QED BY <2>1, RequestFields
<1>3. ASSUME NEW list, NEW answer \in Answer, Finish(c, list, answer)
      PROVE  Directory!Effect(c, ToSet(list), answer)
  BY <1>0, <1>3, FinishEffects
<1> HIDE DEF S
<1>4. CASE ListAll(c)
  <2>1. Directory!Effect(c, S, Returned(S))
    BY <1>0, <1>3, <1>4, PlainAnswers DEF ListAll, S
  <2>2. Directory!List(c)
    BY <1>1, <1>2, <1>4, <2>1, SameWords DEF Directory!List, Directory!Asks, ListAll, Holds
  <2> QED BY <2>2 DEF Directory!Next
<1>5. CASE SearchByFirstName(c)
  <2>1. {u \in S : u.first_name = o.first_name} \in SUBSET UserRecord
    BY <1>0
  <2>2. Directory!Effect(c, S, Returned({u \in S : u.first_name = o.first_name}))
    BY <1>3, <1>5, <2>1, PlainAnswers DEF SearchByFirstName, S
  <2>3. Directory!Search(c)
    BY <1>1, <1>2, <1>5, <2>2, SameWords
    DEF Directory!Search, Directory!Asks, SearchByFirstName, Holds
  <2> QED BY <2>3 DEF Directory!Next
<1>6. CASE Create(c)
  <2>1. o.kind = "create" /\ o.user \in UserRecord
    BY <1>0, <1>6 DEF Create, Holds, Operation
  <2>2. Indices(o.user.email) # {} <=> Directory!Clashes(S, o.user.email)
    BY DEF Indices, Directory!Clashes, S, ToSet
  <2>3. IF Indices(o.user.email) # {} THEN Directory!Effect(c, S, Exists)
        ELSE Directory!Effect(c, S \cup {o.user}, Returned({o.user}))
    <3>1. CASE Indices(o.user.email) # {}
      BY <1>3, <1>6, <3>1, PlainAnswers DEF Create, S
    <3>2. CASE Indices(o.user.email) = {}
      <4>1. Directory!Effect(c, ToSet(Append(users, o.user)), Returned({o.user}))
        BY <1>3, <1>6, <2>1, <3>2, PlainAnswers DEF Create
      <4> QED BY <1>0, <2>1, <3>2, <4>1, SetOfAppended DEF S
    <3> QED BY <3>1, <3>2
  <2>4. Directory!Create(c)
    BY <1>1, <1>2, <2>1, <2>2, <2>3, SameWords DEF Directory!Create, Directory!Asks
  <2> QED BY <2>4 DEF Directory!Next
<1>7. CASE DeleteByEmail(c)
  <2> DEFINE i == FindIndex(o.email)
  <2>1. o.kind = "delete"
    BY <1>7 DEF DeleteByEmail, Holds
  <2>2. CASE Indices(o.email) = {}
    <3>1. Directory!Effect(c, S, Missing) /\ At(S, o.email) = {}
      BY <1>3, <1>7, <2>2, PlainAnswers, FoundRecord DEF DeleteByEmail, S
    <3>2. Directory!Delete(c)
      BY <1>1, <1>2, <2>1, <3>1, SameWords DEF Directory!Delete, Directory!Asks
    <3> QED BY <3>2 DEF Directory!Next
  <2>3. CASE Indices(o.email) # {}
    <3>1. i \in DOMAIN users /\ At(S, o.email) = {users[i]}
      BY <2>3, FoundPlace, FoundRecord DEF S
    <3>2. Returned({users[i]}) \in Answer
      BY <1>0, <3>1, PlainAnswers
    <3>3. Directory!Effect(c, ToSet(RemoveAt(users, i)), Returned({users[i]}))
      BY <1>3, <1>7, <2>3, <3>2 DEF DeleteByEmail
    <3>4. ToSet(RemoveAt(users, i)) = S \ {users[i]}
      BY <1>0, <3>1, SetOfRemoved DEF S
    <3> HIDE DEF i
    <3>5. Directory!Delete(c)
      BY <1>1, <1>2, <2>1, <3>1, <3>3, <3>4, SameWords DEF Directory!Delete, Directory!Asks
    <3> QED BY <3>5 DEF Directory!Next
  <2> QED BY <2>2, <2>3
<1>8. CASE UpdateByEmail(c)
  <2> DEFINE i == FindIndex(o.email)
  <2>1. o.kind = "update" /\ o.user \in UserRecord
    BY <1>0, <1>8 DEF UpdateByEmail, Holds, Operation
  <2>2. CASE Indices(o.email) = {}
    <3>1. Directory!Effect(c, S, Missing) /\ At(S, o.email) = {}
      BY <1>3, <1>8, <2>2, PlainAnswers, FoundRecord DEF UpdateByEmail, S
    <3>2. Directory!Update(c)
      BY <1>1, <1>2, <2>1, <3>1, SameWords DEF Directory!Update, Directory!Asks
    <3> QED BY <3>2 DEF Directory!Next
  <2>3. CASE Indices(o.email) # {}
    <3>1. i \in DOMAIN users /\ At(S, o.email) = {users[i]}
      BY <2>3, FoundPlace, FoundRecord DEF S
    <3>2. Indices(o.user.email) \ {i} # {} <=> Directory!Clashes(S \ {users[i]}, o.user.email)
      <4>1. \A j \in DOMAIN users : users[j] = users[i] <=> j = i
        BY <1>0, <3>1 DEF Distinct, SameAddress
      <4> HIDE DEF i
      <4> QED BY <3>1, <4>1 DEF Indices, Directory!Clashes, S, ToSet
    <3>3. IF Indices(o.user.email) \ {i} # {} THEN Directory!Effect(c, S, Exists)
          ELSE Directory!Effect(c, (S \ {users[i]}) \cup {o.user}, Returned({o.user}))
      <4>1. CASE Indices(o.user.email) \ {i} # {}
        BY <1>3, <1>8, <2>3, <4>1, PlainAnswers DEF UpdateByEmail, S
      <4>2. CASE Indices(o.user.email) \ {i} = {}
        <5>1. Directory!Effect(c, ToSet([users EXCEPT ![i] = o.user]), Returned({o.user}))
          BY <1>3, <1>8, <2>1, <2>3, <4>2, PlainAnswers DEF UpdateByEmail
        <5> HIDE DEF i
        <5> QED BY <1>0, <3>1, <4>2, <5>1, SetOfReplaced DEF S
      <4> QED BY <4>1, <4>2
    <3> HIDE DEF i
    <3>4. Directory!Update(c)
      BY <1>1, <1>2, <2>1, <3>1, <3>2, <3>3, SameWords DEF Directory!Update, Directory!Asks
    <3> QED BY <3>4 DEF Directory!Next
  <2> QED BY <2>2, <2>3
<1> QED BY <1>4, <1>5, <1>6, <1>7, <1>8 DEF Operate

\* Whatever the server does to requests, and whenever it restarts, the list behaves as the
\* volatile directory UserDirectory specifies.
THEOREM ListIsADirectory == ServerSpec => ImplementsDirectory
<1>1. ServerInit => Directory!Init
  <2> SUFFICES ASSUME Init
               PROVE  Directory!Init
    BY DEF ServerInit
  <2>1. IdleTask \in Task
    BY PlainAnswers DEF IdleTask, Task
  <2>2. RequestOf(IdleTask) = Directory!Idle
    BY <2>1, RequestKinds
  <2> QED BY <2>2 DEF Init, Directory!Init, requests, listed
<1>2. ListSound /\ Settled /\ [ServerNext]_serverVars => [Directory!Next]_<<listed, requests>>
  <2> SUFFICES ASSUME ListSound, Settled, [ServerNext]_serverVars
               PROVE  Directory!Next \/ UNCHANGED <<listed, requests>>
    OBVIOUS
  <2>0. /\ task \in [Calls -> Task] /\ \A c \in Calls : task[c] \in Task
        /\ IdleTask \in Task /\ IdleTask.phase = "idle"
    BY PlainAnswers DEF ListSound, IdleTask, Task
  <2>1. CASE UNCHANGED <<loaded, users, task>>
    BY <2>1 DEF listed, requests
  <2>2. CASE Startup
    BY <2>2 DEF Startup, Settled, listed, requests
  <2>3. CASE RestartServer
    <3>1. ASSUME NEW c \in Calls
          PROVE  requests'[c] = IF requests[c].state \in {"asked", "done"}
                                THEN Directory!Request("told", requests[c].operation, Failed)
                                ELSE requests[c]
      <4>1. CASE task[c].phase \in {"waiting", "done"}
        <5>1. task'[c] = [task[c] EXCEPT !.phase = "answered", !.answer = Failed]
          BY <2>3, <4>1 DEF RestartServer, ServerRestarts
        <5>2. /\ task'[c] \in Task /\ task'[c].phase = "answered"
              /\ task'[c].operation = task[c].operation /\ task'[c].answer = Failed
          BY <2>0, <5>1, PlainAnswers DEF Task
        <5>3. \E state \in {"asked", "done"} :
                requests[c] = Directory!Request(state, task[c].operation, task[c].answer)
          BY <2>0, <4>1, RequestKinds DEF requests
        <5>4. requests'[c] = Directory!Request("told", task[c].operation, Failed)
          BY <5>2, RequestKinds DEF requests
        <5> QED BY <5>3, <5>4, RequestFields
      <4>2. CASE task[c].phase \notin {"waiting", "done"}
        <5>1. task'[c] = task[c]
          BY <2>3, <4>2 DEF RestartServer, ServerRestarts
        <5>2. requests[c].state \notin {"asked", "done"}
          BY <2>0, <4>2 DEF requests, RequestOf, Task
        <5>3. requests'[c] = requests[c]
          BY <5>1 DEF requests
        <5> QED BY <5>2, <5>3
      <4> QED BY <4>1, <4>2
    <3>2. requests' = [c \in Calls |-> requests'[c]]
      BY DEF requests
    <3>3. listed' = ToSet(Seed)
      BY <2>3 DEF RestartServer, ServerRestarts, listed
    <3>4. requests' = [c \in Calls |-> IF requests[c].state \in {"asked", "done"}
                                       THEN Directory!Request("told", requests[c].operation, Failed)
                                       ELSE requests[c]]
      BY <3>1, <3>2
    <3>5. Directory!Lose
      BY <3>3, <3>4, SameWords DEF Directory!Lose
    <3> QED BY <3>5 DEF Directory!Next
  <2>4. ASSUME NEW c \in Calls, Dispatch(c)
        PROVE  Directory!Next
    <3>1. PICK o \in Operations : Invoke(c, o)
      BY <2>4 DEF Dispatch
    <3> DEFINE t == [IdleTask EXCEPT !.phase = "waiting", !.operation = o]
    <3>2. IdleTask.answer = Unanswered /\ o \in Operations
      BY DEF IdleTask
    <3>3. t \in Task /\ t.phase = "waiting" /\ t.operation = o /\ t.answer = Unanswered
      BY <2>0, <3>2 DEF Task
    <3>4. /\ task' = [task EXCEPT ![c] = t] /\ task[c] = IdleTask
          /\ UNCHANGED <<loaded, users>>
      BY <3>1 DEF Invoke, Settled
    <3> HIDE DEF t
    <3>5. requests[c] = Directory!Idle
      BY <2>0, <3>4, RequestKinds DEF requests
    <3>6. requests' = [requests EXCEPT ![c] = Directory!Request("asked", o, Unanswered)]
      <4>1. RequestOf(t) = Directory!Request("asked", o, Unanswered)
        BY <3>3, RequestKinds
      <4>2. requests' = [requests EXCEPT ![c] = RequestOf(t)]
        BY <2>0, <3>4, OneRequest
      <4> QED BY <4>1, <4>2, Zenon
    <3>7. listed' = listed
      BY <3>4 DEF listed
    <3>8. Directory!Ask(c, o)
      BY <3>5, <3>6, <3>7, SameWords DEF Directory!Ask
    <3> QED BY <3>8 DEF Directory!Next
  <2>5. ASSUME NEW c \in Calls, AnswerTool(c)
        PROVE  Directory!Next
    <3> DEFINE t == [task[c] EXCEPT !.phase = "answered"]
    <3>1. /\ t \in Task /\ t.phase = "answered" /\ t.operation = task[c].operation
          /\ t.answer = task[c].answer
      BY <2>0 DEF Task
    <3>2. /\ task' = [task EXCEPT ![c] = t] /\ task[c].phase = "done"
          /\ UNCHANGED <<loaded, users>>
      BY <2>0, <2>5 DEF AnswerTool, Respond
    <3> HIDE DEF t
    <3>3. requests[c] = Directory!Request("done", task[c].operation, task[c].answer)
      BY <2>0, <3>2, RequestKinds DEF requests
    <3>4. RequestOf(t) = Directory!Request("told", task[c].operation, task[c].answer)
      BY <3>1, RequestKinds
    <3>5. requests[c].state = "done" /\ [requests[c] EXCEPT !.state = "told"] = RequestOf(t)
      BY <3>3, <3>4 DEF Directory!Request
    <3>6. requests' = [requests EXCEPT ![c] = RequestOf(t)]
      BY <2>0, <3>2, OneRequest
    <3>7. listed' = listed
      BY <3>2 DEF listed
    <3>8. Directory!Tell(c)
      BY <3>5, <3>6, <3>7 DEF Directory!Tell
    <3> QED BY <3>8 DEF Directory!Next
  <2>6. ASSUME NEW c \in Calls, Reuse(c)
        PROVE  Directory!Next
    <3>1. task[c].phase = "answered" /\ task' = [task EXCEPT ![c] = IdleTask]
          /\ UNCHANGED <<loaded, users>>
      BY <2>6 DEF Reuse
    <3>2. requests[c].state = "told"
      <4>1. requests[c] = Directory!Request("told", task[c].operation, task[c].answer)
        BY <2>0, <3>1, RequestKinds DEF requests
      <4> QED BY <4>1, RequestFields
    <3>3. requests' = [requests EXCEPT ![c] = Directory!Idle]
      <4>1. RequestOf(IdleTask) = Directory!Idle
        BY <2>0, RequestKinds
      <4>2. requests' = [requests EXCEPT ![c] = RequestOf(IdleTask)]
        BY <2>0, <3>1, OneRequest
      <4> QED BY <4>1, <4>2, Zenon
    <3>4. listed' = listed
      BY <3>1 DEF listed
    <3>5. Directory!Leave(c)
      BY <3>2, <3>3, <3>4 DEF Directory!Leave
    <3> QED BY <3>5 DEF Directory!Next
  <2> QED BY <2>1, <2>2, <2>3, <2>4, <2>5, <2>6, OperateSimulates
      DEF ServerNext, SendRequest, Authenticate, NotServed, RefuseScopes, RunOperation,
          ForgetRequest
<1> QED BY <1>1, <1>2, ListInit, ListNext, SettledInit, SettledNext, PTL
    DEF ServerSpec, ImplementsDirectory, Directory!Spec
===============================================================================
