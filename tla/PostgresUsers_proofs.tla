-------------------------- MODULE PostgresUsers_proofs --------------------------
(***************************************************************************)
(* Proofs about PostgresUsers, for any number of calls, any operations,    *)
(* tokens and addresses.                                                   *)
(*                                                                         *)
(* PgSound is inductive: it says of each call how far it has come, what    *)
(* Vault leased it and which connection it has, and of the table that no   *)
(* column holds NULL.  From it follow the safety properties, and that      *)
(* every step is a step of UserDirectory or none.                          *)
(***************************************************************************)
EXTENDS PostgresUsers, TLAPS

USE DEF pgVars

\* What Vault leases for a token.
LeaseFor(obo) == [subject |-> obo.subject, role |-> SelectVaultTargets(obo.scope)]

\* A call: t.
CallSound(t) ==
    /\ t \in Tool
    /\ t.phase = "idle" => t = IdleTool
    /\ t.phase # "idle" => /\ t.operation \in Operations
                           /\ t.obo \in Tokens
                           /\ Needs(t.operation) \in t.obo.scope
    /\ t.phase \in {"connect", "execute"} => t.creds = LeaseFor(t.obo)
    /\ IF t.phase \in {"execute", "close"} THEN t.conn = LeaseFor(t.obo) ELSE t.conn = NoUser
    /\ t.phase # "idle" /\ t.answer = Rejected => t.operation.kind = "create"

PgSound ==
    /\ rows \in SUBSET UserRecord
    /\ \A u \in rows : ~ Incomplete(u)
    /\ tool \in [Calls -> Tool]
    /\ \A c \in Calls : CallSound(tool[c])

-------------------------------------------------------------------------------
(* Answers and leases *)

LEMMA PlainAnswers ==
    /\ {Unanswered, Exists, Missing, Rejected, Failed} \subseteq Answer
    /\ Rejected \notin {Unanswered, Exists, Missing, Failed}
    /\ \A S \in SUBSET UserRecord : Returned(S) \in Answer /\ Returned(S) # Rejected
BY DEF Unanswered, Exists, Missing, Rejected, Failed, NoUsers, Returned, Answer

\* What a token's lease is, and what it suffices for.
LEMMA LeaseSuffices ==
    ASSUME NEW obo \in Tokens
    PROVE  /\ LeaseFor(obo) \in DbUser
           /\ LeaseFor(obo) # NoUser
           /\ LeaseFor(obo).subject = obo.subject
           /\ LeaseFor(obo).role = "write" <=> "users.write" \in obo.scope
<1>1. LeaseFor(obo) \in DbUser
  BY DEF LeaseFor, DbUser, Role, SelectVaultTargets
<1> QED BY <1>1, NoUserAssumption DEF LeaseFor, SelectVaultTargets

LEMMA OperationKinds ==
    ASSUME NEW o \in Operations
    PROVE  /\ o \in Operation
           /\ o.kind \in {"list", "search", "create", "delete", "update"}
           /\ o.kind \in {"create", "update"} => o.user \in UserRecord
           /\ Needs(o) = "users.write" <=> o.kind \in {"create", "delete", "update"}
<1>1. o \in Operation
  BY PostgresUsersAssumption
<1> QED BY <1>1 DEF Operation, Needs

-------------------------------------------------------------------------------
(* One call at a time *)

LEMMA CallStep ==
    ASSUME PgSound, NEW c \in Calls, NEW t, CallSound(t), tool' = [tool EXCEPT ![c] = t],
           rows' \in SUBSET UserRecord, \A u \in rows' : ~ Incomplete(u)
    PROVE  PgSound'
<1>1. \A d \in Calls : tool'[d] = IF d = c THEN t ELSE tool[d]
  BY DEF PgSound
<1>2. tool' \in [Calls -> Tool]
  BY DEF PgSound, CallSound
<1>3. \A d \in Calls : CallSound(tool'[d])
  BY <1>1, Zenon DEF PgSound
<1> QED BY <1>2, <1>3 DEF PgSound, Incomplete

\* A call that moves on leaves the table alone.
LEMMA MoveOn ==
    ASSUME PgSound, UNCHANGED rows, NEW c \in Calls, NEW t, CallSound(t),
           tool' = [tool EXCEPT ![c] = t]
    PROVE  PgSound'
BY CallStep DEF PgSound

LEMMA GiveUpSound ==
    ASSUME PgSound, UNCHANGED rows, NEW c \in Calls, tool[c].phase \in {"login", "creds", "connect"},
           GiveUp(c)
    PROVE  PgSound'
<1> DEFINE t == [tool[c] EXCEPT !.phase = "done", !.answer = Failed]
<1>0. CallSound(tool[c]) /\ tool[c] \in Tool /\ tool \in [Calls -> Tool]
  BY DEF PgSound
<1>1. /\ t \in Tool
      /\ t.phase = "done" /\ t.operation = tool[c].operation /\ t.obo = tool[c].obo
      /\ t.conn = tool[c].conn /\ t.answer = Failed
  BY <1>0, PlainAnswers DEF Tool
<1>2. tool' = [tool EXCEPT ![c] = t]
  BY <1>0 DEF GiveUp
<1> HIDE DEF t
<1>3. CallSound(t)
  BY <1>0, <1>1, PlainAnswers DEF CallSound
<1> QED BY <1>2, <1>3, MoveOn

\* A statement that ran, with its answer or without.
LEMMA RanSound ==
    ASSUME PgSound, NEW c \in Calls, tool[c].phase = "execute",
           NEW table \in SUBSET UserRecord, \A u \in table : ~ Incomplete(u),
           NEW answer \in Answer, answer = Rejected => tool[c].operation.kind = "create",
           Ran(c, table, answer)
    PROVE  PgSound'
<1>0. CallSound(tool[c]) /\ tool[c] \in Tool /\ tool \in [Calls -> Tool]
  BY DEF PgSound
<1>1. PICK a \in {answer, Failed} :
        tool' = [tool EXCEPT ![c].phase = "close", ![c].answer = a]
  BY DEF Ran
<1> DEFINE t == [tool[c] EXCEPT !.phase = "close", !.answer = a]
<1>2. /\ t \in Tool
      /\ t.phase = "close" /\ t.operation = tool[c].operation /\ t.obo = tool[c].obo
      /\ t.conn = tool[c].conn /\ t.answer = a
  BY <1>0, PlainAnswers DEF Tool
<1>3. tool' = [tool EXCEPT ![c] = t]
  BY <1>0, <1>1
<1> HIDE DEF t
<1>4. CallSound(t)
  BY <1>0, <1>2, PlainAnswers DEF CallSound
<1>5. rows' = table
  BY DEF Ran
<1> QED BY <1>3, <1>4, <1>5, CallStep

-------------------------------------------------------------------------------
(* The steps *)

LEMMA ExecuteSound ==
    ASSUME PgSound, NEW c \in Calls, Execute(c)
    PROVE  PgSound'
<1> DEFINE o == tool[c].operation
<1>0. /\ CallSound(tool[c]) /\ tool[c] \in Tool /\ tool \in [Calls -> Tool]
      /\ rows \in SUBSET UserRecord /\ \A u \in rows : ~ Incomplete(u)
      /\ tool[c].phase = "execute"
  BY DEF PgSound, Execute, ListAll, SearchByFirstName, Create, DeleteByEmail, UpdateByEmail,
         StatementFails, Runs
<1>1. o \in Operations
  BY <1>0 DEF CallSound
<1>2. CASE ListAll(c)
  BY <1>0, <1>2, PlainAnswers, RanSound DEF ListAll
<1>3. CASE SearchByFirstName(c)
  <2> DEFINE found == {u \in rows : u.first_name = o.first_name}
  <2>1. found \in SUBSET UserRecord
    BY <1>0
  <2>2. Ran(c, rows, Returned(found))
    BY <1>3 DEF SearchByFirstName
  <2> HIDE DEF found
  <2> QED BY <1>0, <2>1, <2>2, PlainAnswers, RanSound
<1>4. CASE Create(c)
  <2>1. o.kind = "create" /\ o.user \in UserRecord
    BY <1>1, <1>4, OperationKinds DEF Create, Runs
  <2>2. CASE Incomplete(o.user)
    BY <1>0, <1>4, <2>1, <2>2, PlainAnswers, RanSound DEF Create
  <2>3. CASE ~ Incomplete(o.user) /\ Duplicate(rows, o.user.email)
    BY <1>0, <1>4, <2>3, PlainAnswers, RanSound DEF Create
  <2>4. CASE ~ Incomplete(o.user) /\ ~ Duplicate(rows, o.user.email)
    <3>1. Ran(c, rows \cup {o.user}, Returned({o.user}))
      BY <1>4, <2>4 DEF Create
    <3>2. Returned({o.user}) \in Answer /\ Returned({o.user}) # Rejected
      BY <2>1, PlainAnswers
    <3>3. rows \cup {o.user} \in SUBSET UserRecord
          /\ \A u \in rows \cup {o.user} : ~ Incomplete(u)
      BY <1>0, <2>1, <2>4
    <3> QED BY <1>0, <3>1, <3>2, <3>3, RanSound
  <2> QED BY <2>2, <2>3, <2>4
<1>5. CASE DeleteByEmail(c)
  <2> DEFINE found == At(rows, o.email)
  <2>1. found \subseteq rows
    BY DEF At
  <2>2. CASE Ran(c, rows, Missing)
    BY <1>0, <2>2, PlainAnswers, RanSound
  <2>3. ASSUME NEW u \in found, Ran(c, rows \ found, Returned({u}))
        PROVE  PgSound'
    <3>1. Returned({u}) \in Answer /\ Returned({u}) # Rejected
      BY <1>0, <2>1, PlainAnswers
    <3>2. rows \ found \in SUBSET UserRecord /\ \A v \in rows \ found : ~ Incomplete(v)
      BY <1>0
    <3> HIDE DEF found
    <3> QED BY <1>0, <2>3, <3>1, <3>2, RanSound
  <2> QED BY <1>5, <2>2, <2>3 DEF DeleteByEmail
<1>6. CASE UpdateByEmail(c)
  <2> DEFINE found == At(rows, o.email)
  <2>1. o.user \in UserRecord
    BY <1>1, <1>6, OperationKinds DEF UpdateByEmail, Runs
  <2>2. CASE Ran(c, rows, Missing)
    BY <1>0, <2>2, PlainAnswers, RanSound
  <2>3. ASSUME NEW old \in found,
               IF Incomplete(Merge(old, o.user)) THEN Ran(c, rows, Rejected)
               ELSE IF found # {old} \/ Duplicate(rows \ found, Merge(old, o.user).email)
               THEN Ran(c, rows, Exists)
               ELSE Ran(c, (rows \ found) \cup {Merge(old, o.user)},
                        Returned({Merge(old, o.user)}))
        PROVE  PgSound'
    <3> DEFINE new == Merge(old, o.user)
    <3>1. old \in rows /\ old \in UserRecord /\ ~ Incomplete(old)
      BY <1>0 DEF At
    <3>2. new \in UserRecord /\ ~ Incomplete(new)
      BY <2>1, <3>1 DEF Merge, UserRecord, Incomplete
    <3> HIDE DEF new
    <3>3. CASE Ran(c, rows, Exists)
      BY <1>0, <3>3, PlainAnswers, RanSound
    <3>4. CASE Ran(c, (rows \ found) \cup {new}, Returned({new}))
      <4>1. Returned({new}) \in Answer /\ Returned({new}) # Rejected
        BY <3>2, PlainAnswers
      <4>2. (rows \ found) \cup {new} \in SUBSET UserRecord
            /\ \A v \in (rows \ found) \cup {new} : ~ Incomplete(v)
        BY <1>0, <3>2
      <4> HIDE DEF found
      <4> QED BY <1>0, <3>4, <4>1, <4>2, RanSound
    <3> QED BY <2>3, <3>2, <3>3, <3>4 DEF new
  <2> QED BY <1>6, <2>2, <2>3 DEF UpdateByEmail
<1>7. CASE StatementFails(c)
  <2> DEFINE t == [tool[c] EXCEPT !.phase = "close", !.answer = Failed]
  <2>1. /\ t \in Tool
        /\ t.phase = "close" /\ t.operation = o /\ t.obo = tool[c].obo
        /\ t.conn = tool[c].conn /\ t.answer = Failed
    BY <1>0, PlainAnswers DEF Tool
  <2>2. tool' = [tool EXCEPT ![c] = t] /\ rows' = rows
    BY <1>0, <1>7 DEF StatementFails
  <2> HIDE DEF t
  <2>3. CallSound(t)
    BY <1>0, <2>1, PlainAnswers DEF CallSound
  <2> QED BY <2>2, <2>3, MoveOn
<1> QED BY <1>2, <1>3, <1>4, <1>5, <1>6, <1>7 DEF Execute

\* Login, lease, connection and close.
LEMMA ConnectionSound ==
    ASSUME PgSound, NEW c \in Calls,
           LoginWithJwt(c) \/ ReadDatabaseCreds(c) \/ Connect(c) \/ Close(c)
    PROVE  PgSound'
<1>0. CallSound(tool[c]) /\ tool[c] \in Tool /\ tool \in [Calls -> Tool]
  BY DEF PgSound
<1>1. rows' = rows /\ tool[c].phase # "idle" /\ tool[c].obo \in Tokens
  BY <1>0 DEF LoginWithJwt, ReadDatabaseCreds, Connect, Close, CallSound
<1>2. ASSUME NEW t \in Tool, tool' = [tool EXCEPT ![c] = t], t.phase # "idle",
             t.operation = tool[c].operation, t.obo = tool[c].obo,
             t.phase \in {"connect", "execute"} => t.creds = LeaseFor(t.obo),
             IF t.phase \in {"execute", "close"} THEN t.conn = LeaseFor(t.obo) ELSE t.conn = NoUser,
             t.answer \in {tool[c].answer, Failed}
      PROVE  PgSound'
  <2>1. CallSound(t)
    BY <1>0, <1>1, <1>2, PlainAnswers DEF CallSound
  <2> QED BY <1>1, <1>2, <2>1, MoveOn
<1>3. CASE GiveUp(c) /\ tool[c].phase \in {"login", "creds", "connect"}
  BY <1>1, <1>3, GiveUpSound
<1>4. CASE tool[c].phase = "login" /\ tool' = [tool EXCEPT ![c].phase = "creds"]
  <2> DEFINE t == [tool[c] EXCEPT !.phase = "creds"]
  <2>1. t \in Tool /\ t.phase = "creds" /\ t.operation = tool[c].operation
        /\ t.obo = tool[c].obo /\ t.conn = tool[c].conn /\ t.answer = tool[c].answer
    BY <1>0 DEF Tool
  <2>2. tool' = [tool EXCEPT ![c] = t]
    BY <1>0, <1>4
  <2> HIDE DEF t
  <2> QED BY <1>0, <1>2, <1>4, <2>1, <2>2 DEF CallSound
<1>5. CASE /\ tool[c].phase = "creds"
           /\ tool' = [tool EXCEPT ![c].phase = "connect", ![c].creds = LeaseFor(tool[c].obo)]
  <2> DEFINE t == [tool[c] EXCEPT !.phase = "connect", !.creds = LeaseFor(tool[c].obo)]
  <2>1. LeaseFor(tool[c].obo) \in DbUser
    BY <1>1, LeaseSuffices
  <2>2. t \in Tool /\ t.phase = "connect" /\ t.operation = tool[c].operation
        /\ t.obo = tool[c].obo /\ t.conn = tool[c].conn /\ t.answer = tool[c].answer
        /\ t.creds = LeaseFor(tool[c].obo)
    BY <1>0, <2>1 DEF Tool
  <2>3. tool' = [tool EXCEPT ![c] = t]
    BY <1>0, <1>5
  <2> HIDE DEF t
  <2> QED BY <1>0, <1>2, <1>5, <2>2, <2>3 DEF CallSound
<1>6. CASE /\ tool[c].phase = "connect"
           /\ tool' = [tool EXCEPT ![c].phase = "execute", ![c].conn = tool[c].creds]
  <2> DEFINE t == [tool[c] EXCEPT !.phase = "execute", !.conn = tool[c].creds]
  <2>1. t \in Tool /\ t.phase = "execute" /\ t.operation = tool[c].operation
        /\ t.obo = tool[c].obo /\ t.conn = tool[c].creds /\ t.answer = tool[c].answer
        /\ t.creds = tool[c].creds
    BY <1>0 DEF Tool
  <2>2. tool' = [tool EXCEPT ![c] = t]
    BY <1>0, <1>6
  <2> HIDE DEF t
  <2> QED BY <1>0, <1>2, <1>6, <2>1, <2>2 DEF CallSound
<1>7. ASSUME tool[c].phase = "close", NEW a \in {tool[c].answer, Failed},
             tool' = [tool EXCEPT ![c].phase = "done", ![c].conn = NoUser, ![c].answer = a]
      PROVE  PgSound'
  <2> DEFINE t == [tool[c] EXCEPT !.phase = "done", !.conn = NoUser, !.answer = a]
  <2>1. t \in Tool /\ t.phase = "done" /\ t.operation = tool[c].operation
        /\ t.obo = tool[c].obo /\ t.conn = NoUser /\ t.answer = a
    BY <1>0, PlainAnswers DEF Tool
  <2>2. tool' = [tool EXCEPT ![c] = t]
    BY <1>0, <1>7
  <2> HIDE DEF t
  <2> QED BY <1>0, <1>2, <1>7, <2>1, <2>2 DEF CallSound
<1>8. CASE ReadDatabaseCreds(c)
  BY <1>3, <1>5, <1>8 DEF ReadDatabaseCreds, LeaseFor, RoleOf
<1> QED BY <1>3, <1>4, <1>6, <1>7, <1>8 DEF LoginWithJwt, Connect, Close

LEMMA IdleSound == IdleTool \in Tool /\ CallSound(IdleTool)
<1>1. IdleTool \in Tool
  BY PlainAnswers DEF IdleTool, Tool
<1> QED BY <1>1 DEF IdleTool, CallSound

LEMMA PgInit == Init => PgSound
BY IdleSound DEF Init, PgSound

LEMMA PgNext == PgSound /\ [Next]_pgVars => PgSound'
<1> SUFFICES ASSUME PgSound, [Next]_pgVars
             PROVE  PgSound'
  OBVIOUS
<1>0. /\ tool \in [Calls -> Tool] /\ \A c \in Calls : CallSound(tool[c])
      /\ rows \in SUBSET UserRecord /\ \A u \in rows : ~ Incomplete(u)
  BY DEF PgSound
<1>1. ASSUME NEW c \in Calls, NEW o \in Operations, NEW obo \in Tokens, Call(c, o, obo)
      PROVE  PgSound'
  <2> DEFINE t == [IdleTool EXCEPT !.phase = "login", !.operation = o, !.obo = obo]
  <2>1. /\ IdleTool \in Tool /\ IdleTool.conn = NoUser
        /\ IdleTool.answer # Rejected
    BY IdleSound, PlainAnswers DEF IdleTool
  <2>2. o \in Operation
    BY PostgresUsersAssumption
  <2>3. t \in Tool /\ t.phase = "login" /\ t.operation = o /\ t.obo = obo
        /\ t.conn = NoUser /\ t.answer # Rejected
    BY <2>1, <2>2 DEF Tool
  <2>4. tool' = [tool EXCEPT ![c] = t] /\ rows' = rows /\ Needs(o) \in obo.scope
    BY <1>1 DEF Call
  <2> HIDE DEF t
  <2>5. CallSound(t)
    BY <2>3, <2>4 DEF CallSound
  <2> QED BY <2>4, <2>5, MoveOn
<1>2. ASSUME NEW c \in Calls, Reuse(c)
      PROVE  PgSound'
  BY <1>2, IdleSound, MoveOn DEF Reuse
<1>3. CASE ServerRestarts
  <2>1. ASSUME NEW c \in Calls
        PROVE  tool'[c] \in Tool /\ CallSound(tool'[c])
    <3>1. CASE tool[c].phase \in {"idle", "done"}
      BY <1>0, <1>3, <3>1 DEF ServerRestarts
    <3>2. CASE tool[c].phase \notin {"idle", "done"}
      <4>1. tool'[c] = [tool[c] EXCEPT !.phase = "done", !.conn = NoUser, !.answer = Failed]
        BY <1>3, <3>2 DEF ServerRestarts
      <4>2. tool[c] \in Tool
        BY <1>0
      <4>3. /\ tool'[c] \in Tool
            /\ tool'[c].phase = "done" /\ tool'[c].operation = tool[c].operation
            /\ tool'[c].obo = tool[c].obo /\ tool'[c].conn = NoUser /\ tool'[c].answer = Failed
        BY <4>1, <4>2, PlainAnswers DEF Tool
      <4> QED BY <1>0, <3>2, <4>3, PlainAnswers DEF CallSound
    <3> QED BY <3>1, <3>2
  <2>2. tool' = [c \in Calls |-> tool'[c]] /\ rows' = rows
    BY <1>3 DEF ServerRestarts
  <2>3. tool' \in [Calls -> Tool]
    BY <2>1, <2>2
  <2> QED BY <1>0, <2>1, <2>2, <2>3 DEF PgSound
<1>4. CASE UNCHANGED <<rows, tool>>
  BY <1>0, <1>4 DEF PgSound
<1> QED BY <1>1, <1>2, <1>3, <1>4, ConnectionSound, ExecuteSound DEF Next, LeaseEnds

LEMMA AlwaysPgSound == Spec => []PgSound
BY PgInit, PgNext, PTL DEF Spec

-------------------------------------------------------------------------------
(* Safety *)

\* Whatever calls are interleaved, whichever step fails and whenever leases end, a
\* connection is open only as the database user leased to its call's own token.
THEOREM CredentialsStayOwn == Spec => []OwnCredentials
<1>1. PgSound => OwnCredentials
  <2> SUFFICES ASSUME PgSound, NEW c \in Calls, tool[c].conn # NoUser
               PROVE  /\ tool[c].conn.subject = tool[c].obo.subject
                      /\ tool[c].conn.role = "write" => "users.write" \in tool[c].obo.scope
    BY DEF OwnCredentials
  <2>1. tool[c].conn = LeaseFor(tool[c].obo) /\ tool[c].obo \in Tokens
    BY DEF PgSound, CallSound
  <2> QED BY <2>1, LeaseSuffices
<1> QED BY <1>1, AlwaysPgSound, PTL

\* No call that require_scopes admitted meets a database user that lacks the privilege,
\* for any sets of scopes its token carries.
THEOREM PrivilegeAlwaysSuffices == Spec => []PrivilegeSuffices
<1>1. PgSound => PrivilegeSuffices
  <2> SUFFICES ASSUME PgSound, NEW c \in Calls, tool[c].phase = "execute",
                      Needs(tool[c].operation) = "users.write"
               PROVE  tool[c].conn.role = "write"
    BY DEF PrivilegeSuffices
  <2>1. /\ tool[c].conn = LeaseFor(tool[c].obo) /\ tool[c].obo \in Tokens
        /\ "users.write" \in tool[c].obo.scope
    BY DEF PgSound, CallSound
  <2> QED BY <2>1, LeaseSuffices
<1> QED BY <1>1, AlwaysPgSound, PTL

\* Every way out of a call closes its connection: an error of the statement, of the close
\* itself, a restart.
THEOREM ConnectionsAreClosed == Spec => []NoConnectionLeft
<1>1. PgSound => NoConnectionLeft
  BY DEF PgSound, CallSound, NoConnectionLeft
<1> QED BY <1>1, AlwaysPgSound, PTL

\* Since rows are complete and updates merge, no update asks for a NULL the table refuses,
\* whichever fields its caller leaves out.
THEOREM UpdatesAreTaken == Spec => []UpdateNeverRejected
<1>1. PgSound => UpdateNeverRejected
  <2> SUFFICES ASSUME PgSound, NEW c \in Calls, tool[c].operation # NoOperation,
                      tool[c].answer = Rejected
               PROVE  tool[c].operation.kind # "update"
    BY DEF UpdateNeverRejected
  <2>1. CallSound(tool[c])
    BY DEF PgSound
  <2>2. tool[c].phase # "idle"
    BY <2>1 DEF CallSound, IdleTool
  <2> QED BY <2>1, <2>2 DEF CallSound
<1> QED BY <1>1, AlwaysPgSound, PTL

-------------------------------------------------------------------------------
(* The table is a directory *)

\* UserDirectory's words for answers and addresses are these.
LEMMA SameWords ==
    /\ Directory!Unanswered = Unanswered /\ Directory!Exists = Exists
    /\ Directory!Missing = Missing /\ Directory!Rejected = Rejected /\ Directory!Failed = Failed
    /\ \A S : Directory!Returned(S) = Returned(S)
    /\ \A S, a : Directory!At(S, a) = At(S, a)
<1>1. \A status : Directory!NoUsers(status) = NoUsers(status)
  BY Zenon DEF NoUsers, Directory!NoUsers
<1>2. \A S : Directory!Returned(S) = Returned(S)
  BY Zenon DEF Returned, Directory!Returned
<1>3. \A S, a : Directory!At(S, a) = At(S, a)
  BY Zenon DEF At, Directory!At, SameAddress, Directory!SameAddress
<1> QED BY <1>1, <1>2, <1>3, Zenon
    DEF Unanswered, Exists, Missing, Rejected, Failed, Directory!Unanswered,
        Directory!Exists, Directory!Missing, Directory!Rejected, Directory!Failed

\* The request a call's phase stands for.
LEMMA RequestKinds ==
    ASSUME NEW t \in Tool
    PROVE  /\ t = IdleTool => RequestOf(t) = Directory!Idle
           /\ t.phase \in {"login", "creds", "connect", "execute"} =>
                RequestOf(t) = Directory!Request("asked", t.operation, t.answer)
           /\ t.phase = "close" => RequestOf(t) = Directory!Request("done", t.operation, t.answer)
           /\ t.phase = "done" => RequestOf(t) = Directory!Request("told", t.operation, t.answer)
<1>1. t = IdleTool => RequestOf(t) = Directory!Idle
  <2>1. /\ IdleTool.phase = "idle" /\ IdleTool.operation = NoOperation
        /\ IdleTool.answer = Unanswered
    BY DEF IdleTool
  <2> QED BY <2>1, SameWords DEF RequestOf, Directory!Idle, Directory!Request
<1>2. t.phase \in {"login", "creds", "connect", "execute"} =>
        RequestOf(t) = Directory!Request("asked", t.operation, t.answer)
  BY DEF RequestOf, Directory!Request
<1>3. t.phase = "close" => RequestOf(t) = Directory!Request("done", t.operation, t.answer)
  BY DEF RequestOf, Directory!Request
<1>4. t.phase = "done" => RequestOf(t) = Directory!Request("told", t.operation, t.answer)
  BY DEF RequestOf, Directory!Request
<1> QED BY <1>1, <1>2, <1>3, <1>4

\* What a request tells of its state and operation.
LEMMA RequestFields ==
    ASSUME NEW state, NEW operation, NEW answer
    PROVE  /\ Directory!Request(state, operation, answer).state = state
           /\ Directory!Request(state, operation, answer).operation = operation
BY DEF Directory!Request

\* One call changes, and its request with it.
LEMMA OneRequest ==
    ASSUME tool \in [Calls -> Tool], NEW c \in Calls, NEW t, tool' = [tool EXCEPT ![c] = t]
    PROVE  requests' = [requests EXCEPT ![c] = RequestOf(t)]
<1>1. \A d \in Calls : tool'[d] = IF d = c THEN t ELSE tool[d]
  OBVIOUS
<1>2. \A d \in Calls : RequestOf(tool'[d]) = IF d = c THEN RequestOf(t) ELSE RequestOf(tool[d])
  BY <1>1, Zenon
<1> QED BY <1>2 DEF requests

\* A step that ends a call with a failure, and has no effect.
LEMMA FailOne ==
    ASSUME tool \in [Calls -> Tool], UNCHANGED rows, NEW c \in Calls,
           tool[c].phase \in {"login", "creds", "connect", "execute", "close"},
           NEW t \in Tool, tool' = [tool EXCEPT ![c] = t], t.operation = tool[c].operation,
           t.phase \in {"close", "done"}, t.answer = Failed
    PROVE  Directory!Next
<1>1. requests[c].state \in {"asked", "done"} /\ requests[c].operation = tool[c].operation
  <2>1. \E state \in {"asked", "done"} :
            requests[c] = Directory!Request(state, tool[c].operation, tool[c].answer)
    BY RequestKinds DEF requests
  <2> QED BY <2>1, RequestFields
<1>2. \E state \in {"done", "told"} :
        RequestOf(t) = Directory!Request(state, requests[c].operation, Failed)
  BY <1>1, RequestKinds
<1>3. requests' = [requests EXCEPT ![c] = RequestOf(t)]
  BY OneRequest
<1>4. requests = [d \in Calls |-> requests[d]]
  BY DEF requests
<1>5. Directory!Fail({c})
  BY <1>1, <1>2, <1>3, <1>4, SameWords DEF Directory!Fail
<1> QED BY <1>5 DEF Directory!Next

\* A statement and its answer are an effect of the abstract operation.
LEMMA RanEffects ==
    ASSUME tool \in [Calls -> Tool], NEW c \in Calls, tool[c].phase = "execute",
           NEW table, NEW answer \in Answer, Ran(c, table, answer)
    PROVE  Directory!Effect(c, table, answer)
<1>1. PICK a \in {answer, Failed} :
        tool' = [tool EXCEPT ![c].phase = "close", ![c].answer = a]
  BY DEF Ran
<1> DEFINE t == [tool[c] EXCEPT !.phase = "close", !.answer = a]
<1>2. t \in Tool /\ t.phase = "close" /\ t.operation = tool[c].operation /\ t.answer = a
  BY PlainAnswers DEF Tool
<1>3. tool' = [tool EXCEPT ![c] = t]
  BY <1>1
<1> HIDE DEF t
<1>4. requests[c].operation = tool[c].operation
  <2>1. requests[c] = Directory!Request("asked", tool[c].operation, tool[c].answer)
    BY RequestKinds DEF requests
  <2> QED BY <2>1, RequestFields
<1>5. requests' = [requests EXCEPT ![c] = Directory!Request("done", requests[c].operation, a)]
  <2>1. RequestOf(t) = Directory!Request("done", requests[c].operation, a)
    BY <1>2, <1>4, RequestKinds
  <2>2. requests' = [requests EXCEPT ![c] = RequestOf(t)]
    BY <1>3, OneRequest
  <2> QED BY <2>1, <2>2, Zenon
<1>6. rows' = table
  BY DEF Ran
<1> QED BY <1>5, <1>6, SameWords DEF Directory!Effect

\* Each statement is its operation of the directory.
LEMMA ExecuteSimulates ==
    ASSUME PgSound, NEW c \in Calls, Execute(c)
    PROVE  Directory!Next
<1> DEFINE o == tool[c].operation
<1>0. /\ CallSound(tool[c]) /\ tool[c] \in Tool /\ tool \in [Calls -> Tool]
      /\ rows \in SUBSET UserRecord /\ \A u \in rows : ~ Incomplete(u)
      /\ tool[c].phase = "execute"
  BY DEF PgSound, Execute, ListAll, SearchByFirstName, Create, DeleteByEmail, UpdateByEmail,
         StatementFails, Runs
<1>1. o \in Operations
  BY <1>0 DEF CallSound
<1>2. requests[c].state = "asked" /\ requests[c].operation = o
  <2>1. requests[c] = Directory!Request("asked", o, tool[c].answer)
    BY <1>0, RequestKinds DEF requests
  <2> QED BY <2>1, RequestFields
<1>3. CASE ListAll(c)
  <2>1. Directory!Effect(c, rows, Returned(rows))
    BY <1>0, <1>3, PlainAnswers, RanEffects DEF ListAll
  <2>2. Directory!List(c)
    BY <1>2, <1>3, <2>1, SameWords DEF Directory!List, Directory!Asks, ListAll, Runs
  <2> QED BY <2>2 DEF Directory!Next
<1>4. CASE SearchByFirstName(c)
  <2> DEFINE found == {u \in rows : u.first_name = o.first_name}
  <2>1. found \in SUBSET UserRecord
    BY <1>0
  <2>2. Directory!Effect(c, rows, Returned(found))
    BY <1>0, <1>4, <2>1, PlainAnswers, RanEffects DEF SearchByFirstName
  <2>3. Directory!Search(c)
    BY <1>2, <1>4, <2>2, SameWords DEF Directory!Search, Directory!Asks, SearchByFirstName, Runs
  <2> QED BY <2>3 DEF Directory!Next
<1>5. CASE Create(c)
  <2>1. o.kind = "create" /\ o.user \in UserRecord
    BY <1>1, <1>5, OperationKinds DEF Create, Runs
  <2>2. Returned({o.user}) \in Answer
    BY <2>1, PlainAnswers
  <2>3. IF Incomplete(o.user) THEN Directory!Effect(c, rows, Rejected)
        ELSE IF Duplicate(rows, o.user.email) THEN Directory!Effect(c, rows, Exists)
        ELSE Directory!Effect(c, rows \cup {o.user}, Returned({o.user}))
    BY <1>0, <1>5, <2>2, PlainAnswers, RanEffects DEF Create
  <2>4. Directory!Create(c)
    BY <1>2, <2>1, <2>3, SameWords
    DEF Directory!Create, Directory!Asks, Directory!Clashes, Duplicate, Incomplete
  <2> QED BY <2>4 DEF Directory!Next
<1>6. CASE DeleteByEmail(c)
  <2> DEFINE found == At(rows, o.email)
  <2>1. found \subseteq rows
    BY DEF At
  <2>2. \/ found = {} /\ Directory!Effect(c, rows, Missing)
        \/ \E u \in found : Directory!Effect(c, rows \ found, Returned({u}))
    <3>1. \A u \in found : Returned({u}) \in Answer
      BY <1>0, <2>1, PlainAnswers
    <3> QED BY <1>0, <1>6, <3>1, PlainAnswers, RanEffects DEF DeleteByEmail
  <2>3. Directory!Delete(c)
    BY <1>2, <1>6, <2>2, SameWords DEF Directory!Delete, Directory!Asks, DeleteByEmail, Runs
  <2> QED BY <2>3 DEF Directory!Next
<1>7. CASE UpdateByEmail(c)
  <2> DEFINE found == At(rows, o.email)
  <2>1. o.user \in UserRecord /\ o.kind = "update"
    BY <1>1, <1>7, OperationKinds DEF UpdateByEmail, Runs
  <2>2. CASE found = {} /\ Ran(c, rows, Missing)
    <3>1. Directory!Effect(c, rows, Missing)
      BY <1>0, <2>2, PlainAnswers, RanEffects
    <3>2. Directory!Update(c)
      BY <1>2, <2>1, <2>2, <3>1, SameWords DEF Directory!Update, Directory!Asks
    <3> QED BY <3>2 DEF Directory!Next
  <2>3. ASSUME NEW old \in found,
               IF Incomplete(Merge(old, o.user)) THEN Ran(c, rows, Rejected)
               ELSE IF found # {old} \/ Duplicate(rows \ found, Merge(old, o.user).email)
               THEN Ran(c, rows, Exists)
               ELSE Ran(c, (rows \ found) \cup {Merge(old, o.user)},
                        Returned({Merge(old, o.user)}))
        PROVE  Directory!Next
    <3> DEFINE new == Merge(old, o.user)
    <3>1. old \in UserRecord /\ ~ Incomplete(old)
      BY <1>0 DEF At
    <3>2. new \in UserRecord /\ ~ Incomplete(new)
      BY <2>1, <3>1 DEF Merge, UserRecord, Incomplete
    <3>3. Returned({new}) \in Answer
      BY <3>2, PlainAnswers
    <3>4. IF found # {old} \/ Directory!Clashes(rows \ {old}, new.email)
          THEN Directory!Effect(c, rows, Exists)
          ELSE Directory!Effect(c, (rows \ {old}) \cup {new}, Returned({new}))
      <4> HIDE DEF new
      <4>1. CASE found # {old}
        <5>1. Ran(c, rows, Exists)
          BY <2>3, <3>2, <4>1 DEF new
        <5> QED BY <1>0, <4>1, <5>1, PlainAnswers, RanEffects
      <4>2. CASE found = {old}
        <5>1. IF Duplicate(rows \ {old}, new.email) THEN Ran(c, rows, Exists)
              ELSE Ran(c, (rows \ {old}) \cup {new}, Returned({new}))
          BY <2>3, <3>2, <4>2 DEF new
        <5>2. IF Duplicate(rows \ {old}, new.email) THEN Directory!Effect(c, rows, Exists)
              ELSE Directory!Effect(c, (rows \ {old}) \cup {new}, Returned({new}))
          BY <1>0, <3>3, <5>1, PlainAnswers, RanEffects
        <5> QED BY <4>2, <5>2 DEF Directory!Clashes, Duplicate
      <4> QED BY <4>1, <4>2
    <3>5. Directory!Update(c)
      BY <1>2, <2>1, <3>4, SameWords DEF Directory!Update, Directory!Asks
    <3> QED BY <3>5 DEF Directory!Next
  <2> QED BY <1>7, <2>2, <2>3 DEF UpdateByEmail
<1>8. CASE StatementFails(c)
  <2> DEFINE t == [tool[c] EXCEPT !.phase = "close", !.answer = Failed]
  <2>1. t \in Tool /\ t.phase = "close" /\ t.operation = o /\ t.answer = Failed
    BY <1>0, PlainAnswers DEF Tool
  <2>2. tool' = [tool EXCEPT ![c] = t] /\ rows' = rows
    BY <1>0, <1>8 DEF StatementFails
  <2> HIDE DEF t
  <2> QED BY <1>0, <2>1, <2>2, FailOne
<1> QED BY <1>3, <1>4, <1>5, <1>6, <1>7, <1>8 DEF Execute

\* Before the statement and after it a call may fail, or comes nearer to its answer.
LEMMA ConnectionSimulates ==
    ASSUME PgSound, NEW c \in Calls,
           LoginWithJwt(c) \/ ReadDatabaseCreds(c) \/ Connect(c) \/ Close(c)
    PROVE  Directory!Next \/ UNCHANGED <<rows, requests>>
<1>0. tool[c] \in Tool /\ tool \in [Calls -> Tool] /\ rows' = rows
  BY DEF PgSound, LoginWithJwt, ReadDatabaseCreds, Connect, Close
<1>1. ASSUME GiveUp(c), tool[c].phase \in {"login", "creds", "connect"}
      PROVE  Directory!Next
  <2> DEFINE t == [tool[c] EXCEPT !.phase = "done", !.answer = Failed]
  <2>1. t \in Tool /\ t.phase = "done" /\ t.operation = tool[c].operation /\ t.answer = Failed
    BY <1>0, PlainAnswers DEF Tool
  <2>2. tool' = [tool EXCEPT ![c] = t]
    BY <1>0, <1>1 DEF GiveUp
  <2> HIDE DEF t
  <2> QED BY <1>0, <1>1, <2>1, <2>2, FailOne
<1>2. ASSUME tool[c].phase \in {"login", "creds", "connect"},
             NEW t \in Tool, t.phase \in {"creds", "connect", "execute"},
             t.operation = tool[c].operation, t.answer = tool[c].answer,
             tool' = [tool EXCEPT ![c] = t]
      PROVE  UNCHANGED requests
  <2>1. RequestOf(t) = requests[c]
    BY <1>0, <1>2, RequestKinds DEF requests
  <2>2. requests' = [requests EXCEPT ![c] = requests[c]]
    BY <1>0, <1>2, <2>1, OneRequest
  <2> QED BY <2>2 DEF requests
<1>3. CASE tool[c].phase = "login" /\ tool' = [tool EXCEPT ![c].phase = "creds"]
  <2> DEFINE t == [tool[c] EXCEPT !.phase = "creds"]
  <2>1. t \in Tool /\ t.phase = "creds" /\ t.operation = tool[c].operation
        /\ t.answer = tool[c].answer
    BY <1>0 DEF Tool
  <2>2. tool' = [tool EXCEPT ![c] = t]
    BY <1>0, <1>3
  <2> HIDE DEF t
  <2> QED BY <1>0, <1>2, <1>3, <2>1, <2>2
<1>4. ASSUME tool[c].phase = "creds", NEW user \in DbUser,
             tool' = [tool EXCEPT ![c].phase = "connect", ![c].creds = user]
      PROVE  UNCHANGED requests
  <2> DEFINE t == [tool[c] EXCEPT !.phase = "connect", !.creds = user]
  <2>1. t \in Tool /\ t.phase = "connect" /\ t.operation = tool[c].operation
        /\ t.answer = tool[c].answer
    BY <1>0 DEF Tool
  <2>2. tool' = [tool EXCEPT ![c] = t]
    BY <1>0, <1>4
  <2> HIDE DEF t
  <2> QED BY <1>2, <1>4, <2>1, <2>2
<1>5. CASE /\ tool[c].phase = "connect"
           /\ tool' = [tool EXCEPT ![c].phase = "execute", ![c].conn = tool[c].creds]
  <2> DEFINE t == [tool[c] EXCEPT !.phase = "execute", !.conn = tool[c].creds]
  <2>1. t \in Tool /\ t.phase = "execute" /\ t.operation = tool[c].operation
        /\ t.answer = tool[c].answer
    BY <1>0 DEF Tool
  <2>2. tool' = [tool EXCEPT ![c] = t]
    BY <1>0, <1>5
  <2> HIDE DEF t
  <2> QED BY <1>0, <1>2, <1>5, <2>1, <2>2
<1>6. CASE Close(c)
  <2>1. PICK a \in {tool[c].answer, Failed} :
          tool' = [tool EXCEPT ![c].phase = "done", ![c].conn = NoUser, ![c].answer = a]
    BY <1>6 DEF Close
  <2> DEFINE t == [tool[c] EXCEPT !.phase = "done", !.conn = NoUser, !.answer = a]
  <2>2. t \in Tool /\ t.phase = "done" /\ t.operation = tool[c].operation /\ t.answer = a
    BY <1>0, PlainAnswers DEF Tool
  <2>3. tool' = [tool EXCEPT ![c] = t] /\ tool[c].phase = "close"
    BY <1>0, <1>6, <2>1 DEF Close
  <2> HIDE DEF t
  <2>4. CASE a = Failed
    BY <1>0, <2>2, <2>3, <2>4, FailOne
  <2>5. CASE a = tool[c].answer
    <3>1. requests[c] = Directory!Request("done", tool[c].operation, a)
      BY <1>0, <2>3, <2>5, RequestKinds DEF requests
    <3>2. RequestOf(t) = Directory!Request("told", tool[c].operation, a)
      BY <2>2, RequestKinds
    <3>3. /\ requests[c].state = "done"
          /\ [requests[c] EXCEPT !.state = "told"] = RequestOf(t)
      BY <3>1, <3>2 DEF Directory!Request
    <3>4. requests' = [requests EXCEPT ![c] = RequestOf(t)]
      BY <1>0, <2>3, OneRequest
    <3>5. Directory!Tell(c)
      BY <1>0, <3>3, <3>4 DEF Directory!Tell
    <3> QED BY <3>5 DEF Directory!Next
  <2> QED BY <2>4, <2>5
<1>7. CASE ReadDatabaseCreds(c)
  <2>1. tool[c].phase = "creds" /\ tool[c].obo \in Tokens
    BY <1>7 DEF ReadDatabaseCreds, PgSound, CallSound
  <2>2. [subject |-> tool[c].obo.subject, role |-> RoleOf(c)] \in DbUser
    BY <2>1, LeaseSuffices DEF LeaseFor, RoleOf
  <2> QED BY <1>0, <1>1, <1>4, <1>7, <2>1, <2>2 DEF ReadDatabaseCreds
<1> QED BY <1>0, <1>1, <1>3, <1>5, <1>6, <1>7 DEF LoginWithJwt, Connect

\* The table, any number of database users and interleaved statements behave as the
\* directory UserDirectory specifies.
THEOREM TableIsADirectory == Spec => ImplementsDirectory
<1>1. Init => Directory!Init
  <2> SUFFICES ASSUME Init
               PROVE  Directory!Init
    OBVIOUS
  <2>1. RequestOf(IdleTool) = Directory!Idle
    BY IdleSound, RequestKinds
  <2> QED BY <2>1 DEF Init, Directory!Init, requests
<1>2. PgSound /\ [Next]_pgVars => [Directory!Next]_<<rows, requests>>
  <2> SUFFICES ASSUME PgSound, [Next]_pgVars
               PROVE  Directory!Next \/ UNCHANGED <<rows, requests>>
    OBVIOUS
  <2>0. /\ tool \in [Calls -> Tool] /\ \A c \in Calls : tool[c] \in Tool /\ CallSound(tool[c])
    BY DEF PgSound
  <2>1. ASSUME NEW c \in Calls, NEW o \in Operations, NEW obo \in Tokens, Call(c, o, obo)
        PROVE  Directory!Next
    <3> DEFINE t == [IdleTool EXCEPT !.phase = "login", !.operation = o, !.obo = obo]
    <3>1. IdleTool \in Tool /\ IdleTool.answer = Unanswered
      BY IdleSound DEF IdleTool
    <3>2. o \in Operation
      BY PostgresUsersAssumption
    <3>3. t \in Tool /\ t.phase = "login" /\ t.operation = o /\ t.answer = Unanswered
      BY <3>1, <3>2 DEF Tool
    <3>4. tool' = [tool EXCEPT ![c] = t] /\ rows' = rows /\ tool[c] = IdleTool
      BY <2>0, <2>1 DEF Call, CallSound
    <3> HIDE DEF t
    <3>5. requests[c] = Directory!Idle
      BY <3>1, <3>4, RequestKinds DEF requests
    <3>6. requests' = [requests EXCEPT ![c] = Directory!Request("asked", o, Unanswered)]
      BY <2>0, <3>3, <3>4, OneRequest, RequestKinds
    <3>7. Directory!Ask(c, o)
      BY <3>4, <3>5, <3>6, SameWords DEF Directory!Ask
    <3> QED BY <3>7 DEF Directory!Next
  <2>2. ASSUME NEW c \in Calls, Reuse(c)
        PROVE  Directory!Next
    <3>1. requests[c].state = "told"
      <4>1. requests[c] = Directory!Request("told", tool[c].operation, tool[c].answer)
        BY <2>0, <2>2, RequestKinds DEF requests, Reuse
      <4> QED BY <4>1, RequestFields
    <3>2. requests' = [requests EXCEPT ![c] = Directory!Idle]
      <4>1. RequestOf(IdleTool) = Directory!Idle
        BY IdleSound, RequestKinds
      <4>2. tool' = [tool EXCEPT ![c] = IdleTool]
        BY <2>2 DEF Reuse
      <4>3. requests' = [requests EXCEPT ![c] = RequestOf(IdleTool)]
        BY <2>0, <4>2, OneRequest
      <4> QED BY <4>1, <4>3, Zenon
    <3>3. Directory!Leave(c)
      BY <2>2, <3>1, <3>2 DEF Directory!Leave, Reuse
    <3> QED BY <3>3 DEF Directory!Next
  <2>3. CASE ServerRestarts
    <3> DEFINE S == {c \in Calls : tool[c].phase \notin {"idle", "done"}}
    <3>1. ASSUME NEW c \in S
          PROVE  /\ requests[c].state \in {"asked", "done"}
                 /\ requests'[c] = Directory!Request("told", requests[c].operation, Failed)
      <4>1. /\ tool'[c] \in Tool /\ tool'[c].phase = "done"
            /\ tool'[c].operation = tool[c].operation /\ tool'[c].answer = Failed
        <5>1. tool'[c] = [tool[c] EXCEPT !.phase = "done", !.conn = NoUser, !.answer = Failed]
          BY <2>3 DEF ServerRestarts
        <5> QED BY <2>0, <5>1, PlainAnswers DEF Tool
      <4>2. \E state \in {"asked", "done"} :
                requests[c] = Directory!Request(state, tool[c].operation, tool[c].answer)
        <5>1. tool[c].phase \in {"login", "creds", "connect", "execute", "close"}
          BY <2>0 DEF Tool
        <5> QED BY <2>0, <5>1, RequestKinds DEF requests
      <4>3. requests'[c] = Directory!Request("told", tool[c].operation, Failed)
        BY <4>1, RequestKinds DEF requests
      <4> QED BY <4>2, <4>3, RequestFields
    <3>2. ASSUME NEW c \in Calls, c \notin S
          PROVE  requests'[c] = requests[c]
      <4>1. tool'[c] = tool[c]
        BY <2>3, <3>2 DEF ServerRestarts
      <4> QED BY <4>1 DEF requests
    <3>3. requests' = [c \in Calls |-> requests'[c]] /\ S \in SUBSET Calls /\ rows' = rows
      BY <2>3 DEF requests, ServerRestarts
    <3> HIDE DEF S
    <3>4. requests' = [c \in Calls |-> IF c \in S
                                       THEN Directory!Request("told", requests[c].operation, Failed)
                                       ELSE requests[c]]
      BY <3>1, <3>2, <3>3
    <3>5. Directory!Fail(S)
      BY <3>1, <3>3, <3>4, SameWords DEF Directory!Fail
    <3> QED BY <3>3, <3>5 DEF Directory!Next
  <2>4. CASE UNCHANGED <<rows, tool>>
    BY <2>4 DEF requests
  <2> QED BY <2>1, <2>2, <2>3, <2>4, ConnectionSimulates, ExecuteSimulates DEF Next, LeaseEnds
<1> QED BY <1>1, <1>2, AlwaysPgSound, PTL DEF Spec, ImplementsDirectory, Directory!Spec
===============================================================================
