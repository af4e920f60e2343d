---------------------------- MODULE SessionStore -----------------------------
(* Sessions in Postgres (router/src/providers/postgres-session-store.ts): one  *)
(* session_id, the requests that attach to it (session attach in               *)
(* routes/v1/chat-completions.ts) and the maintenance calls. Every SQL         *)
(* statement is a step, which reads what is committed (READ COMMITTED); the    *)
(* writes of a transaction show when it commits. An uncommitted turn locks its *)
(* session row against deletion (foreign key); the advisory lock keeps other   *)
(* appends and compactions out, but neither createSession nor deleteSession.   *)
EXTENDS SessionContext, FiniteSets

CONSTANTS Requests,     \* requests that carry the session's id
          Agents,       \* agents that send them
          Maintainers,  \* agents that delete and compact their sessions
          ToolCallers,  \* requests whose answer calls tools
          ToolResults,  \* requests that bring the result of a tool
          OnMessages    \* requests on /v1/messages; the others are chat completions

ASSUME SessionAssumption == IsFiniteSet(Requests) /\ Maintainers \subseteq Agents

Roles == {"user", "assistant"}
Appends == Requests \X Roles            \* the appendTurn calls: one per role
Compactions == Maintainers \X {"summary"}    \* the replaceTurns calls
Calls == Appends \cup Compactions

VARIABLES
    agent,     \* req.agentId
    pc,        \* what the handler awaits
    history,   \* what loadHistory returned, until it is used
    tx,        \* the transaction of a call
    reply,     \* what the call returned
    lock,      \* the call that holds the advisory lock: a set of at most one
    work,      \* what its transaction has read
    row,       \* the committed sessions row: the same
    turns,     \* the committed conversation_turns rows
    torn,      \* history: the row was deleted under a transaction that had read it
    removed    \* history: requests whose stored question went with the session, or
               \* into its summary

handler == <<pc, history>>
call == <<tx, reply, lock, work>>
tables == <<row, turns, torn, removed>>
vars == <<agent, handler, call, tables>>

Log == INSTANCE SessionLog WITH log <- turns

NoWork == [count |-> 0, pending |-> FALSE, index |-> 0]

Init ==
    /\ agent \in [Requests -> Agents]
    /\ pc = [r \in Requests |-> "idle"]
    /\ history = [r \in Requests |-> {}]
    /\ tx = [t \in Calls |-> "none"]
    /\ reply = [t \in Calls |-> "none"]
    /\ lock = {}
    /\ work = NoWork
    /\ row = {}
    /\ turns = {}
    /\ torn = FALSE
    /\ removed = {}

Indexes == {turn.index : turn \in turns}
Goto(r, where) == pc' = [pc EXCEPT ![r] = where]

-----------------------------------------------------------------------------
(* What the model is sent *)

(* The request's own input: a system prompt, and a tool result or a question.  *)
Input(r) ==
    <<IF r \notin ToolResults THEN Message("user", "text", r)
      ELSE Message(IF r \in OnMessages THEN "user" ELSE "tool", "tool_result", r)>>
OwnSystem(r) == <<Message("system", "text", r)>>
Incoming(r) == IF r \in OnMessages THEN Input(r) ELSE OpenAIMessagesToCanonical(Input(r))

HasQuestion(r) == UserIndexes(Input(r)) # {}

(* The message a stored turn stands for. *)
Stored(turn) ==
    CASE turn.by[2] = "user" -> LastUser(Input(turn.by[1]))
      [] turn.by[2] = "assistant" ->
            Message("assistant", IF turn.by[1] \in ToolCallers THEN "tool_use" ELSE "text", turn.by)
      [] OTHER -> Message("system", "text", turn.by)

(* Sorted by turn_index, a number no two turns share. *)
History(loaded) ==
    LET order == Ascending({turn.index : turn \in loaded})
    IN  [i \in DOMAIN order |-> Stored(CHOOSE turn \in loaded : turn.index = order[i])]

Context(r, loaded) == ProvideContext(History(loaded), Incoming(r), OwnSystem(r))

(* The merged messages are translated like any request's.                      *)
Accepted(r, loaded) ==
    LET messages == Context(r, loaded).messages
    IN  IF r \in OnMessages
        THEN AnthropicAccepts(messages)
        ELSE OpenAIAccepts(CanonicalToOpenAIMessages(messages))

-----------------------------------------------------------------------------
(* Session attach. An error makes the request stateless; the store sees no     *)
(* more of it.                                                                 *)

(* createSession finds the session (its UPDATE only moves expires_at), another  *)
(* agent's, or none.                                                           *)
CreateSelect(r) ==
    /\ pc[r] = "idle"
    /\ Goto(r, IF row = {} THEN "creating"
               ELSE IF \E s \in row : s.agent = agent[r] THEN "loading" ELSE "done")
    /\ UNCHANGED <<agent, history, call, tables>>

(* The INSERT of a session nobody had; somebody may have it by now: a          *)
(* duplicate key.                                                              *)
CreateInsert_NoKey(r) ==
    /\ pc[r] = "creating"
    /\ row' = row \cup {[agent |-> agent[r], count |-> 0, pending |-> FALSE]}
    /\ Goto(r, "loading")
    /\ UNCHANGED <<agent, history, call, turns, torn, removed>>
CreateInsert(r) ==
    /\ pc[r] = "creating"
    /\ IF row = {}
       THEN /\ row' = {[agent |-> agent[r], count |-> 0, pending |-> FALSE]}
            /\ Goto(r, "loading")
       ELSE Goto(r, "refused") /\ UNCHANGED row
    /\ UNCHANGED <<agent, history, call, turns, torn, removed>>

(* Postgres fails. *)
CreateFails(r) ==
    /\ pc[r] = "creating"
    /\ Goto(r, "done")
    /\ UNCHANGED <<agent, history, call, tables>>

(* loadHistory: a session of the same agent, or no history; none either if it  *)
(* is expired or the query fails.                                              *)
LoadSelect(r) ==
    /\ pc[r] = "loading"
    /\ \/ Goto(r, "answering")
       \/ (\E s \in row : s.agent = agent[r]) /\ Goto(r, "reading")
    /\ UNCHANGED <<agent, history, call, tables>>

(* Its turns, filtered by agent once more, which the code calls redundant.     *)
Own_AnyAgent(r) == turns
Own(r) == {turn \in turns : turn.agent = agent[r]}

(* Then the turns. The translator may throw on what comes of them: outside the *)
(* attach's catch, so the request fails.                                       *)
LoadTurns(r) ==
    /\ pc[r] = "reading"
    /\ IF Accepted(r, Own(r))
       THEN history' = [history EXCEPT ![r] = Own(r)] /\ Goto(r, "answering")
       ELSE Goto(r, "invalid") /\ UNCHANGED history
    /\ UNCHANGED <<agent, call, tables>>

-----------------------------------------------------------------------------
(* The answer and its two turns, one appendTurn after the other                *)

Begin(t) == tx' = [tx EXCEPT ![t] = "waiting"]

(* The backend answers. A follower and a failure append nothing, a chat        *)
(* completion that only brings a tool result just the answer.                  *)
Answer(r) ==
    /\ pc[r] = "answering"
    /\ history' = [history EXCEPT ![r] = {}]
    /\ \/ Goto(r, "done") /\ UNCHANGED tx
       \/ LET role == IF HasQuestion(r) THEN "user" ELSE "assistant"
          IN  Goto(r, role) /\ Begin(<<r, role>>)
    /\ UNCHANGED <<agent, reply, lock, work, tables>>

(* The call for the user's turn returned: persisted or not, the other follows. *)
NextTurn_NotAwaited(r) ==
    /\ pc[r] = "user"
    /\ Goto(r, "assistant")
    /\ Begin(<<r, "assistant">>)
    /\ UNCHANGED <<agent, history, reply, lock, work, tables>>
NextTurn(r) ==
    /\ pc[r] = "user" /\ reply[<<r, "user">>] \in {"persisted", "timeout"}
    /\ Goto(r, "assistant")
    /\ Begin(<<r, "assistant">>)
    /\ UNCHANGED <<agent, history, reply, lock, work, tables>>

(* It threw, or the answer's call returned. *)
LastTurn(r) ==
    /\ \/ pc[r] = "user" /\ reply[<<r, "user">>] \in {"error", "duplicate"}
       \/ pc[r] = "assistant" /\ reply[<<r, "assistant">>] # "none"
    /\ Goto(r, "done")
    /\ UNCHANGED <<agent, history, call, tables>>

-----------------------------------------------------------------------------
(* appendTurn *)

(* A call that returned already returns no more. *)
Return(t, result) == reply' = [reply EXCEPT ![t] = IF @ = "none" THEN result ELSE @]

(* The one-second timer resolves the call; its transaction goes on. *)
Timeout_Early(t) ==
    /\ tx[t] = "waiting" /\ reply[t] = "none"
    /\ Return(t, "timeout")
    /\ UNCHANGED <<agent, handler, tx, lock, work, tables>>
Timeout(t) ==
    /\ tx[t] # "none" /\ reply[t] = "none"
    /\ Return(t, "timeout")
    /\ UNCHANGED <<agent, handler, tx, lock, work, tables>>

Rollback(t) ==
    /\ tx' = [tx EXCEPT ![t] = "ended"]
    /\ lock' = lock \ {t}
    /\ work' = IF t \in lock THEN NoWork ELSE work

(* BEGIN, the advisory lock first of all, and the session row: missing or      *)
(* another agent's, or good.                                                   *)
LockFree_Ignored(t) == tx[t] = "waiting"
LockFree(t) == tx[t] = "waiting" /\ lock = {}

Check(t) ==
    /\ LockFree(t) /\ t \in Appends
    /\ \/ \E s \in row :
            /\ s.agent = agent[t[1]]
            /\ lock' = {t}
            /\ work' = [work EXCEPT !.count = s.count, !.pending = s.pending]
            /\ tx' = [tx EXCEPT ![t] = "checked"]
            /\ UNCHANGED reply
       \/ /\ \A s \in row : s.agent # agent[t[1]]
          /\ Rollback(t) /\ Return(t, "error")
    /\ UNCHANGED <<agent, handler, tables>>

(* COALESCE(MAX(turn_index), 0) + 1 *)
NextIndex_FromCount(i) == i = work.count + 1
NextIndex(i) == \A j \in Indexes : j < i

SelectMax(t) ==
    /\ tx[t] = "checked" /\ t \in Appends
    /\ \E j \in {0} \cup Indexes : NextIndex(j + 1) /\ work' = [work EXCEPT !.index = j + 1]
    /\ tx' = [tx EXCEPT ![t] = "counted"]
    /\ UNCHANGED <<agent, handler, reply, lock, tables>>

(* The INSERT, refused if the session is gone or the index taken. *)
Insert(t) ==
    /\ tx[t] = "counted"
    /\ IF row # {} /\ work.index \notin Indexes
       THEN tx' = [tx EXCEPT ![t] = "inserted"] /\ UNCHANGED <<reply, lock, work>>
       ELSE Rollback(t) /\ Return(t, IF row = {} THEN "error" ELSE "duplicate")
    /\ UNCHANGED <<agent, handler, tables>>

(* computePendingToolCall *)
Pending_Sticky(t) == work.pending \/ (t[2] = "assistant" /\ t[1] \in ToolCallers)
Pending(t) == IF t[2] = "assistant" THEN t[1] \in ToolCallers ELSE work.pending

Turn(t) == [index |-> work.index, agent |-> agent[t[1]], by |-> t]

(* UPDATE of the agent's own row, and COMMIT. *)
Store(t) ==
    /\ turns' = turns \cup {Turn(t)}
    /\ row' = {IF s.agent = agent[t[1]]
               THEN [s EXCEPT !.count = work.count + 1, !.pending = Pending(t)]
               ELSE s : s \in row}
    /\ UNCHANGED <<torn, removed>>

(* Its acknowledgement may be lost. *)
Commit(t) ==
    /\ tx[t] = "inserted"
    /\ Store(t)
    /\ Rollback(t)
    /\ \E result \in {"persisted", "error"} : Return(t, result)
    /\ UNCHANGED <<agent, handler>>

(* A statement or the connection fails, or the session is found expired. *)
Fails(t) ==
    /\ tx[t] \in {"waiting", "checked", "counted", "inserted"}
    /\ Rollback(t) /\ Return(t, "error")
    /\ UNCHANGED <<agent, handler, tables>>

-----------------------------------------------------------------------------
(* Maintenance, which no route calls yet                                       *)

Removes == removed' = removed \cup {r \in Requests : \E turn \in turns : turn.by = <<r, "user">>}

(* deleteSession waits for an uncommitted turn; the turns go with the row.     *)
Delete(a) ==
    /\ \E s \in row : s.agent = a
    /\ \A t \in Appends : tx[t] # "inserted"
    /\ row' = {} /\ turns' = {} /\ Removes
    /\ torn' = (torn \/ \E t \in Calls : tx[t] \in {"checked", "counted"})
    /\ UNCHANGED <<agent, handler, call>>

(* replaceTurns, for a session of the agent: lock and check, then the rest, on  *)
(* whatever row is there by then; none, and the INSERT is refused.             *)
Compact(a) ==
    LET t == <<a, "summary">> IN
    /\ tx[t] = "none" /\ lock = {}
    /\ \E s \in row : s.agent = a
    /\ lock' = {t}
    /\ tx' = [tx EXCEPT ![t] = "checked"]
    /\ UNCHANGED <<agent, handler, reply, work, tables>>

CompactStore(a) ==
    LET t == <<a, "summary">> IN
    /\ tx[t] = "checked"
    /\ IF row = {} THEN UNCHANGED <<row, turns, removed>>
       ELSE /\ Removes
            /\ turns' = {[index |-> 1, agent |-> a, by |-> t]}
            /\ row' = {[s EXCEPT !.count = 1, !.pending = FALSE] : s \in row}
    /\ Rollback(t)
    /\ UNCHANGED <<agent, handler, reply, torn>>

-----------------------------------------------------------------------------
Attach(r) ==
    \/ CreateSelect(r) \/ CreateInsert(r) \/ CreateFails(r)
    \/ LoadSelect(r) \/ LoadTurns(r)

AppendTurn(t) ==
    \/ Timeout(t) \/ Check(t) \/ SelectMax(t) \/ Insert(t) \/ Commit(t)

Next ==
    \/ \E r \in Requests : Attach(r) \/ Answer(r) \/ NextTurn(r) \/ LastTurn(r)
    \/ \E t \in Appends : AppendTurn(t)
    \/ \E t \in Calls : Fails(t)
    \/ \E a \in Maintainers : Delete(a) \/ Compact(a) \/ CompactStore(a)

(* Timers fire and handlers resume. Postgres may hang.                         *)
Resumes(r) == NextTurn(r) \/ LastTurn(r) \/ \E role \in Roles : Timeout(<<r, role>>)
Fairness == \A r \in Requests : WF_vars(Resumes(r))

Spec == Init /\ [][Next]_vars /\ Fairness

-----------------------------------------------------------------------------
(* Properties *)

(* Every variable has its type. *)
TypeOK ==
    /\ agent \in [Requests -> Agents]
    /\ pc \in [Requests -> {"idle", "creating", "loading", "reading", "answering",
                            "user", "assistant", "refused", "invalid", "done"}]
    /\ history \in [Requests -> SUBSET [index : Nat, agent : Agents, by : Calls]]
    /\ tx \in [Calls -> {"none", "waiting", "checked", "counted", "inserted", "ended"}]
    /\ reply \in [Calls -> {"none", "persisted", "timeout", "error", "duplicate"}]
    /\ lock \subseteq Calls
    /\ work \in [count : Nat, pending : BOOLEAN, index : Nat]
    /\ row \subseteq [agent : Agents, count : Nat, pending : BOOLEAN]
    /\ Cardinality(row) <= 1
    /\ turns \subseteq [index : Nat, agent : Agents, by : Calls]
    /\ torn \in BOOLEAN
    /\ removed \subseteq Requests

(* P4-02: however their transactions interleave, and whether or not their      *)
(* callers still wait, concurrent appends behave as a log that grows at its    *)
(* end.                                                                        *)
ImplementsSessionLog == Log!Spec

(* Unless a deletion met a transaction that had read the row: turn_index has   *)
(* no gaps, turn_count counts the turns, has_pending_tool_call is what the     *)
(* last answer says (SUMP-03), and no append is refused for a number another   *)
(* one took.                                                                   *)
Answers == {turn \in turns : turn.by[2] = "assistant"}
PendingTools ==
    \E turn \in Answers :
        /\ turn.by[1] \in ToolCallers
        /\ \A other \in Answers : other.index <= turn.index
Numbered ==
    ~torn => /\ Indexes = 1..Cardinality(turns)
             /\ \A s \in row : s.count = Cardinality(turns) /\ s.pending = PendingTools
             /\ \A t \in Appends : reply[t] # "duplicate"

(* P4-03: an agent is shown its own turns only, though a deletion and a new    *)
(* session in the midst of an append or a load leave it in another's session.  *)
OwnHistory ==
    \A r \in Requests : \A turn \in history[r] : turn.agent = agent[r]

(* An answer whose question was reported stored comes behind it, whatever else *)
(* the session is used for meanwhile: the question has the smaller number, or  *)
(* it went with the session or into its summary after it was stored. That much *)
(* can happen between the two appends, and leaves the answer alone.            *)
QuestionFirst ==
    \A r \in Requests : \A a \in turns :
        /\ a.by = <<r, "assistant">>
        /\ reply[<<r, "user">>] = "persisted"
        => /\ \A u \in turns : u.by = <<r, "user">> => u.index < a.index
           /\ r \in removed \/ \E u \in turns : u.by = <<r, "user">>

(* The model is sent the newest of the turns that are loaded, and everything   *)
(* the request brought.                                                        *)
PromptIsRecent ==
    \A r \in Requests : pc[r] = "reading" =>
        IsRecent(Context(r, Own(r)), History(Own(r)), Incoming(r), OwnSystem(r))

(* Together, what the table of turns says, and what a request makes of it.     *)
Ordered == Numbered /\ QuestionFirst
Prompted == OwnHistory /\ PromptIsRecent

(* A session works on either surface, whatever it holds: no request of its own *)
(* agent is answered 400 because of the turns that were stored for it.         *)
AttachedIsAccepted == \A r \in Requests : pc[r] # "invalid"

(* SESS-04: a handler that appends its turns ends, though Postgres never       *)
(* answers.                                                                    *)
AppendsEnd == \A r \in Requests : pc[r] \in Roles ~> pc[r] = "done"
=============================================================================
