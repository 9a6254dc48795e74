---------------------------- MODULE ChannelChats ----------------------------
(***************************************************************************)
(* One person writing to the bot in one chat (aionui-channel): pairing codes *)
(* and authorization (pairing.rs), sessions (session.rs), and the way of a   *)
(* message from the queue to the agent (orchestrator.rs, action.rs,          *)
(* message_service.rs), with the administrator's requests (routes.rs).  The  *)
(* database is the state; the orchestrator runs a task per message, and every *)
(* await between two statements is a point where another task may step.       *)
(*                                                                           *)
(* Internal user ids, sessions, conversations and codes are numbered as they  *)
(* are made.  An optional value is a set with at most one member.             *)
(***************************************************************************)
EXTENDS Integers, FiniteSets

CONSTANTS Messages,        \* slots for messages handled at the same time
          Admins,          \* slots for the administrator's requests
          MaxMessages,     \* bound: messages and button presses in all
          MaxAdmin,        \* bound: the administrator's requests in all
          MaxCuts          \* bound: tasks cut off by a database error or a restart

ASSUME ChatsAssumption ==
    /\ MaxMessages \in Nat /\ MaxAdmin \in Nat /\ MaxCuts \in Nat
    /\ Messages \cap Admins = {}

VARIABLES code,       \* assistant_pairing_codes: the status of each code, and its age
          user,       \* assistant_users: the person's internal id, if authorized
          session,    \* assistant_sessions: the rows of the person's chat
          convs,      \* conversations made for the chat that still exist
          task,       \* the message tasks and the requests under way
          made,       \* how many users, sessions, conversations and codes were made
          granted,    \* how often each code authorized the person
          reached,    \* for each session, the conversations its messages reached
          raced,      \* what an overlap or a cut-off task may have upset
          counts      \* messages, requests and cut-offs so far

pairings == <<code, user, granted>>
chats    == <<session, convs, reached>>
vars == <<pairings, chats, task, made, raced, counts>>

Tasks    == Messages \cup Admins
Ids      == 1..MaxMessages      \* a message makes one code, session, conversation at most
UserIds  == 1..MaxAdmin         \* a request makes one user at most
Kinds    == {"text", "new", "refresh"}
Statuses == {"unmade", "pending", "approved", "rejected", "expired"}
PairingPCs == {"pending", "expire", "create", "check", "lapse", "grant", "approve", "reject"}
PCs == PairingPCs \cup {"idle", "auth", "delete", "find", "insert", "reread", "converse",
                        "send", "bind", "clean", "revoke", "list", "clear"}

Idle == [op |-> "none", pc |-> "idle", user |-> {}, sess |-> {}, conv |-> {},
         first |-> FALSE, codes |-> {}]

Init ==
    /\ code = [c \in Ids |-> [status |-> "unmade", old |-> FALSE]]
    /\ user = {} /\ session = {} /\ convs = {}
    /\ task = [t \in Tasks |-> Idle]
    /\ made = [users |-> 0, sessions |-> 0, convs |-> 0, codes |-> 0]
    /\ granted = [c \in Ids |-> 0]
    /\ reached = [s \in Ids |-> {}]
    /\ raced = {}
    /\ counts = [messages |-> 0, requests |-> 0, cuts |-> 0]

Goto(t, pc) == task' = [task EXCEPT ![t].pc = pc]
End(t)      == task' = [task EXCEPT ![t] = Idle]

Pending(c)      == code[c].status = "pending"
Mark(c, status) == code' = [code EXCEPT ![c].status = status]
Pairing(t)      == task[t].pc \in PairingPCs
\* Two tasks about the person's pairing overlap from here on.
StartPairing(t) ==
    raced' = IF \E s \in Tasks \ {t} : Pairing(s) THEN raced \cup {"pairing"} ELSE raced

(***************************************************************************)
(* A message from the queue: orchestrator.rs handle_message spawns its task, *)
(* which calls handle_incoming_message.                                      *)
(***************************************************************************)
Arrive(t, op) ==
    /\ task[t] = Idle
    /\ counts.messages < MaxMessages
    /\ counts' = [counts EXCEPT !.messages = counts.messages + 1]
    /\ task' = [task EXCEPT ![t] = [Idle EXCEPT !.op = op, !.pc = "auth"]]
    /\ UNCHANGED <<pairings, chats, made, raced>>

\* Authorization: without a user the message asks for pairing, whatever it is; so
\* does the refresh button.
Authorize(t) ==
    /\ task[t].pc = "auth"
    /\ LET op == task[t].op
           next == IF user = {} \/ op = "refresh" THEN "pending"
                   ELSE IF op = "text" THEN "find" ELSE "delete"
       IN  /\ task' = [task EXCEPT ![t].user = user, ![t].pc = next]
           /\ IF next = "pending" THEN StartPairing(t) ELSE UNCHANGED raced
    /\ UNCHANGED <<pairings, chats, made, counts>>

\* Faulty variant of ReadPending: the person's earlier codes are left as they are.
ReadNoPending(t) == task[t].pc = "pending" /\ Goto(t, "expire")
                    /\ UNCHANGED <<pairings, chats, made, raced, counts>>
\* request_pairing, in expire_user_pending_codes: the person's pending codes are read,
ReadPending(t) ==
    /\ task[t].pc = "pending"
    /\ task' = [task EXCEPT ![t].codes = {c \in Ids : Pending(c)}, ![t].pc = "expire"]
    /\ UNCHANGED <<pairings, chats, made, raced, counts>>

\* and marked expired one after the other, whatever they have become;
Expire(t) ==
    /\ task[t].pc = "expire" /\ task[t].codes # {}
    /\ \E c \in task[t].codes :
          /\ Mark(c, "expired")
          /\ task' = [task EXCEPT ![t].codes = task[t].codes \ {c}]
    /\ UNCHANGED <<user, granted, chats, made, raced, counts>>

\* then a new code is made.
CreatePairing(t) ==
    /\ task[t].pc = "expire" /\ task[t].codes = {}
    /\ code' = [code EXCEPT ![made.codes + 1] = [status |-> "pending", old |-> FALSE]]
    /\ made' = [made EXCEPT !.codes = made.codes + 1]
    /\ End(t)
    /\ UNCHANGED <<user, granted, chats, raced, counts>>

\* session.new: reset_session deletes the chat's sessions, then looks for one.
DeleteSessions(t) ==
    /\ task[t].pc = "delete"
    /\ session' = {s \in session : s.user \notin task[t].user}
    /\ Goto(t, "find")
    /\ UNCHANGED <<pairings, convs, reached, made, raced, counts>>

\* get_or_create_session looks for a session; with several rows, any may be returned.
\* A second task that finds none before the first one inserted, or that finds a
\* session whose first message is under way, is in a race the code does not settle.
Mine(t) == {s \in session : s.user \in task[t].user}
Found(t, s) ==
    IF task[t].op = "new" THEN Idle
    ELSE [task[t] EXCEPT !.pc = "reread", !.sess = {s.id}, !.first = (s.conv = {})]
FindSession(t) ==
    /\ task[t].pc = "find"
    /\ \/ \E s \in Mine(t) :
            /\ task' = [task EXCEPT ![t] = Found(t, s)]
            /\ raced' = IF /\ task[t].op = "text" /\ s.conv = {}
                           /\ \E o \in Tasks \ {t} : task[o].first /\ task[o].sess = {s.id}
                        THEN raced \cup {"session"} ELSE raced
       \/ /\ Mine(t) = {}
          /\ Goto(t, "insert")
          /\ raced' = IF \E o \in Tasks \ {t} : task[o].pc = "insert"
                      THEN raced \cup {"session"} ELSE raced
    /\ UNCHANGED <<pairings, chats, made, counts>>

\* The new session is inserted; the database refuses one of a user that is gone.
References(t) == task[t].user \subseteq user
InsertSession(t) ==
    /\ task[t].pc = "insert"
    /\ IF References(t)
       THEN LET s == [id |-> made.sessions + 1, user |-> CHOOSE u \in task[t].user : TRUE,
                      conv |-> {}]
            IN  /\ session' = session \cup {s}
                /\ made' = [made EXCEPT !.sessions = s.id]
                /\ task' = [task EXCEPT ![t] = Found(t, s)]
       ELSE End(t) /\ UNCHANGED <<session, made>>
    /\ UNCHANGED <<pairings, convs, reached, raced, counts>>

\* Faulty variant of Reread: the session as it was found is used, without reading it.
RereadNothing(t) == task[t].pc = "reread" /\ Goto(t, "converse")
                    /\ UNCHANGED <<pairings, chats, made, raced, counts>>
\* handle_dispatched reads the session again; if it is gone the message is dropped.
Reread(t) ==
    /\ task[t].pc = "reread"
    /\ \/ \E s \in session :
            /\ task[t].sess = {s.id}
            /\ task' = [task EXCEPT ![t].conv = s.conv,
                                    ![t].pc = IF s.conv = {} THEN "converse" ELSE "send"]
       \/ /\ \A s \in session : task[t].sess # {s.id}
          /\ End(t)
    /\ UNCHANGED <<pairings, chats, made, raced, counts>>

\* send_to_agent makes a conversation for a session that has none,
CreateConversation(t) ==
    /\ task[t].pc = "converse"
    /\ LET c == made.convs + 1
       IN  /\ made' = [made EXCEPT !.convs = c]
           /\ convs' = convs \cup {c}
           /\ task' = [task EXCEPT ![t].conv = {c}, ![t].pc = "send"]
    /\ UNCHANGED <<pairings, session, reached, raced, counts>>

\* warms the agent up and sends the message,
Send(t) ==
    /\ task[t].pc = "send"
    /\ task[t].conv \subseteq convs
    /\ reached' = [s \in Ids |-> IF s \in task[t].sess THEN reached[s] \cup task[t].conv
                                                      ELSE reached[s]]
    /\ IF task[t].first THEN Goto(t, "bind") ELSE End(t)
    /\ UNCHANGED <<pairings, session, convs, made, raced, counts>>

\* or fails, and the person is told.
SendFails(t) ==
    /\ task[t].pc \in {"converse", "send"}
    /\ End(t)
    /\ UNCHANGED <<pairings, chats, made, raced, counts>>

\* Faulty variant of Bind: the new conversation is not bound to the session.
BindNothing(t) == task[t].pc = "bind" /\ End(t)
                  /\ UNCHANGED <<pairings, chats, made, raced, counts>>
\* bind_conversation, when the session had no conversation as the message was
\* dispatched: the session may be gone, and the conversation too.
Bind(t) ==
    /\ task[t].pc = "bind"
    /\ session' = IF task[t].conv \subseteq convs
                  THEN {IF task[t].sess = {s.id} THEN [s EXCEPT !.conv = task[t].conv] ELSE s
                        : s \in session}
                  ELSE session
    /\ End(t)
    /\ UNCHANGED <<pairings, convs, reached, made, raced, counts>>

(***************************************************************************)
(* The administrator's requests.                                            *)
(***************************************************************************)
Ask(t, op, pc, cs, us) ==
    /\ task[t] = Idle
    /\ counts.requests < MaxAdmin
    /\ counts' = [counts EXCEPT !.requests = counts.requests + 1]
    /\ task' = [task EXCEPT ![t] = [Idle EXCEPT !.op = op, !.pc = pc, !.codes = cs, !.user = us]]
    /\ UNCHANGED <<pairings, chats, made>>

\* approve_pairing and reject_pairing, of a code the administrator was shown.
AskPairing(t, op, c) ==
    /\ c <= made.codes
    /\ Ask(t, op, "check", {c}, {})
    /\ StartPairing(t)

\* revoke_user, and sync_channel_settings.
AskRevoke(t, u) == u <= made.users /\ Ask(t, "revoke", "clean", {}, {u}) /\ UNCHANGED raced
AskSync(t)      == Ask(t, "sync", "list", {}, {}) /\ UNCHANGED raced

\* get_valid_pending_pairing: a code that is not pending is refused; so is one past
\* its time, after its status is written.
Check(t) ==
    /\ task[t].pc = "check"
    /\ \E c \in task[t].codes :
          IF ~Pending(c) THEN End(t)
          ELSE Goto(t, IF code[c].old THEN "lapse"
                       ELSE IF task[t].op = "approve" THEN "grant" ELSE "reject")
    /\ UNCHANGED <<pairings, chats, made, raced, counts>>

\* The write that ends a request about a code.
Conclude(t, pc, status) ==
    /\ task[t].pc = pc
    /\ \E c \in task[t].codes : Mark(c, status)
    /\ End(t)
    /\ UNCHANGED <<user, granted, chats, made, raced, counts>>

\* approve_pairing creates the user; the database refuses a second one.
Grant(t) ==
    /\ task[t].pc = "grant"
    /\ \/ /\ user = {}
          /\ user' = {made.users + 1}
          /\ made' = [made EXCEPT !.users = made.users + 1]
          /\ granted' = [c \in Ids |-> IF c \in task[t].codes THEN granted[c] + 1 ELSE granted[c]]
          /\ Goto(t, "approve")
       \/ /\ user # {}
          /\ End(t)
          /\ UNCHANGED <<user, made, granted>>
    /\ UNCHANGED <<code, chats, raced, counts>>

\* cleanup_user_sessions, then delete_user, with which the user's sessions go too.
CleanSessions(t) ==
    /\ task[t].pc = "clean"
    /\ session' = {s \in session : s.user \notin task[t].user}
    /\ Goto(t, "revoke")
    /\ UNCHANGED <<pairings, convs, reached, made, raced, counts>>
\* Faulty variant of DeleteUser: sessions made since the cleanup outlive their user.
DeleteUserAlone(t) ==
    /\ task[t].pc = "revoke"
    /\ user' = user \ task[t].user
    /\ End(t)
    /\ UNCHANGED <<code, granted, chats, made, raced, counts>>
DeleteUser(t) ==
    /\ task[t].pc = "revoke"
    /\ user' = user \ task[t].user
    /\ session' = {s \in session : s.user \notin task[t].user}
    /\ End(t)
    /\ UNCHANGED <<code, granted, convs, reached, made, raced, counts>>

\* clear_all_sessions reads the sessions, then deletes those of their users.
ListSessions(t) ==
    /\ task[t].pc = "list"
    /\ task' = [task EXCEPT ![t].user = {s.user : s \in session}, ![t].pc = "clear"]
    /\ UNCHANGED <<pairings, chats, made, raced, counts>>
ClearSessions(t) ==
    /\ task[t].pc = "clear"
    /\ session' = {s \in session : s.user \notin task[t].user}
    /\ End(t)
    /\ UNCHANGED <<pairings, convs, reached, made, raced, counts>>

(***************************************************************************)
(* Time, the cleanup timer, deleted conversations and tasks cut off.        *)
(***************************************************************************)
\* A code's time is up.
Age == /\ \E c \in Ids : /\ Pending(c) /\ ~code[c].old
                         /\ code' = [code EXCEPT ![c].old = TRUE]
       /\ UNCHANGED <<user, granted, chats, task, made, raced, counts>>

\* start_cleanup_timer: the codes past their time are marked in one statement.
Cleanup ==
    /\ \E c \in Ids : Pending(c) /\ code[c].old
    /\ code' = [c \in Ids |-> IF Pending(c) /\ code[c].old
                              THEN [code[c] EXCEPT !.status = "expired"] ELSE code[c]]
    /\ UNCHANGED <<user, granted, chats, task, made, raced, counts>>

\* A conversation is deleted in the application; sessions bound to it lose it.  A
\* message dispatched before, and not yet sent, makes one it will not bind.
DeleteConversation(c) ==
    /\ c \in convs
    /\ convs' = convs \ {c}
    /\ session' = {[s EXCEPT !.conv = s.conv \ {c}] : s \in session}
    /\ reached' = [s \in Ids |-> reached[s] \ {c}]
    /\ raced' = IF \E s \in session, t \in Tasks :
                      /\ c \in s.conv
                      /\ task[t].pc = "reread" /\ task[t].sess = {s.id} /\ ~task[t].first
                THEN raced \cup {"session"} ELSE raced
    /\ UNCHANGED <<pairings, task, made, counts>>

\* A task ends at one of its statements: the database fails it, or the process ends.
CutOff(t) ==
    /\ task[t] # Idle
    /\ counts.cuts < MaxCuts
    /\ counts' = [counts EXCEPT !.cuts = counts.cuts + 1]
    /\ End(t)
    /\ raced' = raced \cup CASE task[t].pc = "approve" -> {"pairing"}
                             [] task[t].pc = "bind" -> {"session"}
                             [] OTHER -> {}
    /\ UNCHANGED <<pairings, chats, made>>

MessageStep(t) ==
    \/ \E op \in Kinds : Arrive(t, op)
    \/ Authorize(t) \/ ReadPending(t) \/ Expire(t) \/ CreatePairing(t)
    \/ DeleteSessions(t) \/ FindSession(t) \/ InsertSession(t)
    \/ Reread(t) \/ CreateConversation(t) \/ Send(t) \/ SendFails(t) \/ Bind(t)
AdminStep(t) ==
    \/ \E op \in {"approve", "reject"}, c \in Ids : AskPairing(t, op, c)
    \/ \E u \in UserIds : AskRevoke(t, u)
    \/ AskSync(t)
    \/ Check(t) \/ Grant(t)
    \/ Conclude(t, "lapse", "expired") \/ Conclude(t, "approve", "approved")
    \/ Conclude(t, "reject", "rejected")
    \/ CleanSessions(t) \/ DeleteUser(t) \/ ListSessions(t) \/ ClearSessions(t)

Next == \/ \E t \in Messages : MessageStep(t)
        \/ \E t \in Admins : AdminStep(t)
        \/ Age \/ Cleanup
        \/ \E c \in Ids : DeleteConversation(c)
        \/ \E t \in Tasks : CutOff(t)

Spec == Init /\ [][Next]_vars

(***************************************************************************)
(* Properties.                                                              *)
(***************************************************************************)
\* The types; and the rows refer to rows that exist: a session to the authorized user,
\* whatever revocation it was inserted during, and to a conversation not deleted.
TypeOK ==
    /\ code \in [Ids -> [status : Statuses, old : BOOLEAN]]
    /\ user \in SUBSET (1..made.users) /\ Cardinality(user) <= 1
    /\ session \in SUBSET [id : 1..made.sessions, user : user, conv : SUBSET convs]
    /\ convs \in SUBSET (1..made.convs)
    /\ task \in [Tasks -> [op : {"none", "approve", "reject", "revoke", "sync"} \cup Kinds,
                           pc : PCs, user : SUBSET UserIds, sess : SUBSET Ids,
                           conv : SUBSET Ids, first : BOOLEAN, codes : SUBSET Ids]]
    /\ made.users <= MaxAdmin
    /\ made.sessions <= MaxMessages /\ made.convs <= MaxMessages /\ made.codes <= MaxMessages
    /\ granted \in [Ids -> 0..MaxAdmin]
    /\ reached \in [Ids -> SUBSET convs]
    /\ raced \in SUBSET {"pairing", "session"}

\* An approved code has authorized the person: approve_pairing writes the user first.
\* And as long as no two tasks about the person's pairing overlapped, and none was cut
\* off between its user and its status, at most one code is pending, a code authorizes
\* once, and a code that authorized ends up approved, never rejected or expired.
PairingHolds ==
    /\ \A c \in Ids : code[c].status = "approved" => granted[c] > 0
    /\ "pairing" \notin raced =>
          /\ \A c, d \in Ids : Pending(c) /\ Pending(d) => c = d
          /\ \A c \in Ids : granted[c] <= 1
          /\ (\A t \in Tasks : ~Pairing(t)) =>
                \A c \in Ids : granted[c] = 1 <=> code[c].status = "approved"

\* The chat of a person has one session at a time and a session's messages all reach
\* the same conversation, whatever messages, session.new, revocations, deleted
\* conversations and restarts come between: unless two first messages overlapped
\* (get_or_create_session, send_to_agent and bind_conversation are not one step), or a
\* deletion met a message between its two reads of the session, or its bind failed.
OneConversation ==
    "session" \notin raced =>
       /\ \A s, r \in session : s.user = r.user => s = r
       /\ \A s \in Ids : Cardinality(reached[s]) <= 1

\* A message goes on to the agent only while its sender is authorized: a revocation
\* after the message's authorization, and before its session is read again, stops it.
OnlyAuthorizedReachAgent ==
    [][\A t \in Tasks : task[t].pc = "reread" /\ task'[t].pc \in {"converse", "send"}
                        => task[t].user \subseteq user]_vars
=============================================================================
