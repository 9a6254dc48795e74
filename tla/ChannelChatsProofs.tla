-------------------------- MODULE ChannelChatsProofs --------------------------
(***************************************************************************)
(* The chats for any number of messages, requests and cut-off tasks: only    *)
(* authorized users reach an agent (AuthInv: what the session a task found    *)
(* tells of the user it was found for); the person's pairing (PairInv: what  *)
(* the one task about it relies on since its read); the types, with the       *)
(* bounds of every number (Budget, RowsNumbered, UsersNumbered); and one     *)
(* conversation for a chat (SessInv: the first message of a session is alone  *)
(* with it until it has bound the conversation it made).                     *)
(***************************************************************************)
EXTENDS ChannelChats, FiniteSetTheorems, TLAPS

Task == [op : {"none", "approve", "reject", "revoke", "sync"} \cup Kinds, pc : PCs,
         user : SUBSET Nat, sess : SUBSET Nat, conv : SUBSET Nat, first : BOOLEAN,
         codes : SUBSET Ids]

RowTypes ==
    /\ task \in [Tasks -> Task]
    /\ made \in [users : Nat, sessions : Nat, convs : Nat, codes : Nat]
    /\ user = {} \/ \E u \in Nat : user = {u}
    /\ session \in SUBSET [id : Nat, user : Nat, conv : SUBSET Nat]

\* A task that looks for a session has found its user.
Known(t) ==
    task[t].pc \in {"delete", "find", "insert", "reread"} => \E u \in Nat : task[t].user = {u}

\* The session a task is about to read again was made, and if it is still there it
\* is one of the task's user.
Linked(t) ==
    task[t].pc = "reread" =>
        \E k \in Nat : /\ task[t].sess = {k} /\ k <= made.sessions
                       /\ \A s \in session : s.id = k => task[t].user = {s.user}

\* Sessions are numbered as they are made, and belong to users that exist.
SessionsRefer ==
    /\ \A s \in session : s.user \in user /\ s.id <= made.sessions
    /\ \A s, q \in session : s.id = q.id => s.user = q.user

AuthInv ==
    /\ RowTypes
    /\ SessionsRefer
    /\ \A t \in Tasks : Known(t) /\ Linked(t)

\* What a step may make of its task that finds no session: it is idle, or goes
\* on with pairing, administration, the send or the search.
Elsewhere(r) ==
    /\ r \in Task
    /\ r.pc # "reread"
    /\ r.pc \in {"delete", "find", "insert"} => \E u \in Nat : r.user = {u}

\* There are no tasks and no rows when the application is installed.
LEMMA AuthInit == Init => AuthInv
<1> SUFFICES ASSUME Init PROVE AuthInv
    OBVIOUS
<1> USE DEF Init
<1>1. RowTypes
    BY DEF RowTypes, Task, Idle, PCs, PairingPCs, Kinds
<1>2. SessionsRefer /\ \A t \in Tasks : Known(t) /\ Linked(t)
    BY DEF SessionsRefer, Known, Linked, Idle
<1> QED BY <1>1, <1>2 DEF AuthInv

\* A step of a task that leaves sessions alone, or removes some, or writes their
\* conversations, and makes no session: everything is as well linked
\* as before (Authorize, ReadPending, Expire, Bind, Check, Grant, CutOff and the like).
LEMMA ElsewhereKeeps ==
    ASSUME AuthInv, NEW t \in Tasks, NEW r, Elsewhere(r), task' = [task EXCEPT ![t] = r],
           made' \in [users : Nat, sessions : Nat, convs : Nat, codes : Nat],
           made'.sessions = made.sessions,
           user' = {} \/ \E u \in Nat : user' = {u},
           session' \in SUBSET [id : Nat, user : Nat, conv : SUBSET Nat],
           \A s \in session' : s.user \in user' /\
               \E q \in session : q.id = s.id /\ q.user = s.user
    PROVE  AuthInv'
<1> USE DEF AuthInv
<1>1. RowTypes'
    BY DEF RowTypes, Elsewhere
<1>2. SessionsRefer'
    BY DEF SessionsRefer
<1>3. ASSUME NEW x \in Tasks PROVE Known(x)' /\ Linked(x)'
    <2>1. CASE x = t
        <3>1. task'[x] = r
            BY <2>1 DEF RowTypes
        <3>2. /\ r.pc # "reread"
              /\ r.pc \in {"delete", "find", "insert"} => \E u \in Nat : r.user = {u}
            BY DEF Elsewhere
        <3>3. Known(x)'
            BY <3>1, <3>2 DEF Known
        <3>4. Linked(x)'
            BY <3>1, <3>2 DEF Linked
        <3> QED BY <3>3, <3>4
    <2>2. CASE x # t
        <3>1. task'[x] = task[x]
            BY <2>2 DEF RowTypes
        <3>2. Known(x)'
            BY <3>1 DEF Known
        <3>3. Linked(x)'
            BY <3>1 DEF Linked
        <3> QED BY <3>2, <3>3
    <2> QED BY <2>1, <2>2
<1> QED BY <1>1, <1>2, <1>3

\* The same of a step that concerns no task (DeleteConversation, Age, Cleanup).
LEMMA RowsKeep ==
    ASSUME AuthInv, task' = task, made' = made, user' = user,
           session' \in SUBSET [id : Nat, user : Nat, conv : SUBSET Nat],
           \A s \in session' : \E q \in session : q.id = s.id /\ q.user = s.user
    PROVE  AuthInv'
<1> USE DEF AuthInv
<1>1. RowTypes' /\ SessionsRefer'
    BY DEF RowTypes, SessionsRefer
<1>2. \A x \in Tasks : Known(x)' /\ Linked(x)'
    BY DEF Known, Linked
<1> QED BY <1>1, <1>2

\* What End leaves behind.
LEMMA IdleElsewhere == Elsewhere(Idle)
BY DEF Idle, Elsewhere, Task, PCs, PairingPCs, Kinds

\* A step that ends its task and leaves the rows alone.
LEMMA EndKeeps ==
    ASSUME AuthInv, NEW t \in Tasks, End(t), UNCHANGED <<made, user, session>>
    PROVE  AuthInv'
BY IdleElsewhere, ElsewhereKeeps DEF End, AuthInv, RowTypes, SessionsRefer

\* A step of a task that goes on, not to a session, and leaves the rows alone.
LEMMA GoKeeps ==
    ASSUME AuthInv, NEW t \in Tasks, NEW r, Elsewhere(r), task' = [task EXCEPT ![t] = r],
           made' \in [users : Nat, sessions : Nat, convs : Nat, codes : Nat],
           made'.sessions = made.sessions, UNCHANGED <<user, session>>
    PROVE  AuthInv'
BY ElsewhereKeeps DEF AuthInv, RowTypes, SessionsRefer

\* A message up to its session (handle_incoming_message).
LEMMA AuthorizationKeeps ==
    ASSUME AuthInv, NEW t \in Tasks,
           \/ \E op \in Kinds : Arrive(t, op)
           \/ Authorize(t) \/ ReadPending(t) \/ Expire(t) \/ CreatePairing(t)
           \/ DeleteSessions(t)
    PROVE  AuthInv'
<1> USE DEF AuthInv
<1>1. ASSUME NEW op \in Kinds, Arrive(t, op) PROVE AuthInv'
    <2>1. Elsewhere([Idle EXCEPT !.op = op, !.pc = "auth"])
        BY DEF Idle, Elsewhere, Task, PCs, PairingPCs, Kinds
    <2> QED BY <1>1, <2>1, GoKeeps DEF Arrive, chats, pairings, RowTypes
<1>2. CASE Authorize(t)
    <2> DEFINE next == IF user = {} \/ task[t].op = "refresh" THEN "pending"
                       ELSE IF task[t].op = "text" THEN "find" ELSE "delete"
    <2>1. Elsewhere([task[t] EXCEPT !.user = user, !.pc = next])
        <3> DEFINE r == [task[t] EXCEPT !.user = user, !.pc = next]
        <3>1. task[t] \in Task /\ user \in SUBSET Nat /\ next \in PCs
            BY DEF RowTypes, PCs, PairingPCs
        <3>2. r \in Task /\ r.pc = next /\ r.user = user
            BY <3>1 DEF Task
        <3>3. next \in {"pending", "find", "delete"} /\ (next # "pending" => \E u \in Nat : user = {u})
            BY DEF RowTypes
        <3> QED BY <3>2, <3>3 DEF Elsewhere
    <2>2. task' = [task EXCEPT ![t] = [task[t] EXCEPT !.user = user, !.pc = next]]
        BY <1>2 DEF Authorize, RowTypes, Task
    <2> QED BY <1>2, <2>1, <2>2, GoKeeps DEF Authorize, chats, pairings, RowTypes
<1>3. CASE ReadPending(t)
    <2> DEFINE r == [task[t] EXCEPT !.codes = {c \in Ids : Pending(c)}, !.pc = "expire"]
    <2>1. Elsewhere(r)
        <3>1. task[t] \in Task
            BY DEF RowTypes
        <3>2. {c \in Ids : Pending(c)} \in SUBSET Ids /\ "expire" \in PCs
            BY DEF PCs, PairingPCs
        <3> QED BY <3>1, <3>2 DEF Elsewhere, Task
    <2>2. task' = [task EXCEPT ![t] = r] /\ UNCHANGED <<made, user, session>>
        BY <1>3 DEF ReadPending, chats, pairings, RowTypes, Task
    <2>3. made' \in [users : Nat, sessions : Nat, convs : Nat, codes : Nat]
          /\ made'.sessions = made.sessions
        BY <2>2 DEF RowTypes
    <2> HIDE DEF r
    <2> QED BY <2>1, <2>2, <2>3, GoKeeps
<1>4. CASE Expire(t)
    <2>1. PICK c \in task[t].codes : task' = [task EXCEPT ![t].codes = task[t].codes \ {c}]
        BY <1>4 DEF Expire
    <2>2. Elsewhere([task[t] EXCEPT !.codes = task[t].codes \ {c}])
        BY <1>4 DEF Expire, Elsewhere, Task, PCs, PairingPCs, RowTypes
    <2> QED BY <1>4, <2>1, <2>2, GoKeeps DEF Expire, chats, RowTypes, Task
<1>5. CASE CreatePairing(t)
    <2>1. task' = [task EXCEPT ![t] = Idle] /\ UNCHANGED <<user, session>>
        BY <1>5 DEF CreatePairing, End, chats
    <2>2. made' \in [users : Nat, sessions : Nat, convs : Nat, codes : Nat]
          /\ made'.sessions = made.sessions
        BY <1>5 DEF CreatePairing, RowTypes
    <2> QED BY <2>1, <2>2, IdleElsewhere, GoKeeps
<1>6. CASE DeleteSessions(t)
    <2>1. Elsewhere([task[t] EXCEPT !.pc = "find"])
        BY <1>6 DEF DeleteSessions, Known, Elsewhere, Task, PCs, PairingPCs, RowTypes
    <2>2. task' = [task EXCEPT ![t] = [task[t] EXCEPT !.pc = "find"]]
        BY <1>6 DEF DeleteSessions, Goto, RowTypes, Task
    <2> QED BY <1>6, <2>1, <2>2, ElsewhereKeeps
            DEF DeleteSessions, pairings, RowTypes, SessionsRefer
<1> QED BY <1>1, <1>2, <1>3, <1>4, <1>5, <1>6

\* A task goes on to a session it found, or has just made, which is of its user.
LEMMA FoundKeeps ==
    ASSUME AuthInv, NEW t \in Tasks, NEW r \in Task, NEW u \in Nat, NEW s \in session',
           task' = [task EXCEPT ![t] = r], r.pc = "reread", r.user = {u}, r.sess = {s.id},
           s.user = u, RowTypes', SessionsRefer', made'.sessions >= made.sessions,
           \A q \in session' : q \in session \/ q.id > made.sessions
    PROVE  AuthInv'
<1> USE DEF AuthInv
<1>1. s.id \in Nat /\ s.id <= made'.sessions /\ \A q \in session' : q.id = s.id => q.user = u
    BY DEF RowTypes, SessionsRefer
<1>2. ASSUME NEW x \in Tasks PROVE Known(x)' /\ Linked(x)'
    <2>1. CASE x = t
        <3>1. task'[x] = r
            BY <2>1 DEF RowTypes
        <3> QED BY <3>1, <1>1 DEF Known, Linked
    <2>2. CASE x # t
        <3>1. task'[x] = task[x]
            BY <2>2 DEF RowTypes
        <3>2. Known(x)'
            BY <3>1 DEF Known
        <3>3. ASSUME task[x].pc = "reread" PROVE Linked(x)'
            <4>1. PICK k \in Nat : /\ task[x].sess = {k} /\ k <= made.sessions
                                   /\ \A q \in session : q.id = k => task[x].user = {q.user}
                BY <3>3 DEF Linked
            <4>2. made.sessions \in Nat /\ made'.sessions \in Nat
                BY DEF RowTypes
            <4>3. k <= made'.sessions
                BY <4>1, <4>2
            <4>4. ASSUME NEW q \in session', q.id = k PROVE task[x].user = {q.user}
                <5>1. q.id \in Nat
                    BY DEF RowTypes
                <5>2. q \in session
                    BY <4>1, <4>2, <4>4, <5>1
                <5> QED BY <4>1, <4>4, <5>2
            <4> QED BY <3>1, <4>1, <4>3, <4>4 DEF Linked
        <3> QED BY <3>1, <3>2, <3>3 DEF Linked
    <2> QED BY <2>1, <2>2
<1> QED BY <1>2

\* A message finds a session, or is to make one (get_or_create_session).
LEMMA FindKeeps == ASSUME AuthInv, NEW t \in Tasks, FindSession(t) PROVE AuthInv'
<1> USE DEF AuthInv
<1>1. PICK u \in Nat : task[t].user = {u}
    BY DEF FindSession, Known
<1>2. UNCHANGED <<made, user, session>>
    BY DEF FindSession, pairings, chats
<1>3. CASE Goto(t, "insert")
    <2> DEFINE r == [task[t] EXCEPT !.pc = "insert"]
    <2>1. Elsewhere(r)
        BY <1>1 DEF Elsewhere, Task, PCs, PairingPCs, RowTypes
    <2>2. task' = [task EXCEPT ![t] = r]
        BY <1>3 DEF Goto, RowTypes, Task
    <2>3. made' \in [users : Nat, sessions : Nat, convs : Nat, codes : Nat]
          /\ made'.sessions = made.sessions
        BY <1>2 DEF RowTypes
    <2> HIDE DEF r
    <2> QED BY <1>2, <2>1, <2>2, <2>3, GoKeeps
<1>4. ASSUME NEW s \in Mine(t), task' = [task EXCEPT ![t] = Found(t, s)] PROVE AuthInv'
    <2>1. CASE task[t].op = "new"
        <3>1. End(t)
            BY <1>4, <2>1 DEF Found, End
        <3> QED BY <3>1, <1>2, EndKeeps
    <2>2. CASE task[t].op # "new"
        <3> DEFINE r == [task[t] EXCEPT !.pc = "reread", !.sess = {s.id}, !.first = (s.conv = {})]
        <3>1. s \in session /\ s.user = u /\ s.id \in Nat
            BY <1>1 DEF Mine, RowTypes
        <3>2. r \in Task /\ r.pc = "reread" /\ r.user = {u} /\ r.sess = {s.id}
            <4>1. task[t] \in Task /\ (s.conv = {}) \in BOOLEAN
                BY DEF RowTypes
            <4>2. PICK b \in BOOLEAN : b = (s.conv = {})
                BY <4>1, Zenon
            <4>3. r = [task[t] EXCEPT !.pc = "reread", !.sess = {s.id}, !.first = b]
                BY <4>2, Zenon
            <4> HIDE DEF r
            <4>4. r \in Task /\ r.pc = "reread" /\ r.user = task[t].user /\ r.sess = {s.id}
                BY <3>1, <4>1, <4>3 DEF Task, PCs
            <4> QED BY <1>1, <4>4
        <3>3. task' = [task EXCEPT ![t] = r]
            BY <1>4, <2>2 DEF Found
        <3> HIDE DEF r
        <3>4. RowTypes' /\ SessionsRefer'
            BY <1>2, <3>2, <3>3 DEF RowTypes, SessionsRefer
        <3>5. made'.sessions >= made.sessions
            BY <1>2 DEF RowTypes
        <3> QED BY <1>2, <3>1, <3>2, <3>3, <3>4, <3>5, FoundKeeps
    <2> QED BY <2>1, <2>2
<1> QED BY <1>3, <1>4 DEF FindSession

\* The new session is of a user that exists (the foreign key of the insert).
LEMMA InsertKeeps == ASSUME AuthInv, NEW t \in Tasks, InsertSession(t) PROVE AuthInv'
<1> USE DEF AuthInv
<1>1. PICK u \in Nat : task[t].user = {u}
    BY DEF InsertSession, Known
<1>2. user' = user
    BY DEF InsertSession, pairings
<1>3. CASE ~References(t)
    <2>1. End(t) /\ UNCHANGED <<made, user, session>>
        BY <1>2, <1>3 DEF InsertSession
    <2> QED BY <2>1, EndKeeps
<1>4. CASE References(t)
    <2> DEFINE s == [id |-> made.sessions + 1, user |-> u, conv |-> {}]
    <2>1. /\ session' = session \cup {s}
          /\ made' = [made EXCEPT !.sessions = made.sessions + 1]
          /\ task' = [task EXCEPT ![t] = Found(t, s)]
        BY <1>1, <1>4 DEF InsertSession
    <2>2. made.sessions \in Nat /\ made' \in [users : Nat, sessions : Nat, convs : Nat, codes : Nat]
          /\ made'.sessions = made.sessions + 1
        BY <2>1 DEF RowTypes
    <2>3. u \in user
        BY <1>1, <1>4 DEF References
    <2>4. session' \in SUBSET [id : Nat, user : Nat, conv : SUBSET Nat]
        BY <2>1, <2>2 DEF RowTypes
    <2>5. \A q \in session : q.id \in Nat /\ q.id <= made.sessions
        BY DEF RowTypes, SessionsRefer
    <2>6. SessionsRefer'
        BY <1>2, <2>1, <2>2, <2>3, <2>5 DEF SessionsRefer
    <2>7. CASE task[t].op = "new"
        <3>1. task' = [task EXCEPT ![t] = Idle]
            BY <2>1, <2>7 DEF Found
        <3>2. RowTypes'
            BY <1>2, <2>2, <2>4, <3>1, IdleElsewhere DEF RowTypes, Elsewhere
        <3>3. \A x \in Tasks : task'[x] = task[x] \/ task'[x].pc = "idle"
            BY <3>1 DEF RowTypes, Idle
        <3>4. \A x \in Tasks : Known(x)'
            BY <3>3 DEF Known
        <3>5. ASSUME NEW x \in Tasks, task'[x].pc = "reread" PROVE Linked(x)'
            <4>1. task'[x] = task[x]
                BY <3>3, <3>5
            <4>2. PICK k \in Nat : /\ task[x].sess = {k} /\ k <= made.sessions
                                   /\ \A q \in session : q.id = k => task[x].user = {q.user}
                BY <3>5, <4>1 DEF Linked
            <4>3. \A q \in session' : q.id = k => q \in session
                BY <2>1, <2>2, <4>2
            <4> QED BY <2>2, <4>1, <4>2, <4>3 DEF Linked
        <3> QED BY <2>6, <3>2, <3>4, <3>5 DEF Linked
    <2>8. CASE task[t].op # "new"
        <3> DEFINE r == [task[t] EXCEPT !.pc = "reread", !.sess = {s.id}, !.first = (s.conv = {})]
        <3>1. r \in Task /\ r.pc = "reread" /\ r.user = {u} /\ r.sess = {s.id} /\ s.user = u
            <4>1. task[t] \in Task /\ (s.conv = {}) \in BOOLEAN
                BY DEF RowTypes
            <4>2. s.id \in Nat /\ s.user = u
                BY <2>2
            <4> HIDE DEF s
            <4>3. PICK b \in BOOLEAN : b = (s.conv = {})
                BY <4>1, Zenon
            <4>4. r = [task[t] EXCEPT !.pc = "reread", !.sess = {s.id}, !.first = b]
                BY <4>3, Zenon
            <4> HIDE DEF r
            <4>5. r \in Task /\ r.pc = "reread" /\ r.user = task[t].user /\ r.sess = {s.id}
                BY <4>1, <4>2, <4>4 DEF Task, PCs
            <4> QED BY <1>1, <4>2, <4>5
        <3>2. task' = [task EXCEPT ![t] = r]
            BY <2>1, <2>8 DEF Found
        <3>3. s \in session' /\ s.id > made.sessions
            BY <2>1, <2>2
        <3>4. \A q \in session' : q \in session \/ q.id > made.sessions
            BY <2>1, <3>3
        <3> HIDE DEF r, s
        <3>5. RowTypes'
            BY <1>2, <2>2, <2>4, <3>1, <3>2 DEF RowTypes
        <3>6. made'.sessions >= made.sessions
            BY <2>2
        <3> QED BY <2>6, <3>1, <3>2, <3>3, <3>4, <3>5, <3>6, FoundKeeps
    <2> QED BY <2>7, <2>8
<1> QED BY <1>3, <1>4

\* A message from its session to its end (handle_dispatched).
LEMMA DispatchKeeps ==
    ASSUME AuthInv, NEW t \in Tasks,
           Reread(t) \/ CreateConversation(t) \/ Send(t) \/ SendFails(t) \/ Bind(t)
    PROVE  AuthInv'
<1> USE DEF AuthInv
<1> DEFINE Made == [users : Nat, sessions : Nat, convs : Nat, codes : Nat]
<1>1. CASE Reread(t)
    <2>1. UNCHANGED <<made, user, session>> /\ made' \in Made
        BY <1>1 DEF Reread, pairings, chats, RowTypes
    <2>2. CASE End(t)
        BY <2>1, <2>2, EndKeeps
    <2>3. ASSUME NEW s \in session,
                 task' = [task EXCEPT ![t].conv = s.conv,
                                      ![t].pc = IF s.conv = {} THEN "converse" ELSE "send"]
          PROVE  AuthInv'
        <3>1. PICK p \in {"converse", "send"} : task' = [task EXCEPT ![t].conv = s.conv, ![t].pc = p]
            BY <2>3
        <3> DEFINE r == [task[t] EXCEPT !.conv = s.conv, !.pc = p]
        <3>2. Elsewhere(r)
            <4>1. task[t] \in Task /\ p \in PCs
                BY DEF RowTypes, PCs
            <4>2. s.conv \in SUBSET Nat
                BY <2>3 DEF RowTypes
            <4> QED BY <4>1, <4>2 DEF Elsewhere, Task
        <3>3. task' = [task EXCEPT ![t] = r]
            BY <3>1 DEF RowTypes, Task
        <3> HIDE DEF r
        <3> QED BY <2>1, <3>2, <3>3, GoKeeps
    <2> QED BY <1>1, <2>2, <2>3 DEF Reread
<1>2. CASE CreateConversation(t)
    <2> DEFINE c == made.convs + 1
               r == [task[t] EXCEPT !.conv = {c}, !.pc = "send"]
    <2>1. made.convs \in Nat /\ task[t] \in Task
        BY DEF RowTypes
    <2>2. Elsewhere(r)
        <3>1. c \in Nat
            BY <2>1
        <3> HIDE DEF c
        <3> QED BY <2>1, <3>1 DEF Elsewhere, Task, PCs
    <2>3. task' = [task EXCEPT ![t] = r] /\ UNCHANGED <<user, session>>
        BY <1>2 DEF CreateConversation, pairings, RowTypes, Task
    <2>4. made' \in Made /\ made'.sessions = made.sessions
        BY <1>2, <2>1 DEF CreateConversation, RowTypes
    <2> HIDE DEF r
    <2> QED BY <2>2, <2>3, <2>4, GoKeeps
<1>3. CASE Send(t)
    <2>1. UNCHANGED <<made, user, session>> /\ made' \in Made
        BY <1>3 DEF Send, pairings, RowTypes
    <2>2. CASE End(t)
        BY <2>1, <2>2, EndKeeps
    <2>3. CASE Goto(t, "bind")
        <3> DEFINE r == [task[t] EXCEPT !.pc = "bind"]
        <3>1. Elsewhere(r)
            BY DEF Elsewhere, Task, PCs, RowTypes
        <3>2. task' = [task EXCEPT ![t] = r]
            BY <2>3 DEF Goto, RowTypes, Task
        <3> HIDE DEF r
        <3> QED BY <2>1, <3>1, <3>2, GoKeeps
    <2> QED BY <1>3, <2>2, <2>3 DEF Send
<1>4. CASE SendFails(t)
    BY <1>4, EndKeeps DEF SendFails, pairings, chats
<1>5. CASE Bind(t)
    <2>1. task' = [task EXCEPT ![t] = Idle] /\ UNCHANGED <<made, user>>
        BY <1>5 DEF Bind, End, pairings
    <2>2. task[t].conv \in SUBSET Nat
        BY DEF RowTypes, Task
    <2>3. CASE session' = session
        BY <2>1, <2>3, EndKeeps DEF End
    <2>4. CASE session' = {IF task[t].sess = {s.id} THEN [s EXCEPT !.conv = task[t].conv] ELSE s
                           : s \in session}
        <3>1. ASSUME NEW q \in session'
              PROVE  /\ q \in [id : Nat, user : Nat, conv : SUBSET Nat]
                     /\ \E s \in session : s.id = q.id /\ s.user = q.user
            <4>1. PICK s \in session :
                      q = IF task[t].sess = {s.id} THEN [s EXCEPT !.conv = task[t].conv] ELSE s
                BY <2>4, <3>1
            <4> QED BY <2>2, <4>1 DEF RowTypes
        <3>2. \A q \in session' : q.user \in user'
            BY <2>1, <3>1 DEF SessionsRefer
        <3> QED BY <2>1, <3>1, <3>2, IdleElsewhere, ElsewhereKeeps DEF RowTypes
    <2> QED BY <1>5, <2>3, <2>4 DEF Bind
<1> QED BY <1>1, <1>2, <1>3, <1>4, <1>5

\* A request of the administrator that arrives, and one about a code (approve_pairing,
\* reject_pairing).
LEMMA PairingKeeps ==
    ASSUME AuthInv, NEW t \in Tasks,
           \/ \E op \in {"approve", "reject"}, c \in Ids : AskPairing(t, op, c)
           \/ \E u \in UserIds : AskRevoke(t, u)
           \/ AskSync(t) \/ Check(t) \/ Grant(t)
           \/ Conclude(t, "lapse", "expired") \/ Conclude(t, "approve", "approved")
           \/ Conclude(t, "reject", "rejected")
    PROVE  AuthInv'
<1> USE DEF AuthInv
<1> DEFINE Made == [users : Nat, sessions : Nat, convs : Nat, codes : Nat]
<1>1. ASSUME NEW op \in {"approve", "reject", "revoke", "sync"}, NEW pc \in {"check", "clean", "list"},
             NEW cs \in SUBSET Ids, NEW us \in SUBSET Nat, Ask(t, op, pc, cs, us)
      PROVE  AuthInv'
    <2> DEFINE r == [Idle EXCEPT !.op = op, !.pc = pc, !.codes = cs, !.user = us]
    <2>1. Elsewhere(r)
        BY DEF Elsewhere, Idle, Task, PCs, PairingPCs
    <2>2. task' = [task EXCEPT ![t] = r] /\ UNCHANGED <<made, user, session>>
        BY <1>1 DEF Ask, pairings, chats
    <2>3. made' \in Made
        BY <2>2 DEF RowTypes
    <2> HIDE DEF r
    <2> QED BY <2>1, <2>2, <2>3, GoKeeps
<1>2. ASSUME NEW op \in {"approve", "reject"}, NEW c \in Ids, AskPairing(t, op, c) PROVE AuthInv'
    BY <1>1, <1>2 DEF AskPairing
<1>3. ASSUME NEW u \in UserIds, AskRevoke(t, u) PROVE AuthInv'
    BY <1>1, <1>3, ChatsAssumption DEF AskRevoke, UserIds
<1>4. CASE AskSync(t)
    BY <1>1, <1>4 DEF AskSync
<1>5. ASSUME NEW p \in {"lapse", "grant", "reject", "approve"}, Goto(t, p), made' \in Made,
             made'.sessions = made.sessions, session' = session,
             user' = user \/ (user = {} /\ \E u \in Nat : user' = {u})
      PROVE  AuthInv'
    <2> DEFINE r == [task[t] EXCEPT !.pc = p]
    <2>1. Elsewhere(r)
        BY DEF Elsewhere, Task, PCs, PairingPCs, RowTypes
    <2>2. task' = [task EXCEPT ![t] = r]
        BY <1>5 DEF Goto, RowTypes, Task
    <2>3. user' = {} \/ \E u \in Nat : user' = {u}
        BY <1>5 DEF RowTypes
    <2>4. \A s \in session' : s.user \in user'
        BY <1>5 DEF SessionsRefer
    <2>5. session' \in SUBSET [id : Nat, user : Nat, conv : SUBSET Nat]
        BY <1>5 DEF RowTypes
    <2> HIDE DEF r
    <2> QED BY <1>5, <2>1, <2>2, <2>3, <2>4, <2>5, ElsewhereKeeps
<1>6. CASE Check(t)
    <2>1. UNCHANGED <<made, user, session>> /\ made' \in Made
        BY <1>6 DEF Check, pairings, chats, RowTypes
    <2>2. End(t) \/ \E p \in {"lapse", "grant", "reject"} : Goto(t, p)
        BY <1>6 DEF Check
    <2> QED BY <1>5, <2>1, <2>2, EndKeeps
<1>7. CASE Grant(t)
    <2>1. CASE user # {}
        <3>1. End(t) /\ UNCHANGED <<made, user, session>>
            BY <1>7, <2>1 DEF Grant, chats
        <3> QED BY <3>1, EndKeeps
    <2>2. CASE user = {}
        <3>1. /\ user' = {made.users + 1} /\ made' = [made EXCEPT !.users = made.users + 1]
              /\ Goto(t, "approve") /\ session' = session
            BY <1>7, <2>2 DEF Grant, chats
        <3>2. made.users + 1 \in Nat /\ made' \in Made /\ made'.sessions = made.sessions
            BY <3>1 DEF RowTypes
        <3> QED BY <1>5, <2>2, <3>1, <3>2
    <2> QED BY <2>1, <2>2
<1>8. ASSUME NEW pc, NEW status, Conclude(t, pc, status) PROVE AuthInv'
    BY <1>8, EndKeeps DEF Conclude, chats
<1> QED BY <1>2, <1>3, <1>4, <1>6, <1>7, <1>8

\* The end of users and their sessions (revoke_user, sync_channel_settings).
LEMMA RevocationKeeps ==
    ASSUME AuthInv, NEW t \in Tasks,
           CleanSessions(t) \/ DeleteUser(t) \/ ListSessions(t) \/ ClearSessions(t)
    PROVE  AuthInv'
<1> USE DEF AuthInv
<1>1. CASE CleanSessions(t)
    <2> DEFINE r == [task[t] EXCEPT !.pc = "revoke"]
    <2>1. Elsewhere(r)
        BY DEF Elsewhere, Task, PCs, RowTypes
    <2>2. task' = [task EXCEPT ![t] = r]
        BY <1>1 DEF CleanSessions, Goto, RowTypes, Task
    <2> HIDE DEF r
    <2> QED BY <1>1, <2>1, <2>2, ElsewhereKeeps DEF CleanSessions, pairings, RowTypes, SessionsRefer
<1>2. CASE DeleteUser(t)
    <2>1. user' = user \ task[t].user /\ made' = made
          /\ session' = {s \in session : s.user \notin task[t].user}
          /\ task' = [task EXCEPT ![t] = Idle]
        BY <1>2 DEF DeleteUser, End
    <2>2. user' = {} \/ \E u \in Nat : user' = {u}
        BY <2>1 DEF RowTypes
    <2>3. \A s \in session' : s \in session /\ s.user \in user'
        BY <2>1 DEF SessionsRefer
    <2> QED BY <2>1, <2>2, <2>3, IdleElsewhere, ElsewhereKeeps DEF RowTypes
<1>3. CASE ListSessions(t)
    <2> DEFINE us == {s.user : s \in session}
               r == [task[t] EXCEPT !.user = us, !.pc = "clear"]
    <2>1. Elsewhere(r)
        <3>1. us \in SUBSET Nat
            BY DEF RowTypes
        <3> HIDE DEF us
        <3> QED BY <3>1 DEF Elsewhere, Task, PCs, RowTypes
    <2>2. task' = [task EXCEPT ![t] = r] /\ UNCHANGED <<made, user, session>>
        BY <1>3 DEF ListSessions, pairings, chats, RowTypes, Task
    <2>3. made' \in [users : Nat, sessions : Nat, convs : Nat, codes : Nat]
        BY <2>2 DEF RowTypes
    <2> HIDE DEF r
    <2> QED BY <2>1, <2>2, <2>3, GoKeeps
<1>4. CASE ClearSessions(t)
    BY <1>4, IdleElsewhere, ElsewhereKeeps
       DEF ClearSessions, End, pairings, RowTypes, SessionsRefer
<1> QED BY <1>1, <1>2, <1>3, <1>4

\* Every step keeps the sessions tied to their users.
LEMMA AuthStep == AuthInv /\ [Next]_vars => AuthInv'
<1> SUFFICES ASSUME AuthInv, [Next]_vars PROVE AuthInv'
    OBVIOUS
<1>1. ASSUME NEW t \in Messages, MessageStep(t) PROVE AuthInv'
    <2>1. t \in Tasks
        BY DEF Tasks
    <2> QED BY <1>1, <2>1, AuthorizationKeeps, FindKeeps, InsertKeeps, DispatchKeeps DEF MessageStep
<1>2. ASSUME NEW t \in Admins, AdminStep(t) PROVE AuthInv'
    <2>1. t \in Tasks
        BY DEF Tasks
    <2> QED BY <1>2, <2>1, PairingKeeps, RevocationKeeps DEF AdminStep
<1>3. CASE Age \/ Cleanup
    BY <1>3, RowsKeep DEF Age, Cleanup, chats, AuthInv, RowTypes
<1>4. ASSUME NEW c \in Ids, DeleteConversation(c) PROVE AuthInv'
    BY <1>4, RowsKeep DEF DeleteConversation, pairings, AuthInv, RowTypes
<1>5. ASSUME NEW t \in Tasks, CutOff(t) PROVE AuthInv'
    BY <1>5, EndKeeps DEF CutOff, pairings, chats
<1>6. CASE UNCHANGED vars
    BY <1>6, RowsKeep DEF vars, pairings, chats, AuthInv, RowTypes
<1> QED BY <1>1, <1>2, <1>3, <1>4, <1>5, <1>6 DEF Next

\* In every reachable state a task's session tells the task's user.
LEMMA AuthAlways == Spec => []AuthInv
BY AuthInit, AuthStep, PTL DEF Spec

\* A step of one task leaves the other tasks where they are.
LEMMA OthersStay ==
    ASSUME RowTypes, NEW x \in Tasks, NEW y \in Tasks, x # y,
           MessageStep(x) \/ AdminStep(x) \/ CutOff(x)
    PROVE  task'[y] = task[y]
<1> USE DEF RowTypes, Goto, End
<1>1. CASE MessageStep(x)
    BY <1>1 DEF MessageStep, Arrive, Authorize, ReadPending, Expire, CreatePairing,
                DeleteSessions, FindSession, InsertSession, Reread, CreateConversation,
                Send, SendFails, Bind
<1>2. CASE AdminStep(x)
    BY <1>2 DEF AdminStep, AskPairing, AskRevoke, AskSync, Ask, Check, Grant, Conclude,
                CleanSessions, DeleteUser, ListSessions, ClearSessions
<1>3. CASE CutOff(x)
    BY <1>3 DEF CutOff
<1> QED BY <1>1, <1>2, <1>3

\* Only the second look at the session (the reload in handle_dispatched) takes a
\* message on to the conversation.
LEMMA OnlyRereadGoesOn ==
    ASSUME NEW t \in Tasks, RowTypes, task[t].pc = "reread", task'[t].pc \in {"converse", "send"},
           MessageStep(t) \/ AdminStep(t) \/ CutOff(t)
    PROVE  Reread(t)
<1>1. task[t] # Idle
    BY DEF Idle
<1>2. ~End(t)
    BY DEF End, Idle, RowTypes
<1>3. CASE MessageStep(t)
    <2>1. ~\E op \in Kinds : Arrive(t, op)
        BY <1>1 DEF Arrive
    <2>2. ~(Authorize(t) \/ ReadPending(t) \/ Expire(t) \/ CreatePairing(t) \/ DeleteSessions(t))
        BY DEF Authorize, ReadPending, Expire, CreatePairing, DeleteSessions
    <2>3. ~(FindSession(t) \/ InsertSession(t) \/ CreateConversation(t) \/ Send(t)
            \/ SendFails(t) \/ Bind(t))
        BY DEF FindSession, InsertSession, CreateConversation, Send, SendFails, Bind
    <2> QED BY <1>3, <2>1, <2>2, <2>3 DEF MessageStep
<1>4. CASE AdminStep(t)
    <2>1. \A op, pc, cs, us : ~Ask(t, op, pc, cs, us)
        BY <1>1 DEF Ask
    <2>2. ~(Check(t) \/ Grant(t) \/ Conclude(t, "lapse", "expired")
            \/ Conclude(t, "approve", "approved") \/ Conclude(t, "reject", "rejected"))
        BY DEF Check, Grant, Conclude
    <2>3. ~(CleanSessions(t) \/ DeleteUser(t) \/ ListSessions(t) \/ ClearSessions(t))
        BY DEF CleanSessions, DeleteUser, ListSessions, ClearSessions
    <2> QED BY <1>4, <2>1, <2>2, <2>3 DEF AdminStep, AskPairing, AskRevoke, AskSync
<1> QED BY <1>2, <1>3, <1>4 DEF CutOff

\* A message goes on to the agent only while its sender is authorized, whatever
\* revocations run beside it: handle_dispatched drops a message whose session is gone,
\* and no session outlives its user.
THEOREM OnlyAuthorizedAlways == Spec => OnlyAuthorizedReachAgent
<1>1. ASSUME AuthInv, [Next]_vars, NEW t \in Tasks,
             task[t].pc = "reread", task'[t].pc \in {"converse", "send"}
      PROVE  task[t].user \subseteq user
    <2> USE DEF AuthInv
    <2>1. ~(Age \/ Cleanup \/ (\E c \in Ids : DeleteConversation(c)) \/ UNCHANGED vars)
        BY <1>1 DEF Age, Cleanup, DeleteConversation, vars
    <2>2. PICK x \in Tasks : MessageStep(x) \/ AdminStep(x) \/ CutOff(x)
        BY <1>1, <2>1 DEF Next, Tasks
    <2>3. x = t
        BY <1>1, <2>2, OthersStay
    <2>4. Reread(t)
        BY <1>1, <2>2, <2>3, OnlyRereadGoesOn
    <2>5. PICK s \in session : task[t].sess = {s.id}
        <3>1. ~End(t)
            BY <1>1 DEF End, Idle, RowTypes
        <3> QED BY <2>4, <3>1, Zenon DEF Reread
    <2>6. task[t].user = {s.user}
        BY <1>1, <2>5 DEF Linked
    <2> QED BY <1>1, <2>6 DEF SessionsRefer
<1>2. AuthInv /\ [Next]_vars =>
          [\A t \in Tasks : task[t].pc = "reread" /\ task'[t].pc \in {"converse", "send"}
                            => task[t].user \subseteq user]_vars
    BY <1>1
<1> QED BY <1>2, AuthAlways, PTL DEF Spec, OnlyAuthorizedReachAgent

-----------------------------------------------------------------------------
(* What a step does to its task, field by field. *)

\* The task of a step goes on with all it knows, at another statement.
LEMMA GotoIs ==
    ASSUME RowTypes, NEW t \in Tasks, NEW pc, Goto(t, pc)
    PROVE  /\ task'[t] = [task[t] EXCEPT !.pc = pc]
           /\ task'[t].pc = pc
           /\ task'[t].op = task[t].op /\ task'[t].user = task[t].user
           /\ task'[t].sess = task[t].sess /\ task'[t].conv = task[t].conv
           /\ task'[t].first = task[t].first /\ task'[t].codes = task[t].codes
BY DEF Goto, RowTypes, Task

\* It ends.
LEMMA EndIs ==
    ASSUME RowTypes, NEW t \in Tasks, End(t)
    PROVE  /\ task'[t] = Idle
           /\ task'[t].op = "none" /\ task'[t].pc = "idle" /\ task'[t].user = {} /\ task'[t].sess = {}
           /\ task'[t].conv = {} /\ task'[t].first = FALSE /\ task'[t].codes = {}
BY DEF End, RowTypes, Idle

\* It begins.
LEMMA ArriveIs ==
    ASSUME RowTypes, NEW t \in Tasks, NEW op \in Kinds, Arrive(t, op)
    PROVE  /\ task[t].pc = "idle" /\ task'[t].pc = "auth" /\ task'[t].op = op
           /\ task'[t].user = {} /\ task'[t].sess = {} /\ task'[t].conv = {}
           /\ task'[t].first = FALSE /\ task'[t].codes = {}
BY DEF Arrive, RowTypes, Idle

\* So does a request.
LEMMA AskIs ==
    ASSUME RowTypes, NEW t \in Tasks, NEW op, NEW pc, NEW cs, NEW us, Ask(t, op, pc, cs, us)
    PROVE  /\ task[t].pc = "idle" /\ task'[t].pc = pc /\ task'[t].op = op
           /\ task'[t].user = us /\ task'[t].sess = {} /\ task'[t].conv = {}
           /\ task'[t].first = FALSE /\ task'[t].codes = cs
BY DEF Ask, RowTypes, Idle

\* It is authorized or not,
LEMMA AuthorizeIs ==
    ASSUME RowTypes, NEW t \in Tasks, Authorize(t)
    PROVE  /\ task[t].pc = "auth" /\ task'[t].pc \in {"pending", "find", "delete"}
           /\ task'[t].pc = "pending" => StartPairing(t)
           /\ task'[t].pc # "pending" => UNCHANGED raced
           /\ task'[t].op = task[t].op /\ task'[t].user = user
           /\ task'[t].sess = task[t].sess /\ task'[t].conv = task[t].conv
           /\ task'[t].first = task[t].first /\ task'[t].codes = task[t].codes
BY DEF Authorize, RowTypes, Task

\* reads the pending codes,
LEMMA ReadPendingIs ==
    ASSUME RowTypes, NEW t \in Tasks, ReadPending(t)
    PROVE  /\ task[t].pc = "pending" /\ task'[t].pc = "expire"
           /\ task'[t].codes = {c \in Ids : Pending(c)}
           /\ task'[t].op = task[t].op /\ task'[t].user = task[t].user
           /\ task'[t].sess = task[t].sess /\ task'[t].conv = task[t].conv
           /\ task'[t].first = task[t].first
<1>1. task[t] \in Task /\ task' = [task EXCEPT ![t].codes = {c \in Ids : Pending(c)}, ![t].pc = "expire"]
    BY DEF ReadPending, RowTypes
<1> DEFINE cs == {c \in Ids : Pending(c)}
<1> HIDE DEF cs
<1>2. task' = [task EXCEPT ![t].codes = cs, ![t].pc = "expire"]
    BY <1>1 DEF cs
<1>3. /\ task'[t].pc = "expire"
      /\ task'[t].codes = cs
      /\ task'[t].op = task[t].op /\ task'[t].user = task[t].user
      /\ task'[t].sess = task[t].sess /\ task'[t].conv = task[t].conv
      /\ task'[t].first = task[t].first
    BY <1>1, <1>2 DEF RowTypes, Task
<1> QED BY <1>3 DEF ReadPending, cs

\* marks one of them,
LEMMA ExpireIs ==
    ASSUME RowTypes, NEW t \in Tasks, NEW c,
           task' = [task EXCEPT ![t].codes = task[t].codes \ {c}]
    PROVE  /\ task'[t].pc = task[t].pc
           /\ task'[t].codes = task[t].codes \ {c}
           /\ task'[t].op = task[t].op /\ task'[t].user = task[t].user
           /\ task'[t].sess = task[t].sess /\ task'[t].conv = task[t].conv
           /\ task'[t].first = task[t].first
BY DEF RowTypes, Task

\* goes on with a session,
LEMMA FoundIs ==
    ASSUME RowTypes, NEW t \in Tasks, NEW s, task' = [task EXCEPT ![t] = Found(t, s)]
    PROVE  \/ End(t)
           \/ /\ task[t].op # "new"
              /\ task'[t].pc = "reread" /\ task'[t].sess = {s.id} /\ task'[t].first = (s.conv = {})
              /\ task'[t].op = task[t].op /\ task'[t].user = task[t].user
              /\ task'[t].conv = task[t].conv /\ task'[t].codes = task[t].codes
<1>1. CASE task[t].op = "new"
    BY <1>1 DEF Found, End
<1>2. CASE task[t].op # "new"
    <2>0. (s.conv = {}) \in BOOLEAN
        OBVIOUS
    <2>1. PICK b \in BOOLEAN : b = (s.conv = {})
        BY <2>0, Zenon
    <2>2. task' = [task EXCEPT ![t] = [task[t] EXCEPT !.pc = "reread", !.sess = {s.id}, !.first = b]]
        BY <1>2, <2>1, Zenon DEF Found
    <2> DEFINE r == [task[t] EXCEPT !.pc = "reread", !.sess = {s.id}, !.first = b]
    <2>3. task[t] \in Task /\ task'[t] = r
        BY <2>2 DEF RowTypes
    <2>4. /\ r.pc = "reread" /\ r.sess = {s.id} /\ r.first = b
          /\ r.op = task[t].op /\ r.user = task[t].user
          /\ r.conv = task[t].conv /\ r.codes = task[t].codes
        BY <2>3 DEF Task
    <2> HIDE DEF r
    <2>5. /\ task'[t].pc = "reread" /\ task'[t].sess = {s.id} /\ task'[t].first = b
          /\ task'[t].op = task[t].op /\ task'[t].user = task[t].user
          /\ task'[t].conv = task[t].conv /\ task'[t].codes = task[t].codes
        BY <2>3, <2>4
    <2> QED BY <1>2, <2>1, <2>5, Zenon
<1> QED BY <1>1, <1>2

\* and with a conversation.
LEMMA ConverseIs ==
    ASSUME RowTypes, NEW t \in Tasks, NEW c, NEW pc, task' = [task EXCEPT ![t].conv = c, ![t].pc = pc]
    PROVE  /\ task'[t].pc = pc /\ task'[t].conv = c
           /\ task'[t].op = task[t].op /\ task'[t].user = task[t].user
           /\ task'[t].sess = task[t].sess /\ task'[t].first = task[t].first
           /\ task'[t].codes = task[t].codes
BY DEF RowTypes, Task

\* clear_all_sessions: the users are on the list.
LEMMA ListIs ==
    ASSUME RowTypes, NEW t \in Tasks, NEW us, NEW pc, task' = [task EXCEPT ![t].user = us, ![t].pc = pc]
    PROVE  /\ task'[t].pc = pc /\ task'[t].user = us
           /\ task'[t].op = task[t].op /\ task'[t].conv = task[t].conv
           /\ task'[t].sess = task[t].sess /\ task'[t].first = task[t].first
           /\ task'[t].codes = task[t].codes
BY DEF RowTypes, Task

-----------------------------------------------------------------------------
(* The person's pairing. While the tasks about it do not overlap, one task   *)
(* at most is between the read of a code and the write of its status: the    *)
(* invariant says what that task relies on since its read.                   *)

\* A task about a code that the administrator named.
OnOneCode(t) ==
    task[t].pc \in {"check", "grant", "lapse", "reject", "approve"} => \E c \in Ids : task[t].codes = {c}

\* Codes and grants are numbered as they are made.
CodeTypes ==
    /\ code \in [Ids -> [status : Statuses, old : BOOLEAN]]
    /\ granted \in [Ids -> Nat]
    /\ raced \in SUBSET {"pairing", "session"}
    /\ \A c \in Ids : c > made.codes => code[c].status = "unmade"
    /\ \A t \in Tasks : \A c \in task[t].codes : c <= made.codes
    /\ \A t \in Tasks : OnOneCode(t)

\* The user is written before the status.
ApprovedGranted ==
    /\ \A c \in Ids : code[c].status = "approved" => granted[c] > 0
    /\ \A t \in Tasks : task[t].pc = "approve" => \A c \in task[t].codes : granted[c] > 0

OnePairing == \A s, t \in Tasks : Pairing(s) /\ Pairing(t) => s = t
OnePending == \A c, d \in Ids : Pending(c) /\ Pending(d) => c = d

\* A code that authorized is approved, or is about to be.
GrantedOnce ==
    /\ \A c \in Ids : granted[c] <= 1
    /\ \A c \in Ids : granted[c] = 1 =>
          \/ code[c].status = "approved"
          \/ \E t \in Tasks : task[t].pc = "approve" /\ c \in task[t].codes

\* The codes a task is to mark as anything but approved have authorized nobody,
\* and a task that makes a code has the pending one on its list.
MarksSafely(t) ==
    /\ task[t].pc \in {"expire", "grant", "lapse", "reject"} => \A c \in task[t].codes : granted[c] = 0
    /\ task[t].pc = "expire" => \A c \in Ids : Pending(c) => c \in task[t].codes

PairInv ==
    /\ CodeTypes
    /\ ApprovedGranted
    /\ "pairing" \notin raced =>
          OnePairing /\ OnePending /\ GrantedOnce /\ \A t \in Tasks : MarksSafely(t)

\* Nothing is paired at first.
LEMMA PairInit == Init => PairInv
<1> SUFFICES ASSUME Init PROVE PairInv
    OBVIOUS
<1> USE DEF Init
<1>1. CodeTypes
    <2>1. made.codes = 0 /\ \A t \in Tasks : task[t] = Idle
        OBVIOUS
    <2>2. code \in [Ids -> [status : Statuses, old : BOOLEAN]] /\ granted \in [Ids -> Nat]
        BY DEF Statuses
    <2> QED BY <2>1, <2>2 DEF CodeTypes, OnOneCode, Idle
<1>2. ApprovedGranted
    BY DEF ApprovedGranted, Idle
<1>3. OnePairing /\ OnePending
    BY DEF OnePairing, OnePending, Pairing, PairingPCs, Pending, Idle
<1>4. GrantedOnce /\ \A t \in Tasks : MarksSafely(t)
    BY DEF GrantedOnce, MarksSafely, Idle
<1> QED BY <1>1, <1>2, <1>3, <1>4 DEF PairInv

\* A step that writes no code and takes no task into pairing: a task that leaves
\* pairing leaves no authorized code behind, unless the cut-off says so.
LEMMA QuietKeepsPairing ==
    ASSUME PairInv, UNCHANGED <<code, granted>>, made'.codes = made.codes,
           raced' \in SUBSET {"pairing", "session"}, "pairing" \in raced => "pairing" \in raced',
           \A x \in Tasks :
              \/ task'[x].pc = task[x].pc /\ task'[x].codes = task[x].codes
              \/ /\ task'[x].pc \notin PairingPCs
                 /\ task'[x].codes \subseteq task[x].codes
                 /\ task[x].pc = "approve" => "pairing" \in raced'
    PROVE  PairInv'
<1> USE DEF PairInv, PairingPCs
<1>1. CodeTypes'
    BY DEF CodeTypes, OnOneCode
<1>2. ApprovedGranted'
    BY DEF ApprovedGranted
<1>3. ASSUME "pairing" \notin raced'
      PROVE  OnePairing' /\ OnePending' /\ GrantedOnce' /\ \A t \in Tasks : MarksSafely(t)'
    <2>1. OnePairing'
        BY <1>3 DEF OnePairing, Pairing
    <2>2. OnePending'
        BY <1>3 DEF OnePending, Pending
    <2>3. GrantedOnce'
        BY <1>3 DEF GrantedOnce
    <2>4. ASSUME NEW t \in Tasks PROVE MarksSafely(t)'
        BY <1>3 DEF MarksSafely, Pending
    <2> QED BY <2>1, <2>2, <2>3, <2>4
<1> QED BY <1>1, <1>2, <1>3

\* A task enters pairing: alone, or the overlap is noted.
LEMMA StartKeepsPairing ==
    ASSUME PairInv, RowTypes, NEW t \in Tasks, UNCHANGED <<code, granted>>, made'.codes = made.codes,
           ~Pairing(t), StartPairing(t), \A x \in Tasks : x # t => task'[x] = task[x],
           task'[t].pc \in {"pending", "check"}, \A c \in task'[t].codes : c <= made.codes,
           task'[t].pc = "check" => \E c \in Ids : task'[t].codes = {c}
    PROVE  PairInv'
<1> USE DEF PairInv, PairingPCs
<1>1. raced' \in SUBSET {"pairing", "session"} /\ ("pairing" \in raced => "pairing" \in raced')
    BY DEF StartPairing, CodeTypes
<1>2. CodeTypes'
    BY <1>1 DEF CodeTypes, OnOneCode
<1>3. ApprovedGranted'
    BY DEF ApprovedGranted
<1>4. ASSUME "pairing" \notin raced'
      PROVE  OnePairing' /\ OnePending' /\ GrantedOnce' /\ \A x \in Tasks : MarksSafely(x)'
    <2>1. "pairing" \notin raced /\ \A s \in Tasks : s # t => ~Pairing(s)
        BY <1>1, <1>4 DEF StartPairing
    <2>2. OnePairing'
        BY <2>1 DEF OnePairing, Pairing
    <2>3. OnePending'
        BY <2>1 DEF OnePending, Pending
    <2>4. GrantedOnce'
        BY <2>1 DEF GrantedOnce, Pairing
    <2>5. ASSUME NEW x \in Tasks PROVE MarksSafely(x)'
        BY <2>1 DEF MarksSafely, Pending
    <2> QED BY <2>2, <2>3, <2>4, <2>5
<1> QED BY <1>2, <1>3, <1>4

\* While nothing races, no other task is about the pairing.
LEMMA PairingAlone ==
    ASSUME PairInv, "pairing" \notin raced, NEW t \in Tasks, Pairing(t), NEW x \in Tasks, x # t
    PROVE  task[x].pc \notin PairingPCs
BY DEF PairInv, OnePairing, Pairing

\* What the code's steps must show of their task and of the codes they write.
LEMMA CodesKeepTypes ==
    ASSUME CodeTypes, RowTypes, NEW t \in Tasks, \A x \in Tasks : x # t => task'[x] = task[x],
           made'.codes \in Nat, made.codes <= made'.codes,
           code' \in [Ids -> [status : Statuses, old : BOOLEAN]],
           granted' \in [Ids -> Nat], raced' \in SUBSET {"pairing", "session"},
           \A c \in Ids : c > made'.codes => code'[c].status = code[c].status,
           \A c \in task'[t].codes : c <= made'.codes,
           task'[t].pc \in {"check", "grant", "lapse", "reject", "approve"} =>
               \E c \in Ids : task'[t].codes = {c}
    PROVE  CodeTypes'
<1>1. made.codes \in Nat
    BY DEF RowTypes
<1>2. \A c \in Ids : c > made'.codes => code'[c].status = "unmade"
    BY <1>1 DEF CodeTypes, Ids
<1>3. ASSUME NEW x \in Tasks, NEW c \in task'[x].codes PROVE c <= made'.codes
    <2>1. CASE x = t
        BY <1>3, <2>1
    <2>2. CASE x # t
        <3>1. c \in task[x].codes /\ c \in Ids /\ c <= made.codes
            BY <1>3, <2>2 DEF CodeTypes, RowTypes, Task
        <3> QED BY <1>1, <3>1 DEF Ids
    <2> QED BY <2>1, <2>2
<1>4. ASSUME NEW x \in Tasks PROVE OnOneCode(x)'
    BY DEF CodeTypes, OnOneCode
<1> QED BY <1>2, <1>3, <1>4 DEF CodeTypes

\* request_pairing: the pending codes are read, expired, and a new one is made.
LEMMA RequestKeepsPairing ==
    ASSUME PairInv, RowTypes, NEW t \in Tasks, \A x \in Tasks : x # t => task'[x] = task[x],
           ReadPending(t) \/ Expire(t) \/ CreatePairing(t)
    PROVE  PairInv'
<1> USE DEF PairInv
<1>0. Pairing(t) /\ raced' = raced
    BY DEF ReadPending, Expire, CreatePairing, Pairing, PairingPCs
<1>1. CASE ReadPending(t)
    <2>0. /\ task[t].pc = "pending" /\ task'[t].pc = "expire"
          /\ task'[t].codes = {c \in Ids : Pending(c)}
          /\ UNCHANGED <<code, granted, made>>
        BY <1>1, ReadPendingIs DEF ReadPending, pairings
    <2>1. CodeTypes'
        <3>1. made.codes \in Nat
            BY DEF RowTypes
        <3>2. \A c \in task'[t].codes : c <= made.codes
            BY <2>0, <3>1 DEF CodeTypes, Pending, Ids
        <3> QED BY <1>0, <2>0, <3>1, <3>2, CodesKeepTypes DEF CodeTypes
    <2>2. ApprovedGranted'
        BY <2>0 DEF ApprovedGranted
    <2>3. ASSUME "pairing" \notin raced
          PROVE  OnePairing' /\ OnePending' /\ GrantedOnce' /\ \A x \in Tasks : MarksSafely(x)'
        <3>1. \A x \in Tasks : x # t => task[x].pc \notin PairingPCs
            BY <1>0, <2>3, PairingAlone
        <3>2. OnePairing' /\ OnePending'
            BY <2>0, <2>3, <3>1 DEF OnePairing, OnePending, Pairing, Pending
        <3>3. GrantedOnce'
            BY <2>0, <2>3 DEF GrantedOnce
        <3>4. \A c \in Ids : Pending(c) => granted[c] = 0
            <4>1. \A x \in Tasks : task[x].pc # "approve"
                BY <2>0, <3>1 DEF PairingPCs
            <4>2. \A c \in Ids : granted[c] \in Nat /\ granted[c] <= 1
                BY <2>3 DEF GrantedOnce, CodeTypes
            <4> QED BY <2>3, <4>1, <4>2 DEF GrantedOnce, Pending
        <3>5. ASSUME NEW x \in Tasks PROVE MarksSafely(x)'
            BY <2>0, <3>1, <3>4 DEF MarksSafely, Pending, PairingPCs
        <3> QED BY <3>2, <3>3, <3>5
    <2> QED BY <1>0, <2>1, <2>2, <2>3
<1>2. CASE Expire(t)
    <2>0. PICK c \in task[t].codes :
              Mark(c, "expired") /\ task' = [task EXCEPT ![t].codes = task[t].codes \ {c}]
        BY <1>2 DEF Expire
    <2>1. /\ task[t].pc = "expire" /\ task'[t].pc = "expire" /\ task'[t].codes = task[t].codes \ {c}
          /\ UNCHANGED <<granted, made>> /\ c \in Ids
        BY <1>2, <2>0, ExpireIs DEF Expire, RowTypes, Task
    <2>2. /\ code' \in [Ids -> [status : Statuses, old : BOOLEAN]]
          /\ code'[c].status = "expired" /\ \A d \in Ids : d # c => code'[d] = code[d]
        BY <2>0, <2>1 DEF Mark, CodeTypes, Statuses
    <2>3. CodeTypes'
        <3>1. made.codes \in Nat /\ c <= made.codes
            BY DEF RowTypes, CodeTypes
        <3>2. \A d \in Ids : d > made.codes => code'[d].status = code[d].status
            BY <2>1, <2>2, <3>1 DEF Ids
        <3>3. \A d \in task'[t].codes : d <= made.codes
            BY <2>1 DEF CodeTypes
        <3> QED BY <1>0, <2>1, <2>2, <3>1, <3>2, <3>3, CodesKeepTypes DEF CodeTypes
    <2>4. ApprovedGranted'
        BY <2>1, <2>2 DEF ApprovedGranted
    <2>5. ASSUME "pairing" \notin raced
          PROVE  OnePairing' /\ OnePending' /\ GrantedOnce' /\ \A x \in Tasks : MarksSafely(x)'
        <3>1. \A x \in Tasks : x # t => task[x].pc \notin PairingPCs
            BY <1>0, <2>5, PairingAlone
        <3>2. OnePairing' /\ OnePending'
            BY <2>1, <2>2, <2>5, <3>1 DEF OnePairing, OnePending, Pairing, Pending
        <3>3. granted[c] = 0
            BY <2>1, <2>5 DEF MarksSafely
        <3>4. GrantedOnce'
            BY <2>1, <2>2, <2>5, <3>3 DEF GrantedOnce
        <3>5. ASSUME NEW x \in Tasks PROVE MarksSafely(x)'
            BY <2>1, <2>2, <2>5, <3>1 DEF MarksSafely, Pending, PairingPCs
        <3> QED BY <3>2, <3>4, <3>5
    <2> QED BY <1>0, <2>3, <2>4, <2>5
<1>3. CASE CreatePairing(t)
    <2> DEFINE n == made.codes + 1
    <2>0. /\ task[t].pc = "expire" /\ task[t].codes = {} /\ task'[t].pc = "idle" /\ task'[t].codes = {}
          /\ code' = [code EXCEPT ![n] = [status |-> "pending", old |-> FALSE]]
          /\ UNCHANGED granted
        BY <1>3, EndIs DEF CreatePairing
    <2>1. made.codes \in Nat /\ made'.codes = n /\ n \in Nat
        BY <1>3 DEF CreatePairing, RowTypes
    <2>2. /\ code' \in [Ids -> [status : Statuses, old : BOOLEAN]]
          /\ \A d \in Ids : d # n => code'[d] = code[d]
          /\ n \in Ids => code'[n].status = "pending" /\ code[n].status = "unmade"
        <3> DEFINE r == [status |-> "pending", old |-> FALSE]
        <3>1. r \in [status : Statuses, old : BOOLEAN] /\ r.status = "pending"
            BY DEF Statuses
        <3>3. n \in Ids => code[n].status = "unmade"
            BY <2>1 DEF CodeTypes
        <3> HIDE DEF r, n
        <3>2. code' = [code EXCEPT ![n] = r]
            BY <2>0 DEF r, n
        <3> QED BY <3>1, <3>2, <3>3 DEF CodeTypes
    <2>3. CodeTypes'
        <3>1. made.codes <= n /\ \A d \in Ids : d > n => code'[d].status = code[d].status
            BY <2>1, <2>2 DEF Ids
        <3> QED BY <1>0, <2>0, <2>1, <2>2, <3>1, CodesKeepTypes DEF CodeTypes
    <2> HIDE DEF n
    <2>4. ApprovedGranted'
        BY <2>0, <2>2 DEF ApprovedGranted
    <2>5. ASSUME "pairing" \notin raced
          PROVE  OnePairing' /\ OnePending' /\ GrantedOnce' /\ \A x \in Tasks : MarksSafely(x)'
        <3>1. \A x \in Tasks : x # t => task[x].pc \notin PairingPCs
            BY <1>0, <2>5, PairingAlone
        <3>2. OnePairing'
            BY <2>0, <3>1 DEF OnePairing, Pairing, PairingPCs
        <3>3. \A c \in Ids : ~Pending(c)
            BY <2>0, <2>5 DEF MarksSafely
        <3>4. OnePending'
            BY <2>2, <3>3 DEF OnePending, Pending
        <3>5. GrantedOnce'
            BY <2>0, <2>2, <2>5, <3>1 DEF GrantedOnce, PairingPCs
        <3>6. ASSUME NEW x \in Tasks PROVE MarksSafely(x)'
            BY <2>0, <3>1 DEF MarksSafely, PairingPCs
        <3> QED BY <3>2, <3>4, <3>5, <3>6
    <2> QED BY <1>0, <2>3, <2>4, <2>5
<1> QED BY <1>1, <1>2, <1>3

\* The administrator's answer: the code is read, the user is written, then the status.
LEMMA CheckKeepsPairing ==
    ASSUME PairInv, RowTypes, NEW t \in Tasks, \A x \in Tasks : x # t => task'[x] = task[x], Check(t)
    PROVE  PairInv'
<1> USE DEF PairInv
<1>1. PICK c \in task[t].codes :
          IF ~Pending(c) THEN End(t)
          ELSE Goto(t, IF code[c].old THEN "lapse"
                       ELSE IF task[t].op = "approve" THEN "grant" ELSE "reject")
    BY DEF Check
<1>2. task[t].pc = "check" /\ task[t].codes = {c} /\ c \in Ids /\ Pairing(t)
    <2>1. task[t].pc = "check" /\ OnOneCode(t)
        BY DEF Check, CodeTypes
    <2> QED BY <1>1, <2>1 DEF OnOneCode, Pairing, PairingPCs
<1>3. UNCHANGED <<code, granted, made, raced>>
    BY DEF Check, pairings
<1>4. \/ task'[t].pc = "idle" /\ task'[t].codes = {}
      \/ Pending(c) /\ task'[t].codes = {c} /\ task'[t].pc \in {"lapse", "grant", "reject"}
    <2>1. CASE ~Pending(c)
        BY <1>1, <2>1, EndIs
    <2>2. CASE Pending(c)
        <3>1. PICK p \in {"lapse", "grant", "reject"} : Goto(t, p)
            BY <1>1, <2>2
        <3> QED BY <1>2, <2>2, <3>1, GotoIs
    <2> QED BY <2>1, <2>2
<1>5. CodeTypes'
    <2>1. made.codes \in Nat /\ made'.codes = made.codes /\ made.codes <= made'.codes
        BY <1>3 DEF RowTypes
    <2>2. \A d \in task'[t].codes : d <= made'.codes
        BY <1>2, <1>4, <2>1 DEF CodeTypes
    <2>3. task'[t].pc \in {"check", "grant", "lapse", "reject", "approve"} =>
              \E d \in Ids : task'[t].codes = {d}
        BY <1>2, <1>4
    <2> QED BY <1>3, <2>1, <2>2, <2>3, CodesKeepTypes DEF CodeTypes
<1>6. ApprovedGranted'
    BY <1>3, <1>4 DEF ApprovedGranted
<1>7. ASSUME "pairing" \notin raced
      PROVE  OnePairing' /\ OnePending' /\ GrantedOnce' /\ \A x \in Tasks : MarksSafely(x)'
    <2>1. \A x \in Tasks : x # t => task[x].pc \notin PairingPCs
        BY <1>2, <1>7, PairingAlone
    <2>2. OnePairing' /\ OnePending'
        BY <1>3, <1>7, <2>1 DEF OnePairing, OnePending, Pairing, Pending
    <2>3. GrantedOnce'
        BY <1>2, <1>3, <1>7 DEF GrantedOnce
    <2>4. Pending(c) => granted[c] = 0
        <3>1. \A x \in Tasks : task[x].pc # "approve"
            BY <1>2, <2>1 DEF PairingPCs
        <3>2. granted[c] \in Nat /\ granted[c] <= 1
            BY <1>2, <1>7 DEF GrantedOnce, CodeTypes
        <3> QED BY <1>2, <1>7, <3>1, <3>2 DEF GrantedOnce, Pending
    <2>5. ASSUME NEW x \in Tasks PROVE MarksSafely(x)'
        BY <1>3, <1>4, <2>1, <2>4 DEF MarksSafely, PairingPCs
    <2> QED BY <2>2, <2>3, <2>5
<1> QED BY <1>3, <1>5, <1>6, <1>7

\* The user is written: the code has authorized, and is about to be approved.
LEMMA GrantKeepsPairing ==
    ASSUME PairInv, RowTypes, NEW t \in Tasks, \A x \in Tasks : x # t => task'[x] = task[x],
           Grant(t), Goto(t, "approve")
    PROVE  PairInv'
<1> USE DEF PairInv
<1>1. /\ task[t].pc = "grant" /\ Pairing(t) /\ UNCHANGED <<code, raced>>
      /\ task'[t].pc = "approve" /\ task'[t].codes = task[t].codes
    BY GotoIs DEF Grant, Pairing, PairingPCs
<1>2. ~End(t)
    BY <1>1, EndIs
<1>3. /\ made' = [made EXCEPT !.users = made.users + 1]
      /\ granted' = [c \in Ids |-> IF c \in task[t].codes THEN granted[c] + 1 ELSE granted[c]]
    BY <1>2 DEF Grant
<1>4. made'.codes = made.codes /\ made.codes \in Nat /\ made.codes <= made'.codes
    BY <1>3 DEF RowTypes
<1>5. PICK c \in Ids : task[t].codes = {c}
    BY <1>1 DEF CodeTypes, OnOneCode
<1>6. granted' \in [Ids -> Nat] /\ granted'[c] = granted[c] + 1 /\ \A d \in Ids : d # c => granted'[d] = granted[d]
    BY <1>3, <1>5 DEF CodeTypes
<1>7. CodeTypes'
    <2>1. \A d \in task'[t].codes : d <= made'.codes
        BY <1>1, <1>4 DEF CodeTypes
    <2> QED BY <1>1, <1>4, <1>5, <1>6, <2>1, CodesKeepTypes DEF CodeTypes
<1>8. ApprovedGranted'
    <2>1. granted[c] \in Nat /\ granted'[c] > 0
        BY <1>6 DEF CodeTypes
    <2>2. \A d \in Ids : code'[d].status = "approved" => granted'[d] > 0
        BY <1>1, <1>6, <2>1 DEF ApprovedGranted
    <2>3. ASSUME NEW x \in Tasks, task'[x].pc = "approve", NEW d \in task'[x].codes PROVE granted'[d] > 0
        <3>1. d \in Ids /\ (x # t => task'[x] = task[x])
            BY <1>1, <1>5, <2>3 DEF RowTypes, Task
        <3> QED BY <1>1, <1>5, <1>6, <2>1, <2>3, <3>1 DEF ApprovedGranted
    <2> QED BY <2>2, <2>3 DEF ApprovedGranted
<1>9. ASSUME "pairing" \notin raced
      PROVE  OnePairing' /\ OnePending' /\ GrantedOnce' /\ \A x \in Tasks : MarksSafely(x)'
    <2>1. \A x \in Tasks : x # t => task[x].pc \notin PairingPCs
        BY <1>1, <1>9, PairingAlone
    <2>2. OnePairing' /\ OnePending'
        BY <1>1, <1>9, <2>1 DEF OnePairing, OnePending, Pairing, Pending
    <2>3. granted[c] = 0
        BY <1>1, <1>5, <1>9 DEF MarksSafely
    <2>4. GrantedOnce'
        <3>1. \A d \in Ids : granted'[d] <= 1
            BY <1>6, <1>9, <2>3 DEF GrantedOnce
        <3>2. ASSUME NEW d \in Ids, granted'[d] = 1
              PROVE  \/ code'[d].status = "approved"
                     \/ \E x \in Tasks : task'[x].pc = "approve" /\ d \in task'[x].codes
            <4>1. CASE d = c
                BY <1>1, <1>5, <4>1
            <4>2. CASE d # c
                BY <1>1, <1>6, <1>9, <2>1, <3>2, <4>2 DEF GrantedOnce, PairingPCs
            <4> QED BY <4>1, <4>2
        <3> QED BY <3>1, <3>2 DEF GrantedOnce
    <2>5. ASSUME NEW x \in Tasks PROVE MarksSafely(x)'
        BY <1>1, <2>1 DEF MarksSafely, PairingPCs
    <2> QED BY <2>2, <2>4, <2>5
<1> QED BY <1>1, <1>7, <1>8, <1>9

\* The status is written: approved exactly if the user was.
LEMMA ConcludeKeepsPairing ==
    ASSUME PairInv, RowTypes, NEW t \in Tasks, \A x \in Tasks : x # t => task'[x] = task[x],
           \/ Conclude(t, "lapse", "expired") \/ Conclude(t, "approve", "approved")
           \/ Conclude(t, "reject", "rejected")
    PROVE  PairInv'
<1> USE DEF PairInv
<1>1. PICK status \in {"expired", "approved", "rejected"} :
          /\ task[t].pc \in {"lapse", "approve", "reject"}
          /\ status = "approved" <=> task[t].pc = "approve"
          /\ \E c \in task[t].codes : Mark(c, status)
    BY DEF Conclude
<1>2. UNCHANGED <<granted, raced, made>> /\ End(t)
    BY DEF Conclude
<1>3. PICK c \in Ids : task[t].codes = {c}
    BY <1>1 DEF CodeTypes, OnOneCode
<1>4. code' = [code EXCEPT ![c].status = status]
    BY <1>1, <1>3 DEF Mark
<1>5. /\ code' \in [Ids -> [status : Statuses, old : BOOLEAN]]
      /\ code'[c].status = status /\ \A d \in Ids : d # c => code'[d] = code[d]
    BY <1>1, <1>4 DEF CodeTypes, Statuses
<1>6. Pairing(t) /\ task'[t].pc = "idle" /\ task'[t].codes = {}
    BY <1>1, <1>2, EndIs DEF Pairing, PairingPCs
<1>7. CodeTypes'
    <2>1. made.codes \in Nat /\ c <= made.codes
        BY <1>3 DEF RowTypes, CodeTypes
    <2>2. \A d \in Ids : d > made.codes => code'[d].status = code[d].status
        BY <1>3, <1>5, <2>1 DEF Ids
    <2> QED BY <1>2, <1>5, <1>6, <2>1, <2>2, CodesKeepTypes DEF CodeTypes
<1>8. ApprovedGranted'
    <2>1. status = "approved" => granted[c] > 0
        BY <1>1, <1>3 DEF ApprovedGranted
    <2> QED BY <1>2, <1>5, <1>6, <2>1 DEF ApprovedGranted
<1>9. ASSUME "pairing" \notin raced
      PROVE  OnePairing' /\ OnePending' /\ GrantedOnce' /\ \A x \in Tasks : MarksSafely(x)'
    <2>1. \A x \in Tasks : x # t => task[x].pc \notin PairingPCs
        BY <1>6, <1>9, PairingAlone
    <2>2. OnePairing'
        BY <1>6, <2>1 DEF OnePairing, Pairing, PairingPCs
    <2>3. OnePending'
        BY <1>5, <1>9 DEF OnePending, Pending
    <2>4. GrantedOnce'
        <3>1. ASSUME NEW d \in Ids, granted[d] = 1 PROVE code'[d].status = "approved"
            <4>1. CASE d = c
                BY <1>1, <1>3, <1>5, <1>9, <3>1, <4>1 DEF MarksSafely
            <4>2. CASE d # c
                BY <1>3, <1>5, <1>9, <2>1, <3>1, <4>2 DEF GrantedOnce, PairingPCs
            <4> QED BY <4>1, <4>2
        <3> QED BY <1>2, <1>9, <3>1 DEF GrantedOnce
    <2>5. ASSUME NEW x \in Tasks PROVE MarksSafely(x)'
        BY <1>6, <2>1 DEF MarksSafely, PairingPCs
    <2> QED BY <2>2, <2>3, <2>4, <2>5
<1> QED BY <1>2, <1>7, <1>8, <1>9

\* Time and the cleanup timer: a pending code may be marked expired.
LEMMA TimeKeepsPairing ==
    ASSUME PairInv, Age \/ Cleanup
    PROVE  PairInv'
<1> USE DEF PairInv
<1>1. UNCHANGED <<granted, task, made, raced>>
    BY DEF Age, Cleanup
<1>2. /\ code' \in [Ids -> [status : Statuses, old : BOOLEAN]]
      /\ \A c \in Ids : code'[c].status = code[c].status \/ (Pending(c) /\ code'[c].status = "expired")
    <2>1. CASE Age
        <3>1. PICK c \in Ids : code' = [code EXCEPT ![c].old = TRUE]
            BY <2>1 DEF Age
        <3>2. code'[c] = [code[c] EXCEPT !.old = TRUE] /\ \A d \in Ids : d # c => code'[d] = code[d]
            BY <3>1 DEF CodeTypes
        <3>3. code[c] \in [status : Statuses, old : BOOLEAN]
            BY DEF CodeTypes
        <3>4. code'[c] \in [status : Statuses, old : BOOLEAN] /\ code'[c].status = code[c].status
            BY <3>2, <3>3
        <3> QED BY <3>1, <3>2, <3>4 DEF CodeTypes
    <2>2. CASE Cleanup
        <3>1. ASSUME NEW c \in Ids
              PROVE  /\ code'[c] \in [status : Statuses, old : BOOLEAN]
                     /\ code'[c].status = code[c].status \/ (Pending(c) /\ code'[c].status = "expired")
            <4>1. code'[c] = IF Pending(c) /\ code[c].old THEN [code[c] EXCEPT !.status = "expired"] ELSE code[c]
                BY <2>2 DEF Cleanup
            <4>2. code[c] \in [status : Statuses, old : BOOLEAN]
                BY DEF CodeTypes
            <4> QED BY <4>1, <4>2 DEF Statuses
        <3>2. code' = [c \in Ids |-> IF Pending(c) /\ code[c].old
                                     THEN [code[c] EXCEPT !.status = "expired"] ELSE code[c]]
            BY <2>2 DEF Cleanup
        <3>3. code' = [c \in Ids |-> code'[c]]
            BY <3>2
        <3> QED BY <3>1, <3>3
    <2> QED BY <2>1, <2>2
<1>3. CodeTypes'
    BY <1>1, <1>2 DEF CodeTypes, OnOneCode, Pending
<1>4. ApprovedGranted'
    BY <1>1, <1>2 DEF ApprovedGranted
<1>5. ASSUME "pairing" \notin raced
      PROVE  OnePairing' /\ OnePending' /\ GrantedOnce' /\ \A x \in Tasks : MarksSafely(x)'
    <2>1. OnePairing'
        BY <1>1, <1>5 DEF OnePairing, Pairing
    <2>2. OnePending'
        BY <1>2, <1>5 DEF OnePending, Pending
    <2>3. GrantedOnce'
        BY <1>1, <1>2, <1>5 DEF GrantedOnce, Pending
    <2>4. ASSUME NEW x \in Tasks PROVE MarksSafely(x)'
        BY <1>1, <1>2, <1>5 DEF MarksSafely, Pending
    <2> QED BY <2>1, <2>2, <2>3, <2>4
<1> QED BY <1>1, <1>3, <1>4, <1>5

\* A step of a task that is not about pairing.
LEMMA LeavesPairing ==
    ASSUME PairInv, NEW t \in Tasks, \A x \in Tasks : x # t => task'[x] = task[x],
           UNCHANGED <<code, granted>>, made'.codes = made.codes,
           raced' \in SUBSET {"pairing", "session"}, "pairing" \in raced => "pairing" \in raced',
           task'[t].pc \notin PairingPCs, task'[t].codes \subseteq task[t].codes,
           task[t].pc = "approve" => "pairing" \in raced'
    PROVE  PairInv'
BY QuietKeepsPairing, Zenon

\* A message that has its session, or looks for one.
LEMMA MessageKeepsPairing ==
    ASSUME PairInv, RowTypes, NEW t \in Tasks, \A x \in Tasks : x # t => task'[x] = task[x],
           MessageStep(t)
    PROVE  PairInv'
<1>0. raced \in SUBSET {"pairing", "session"}
    BY DEF PairInv, CodeTypes
<1> USE DEF PairingPCs
<1>1. ASSUME NEW op \in Kinds, Arrive(t, op) PROVE PairInv'
    <2>1. task[t].pc = "idle" /\ task'[t].pc = "auth" /\ task'[t].codes = {}
        BY <1>1, ArriveIs
    <2> QED BY <1>0, <1>1, <2>1, LeavesPairing DEF Arrive, pairings
<1>2. CASE Authorize(t)
    <2>1. UNCHANGED <<code, granted, made>>
        BY <1>2 DEF Authorize, pairings
    <2>2. task[t].pc = "auth" /\ task'[t].codes = task[t].codes
        BY <1>2, AuthorizeIs
    <2>3. CASE task'[t].pc = "pending"
        <3>1. StartPairing(t) /\ ~Pairing(t)
            BY <1>2, <2>2, <2>3, AuthorizeIs DEF Pairing
        <3>2. \A c \in task'[t].codes : c <= made.codes
            BY <2>2 DEF PairInv, CodeTypes
        <3> QED BY <2>1, <2>3, <3>1, <3>2, StartKeepsPairing
    <2>4. CASE task'[t].pc # "pending"
        <3>1. UNCHANGED raced /\ task'[t].pc \in {"find", "delete"}
            BY <1>2, <2>4, AuthorizeIs
        <3> QED BY <1>0, <2>1, <2>2, <3>1, LeavesPairing
    <2> QED BY <2>3, <2>4
<1>3. CASE ReadPending(t) \/ Expire(t) \/ CreatePairing(t)
    BY <1>3, RequestKeepsPairing
<1>4. CASE DeleteSessions(t)
    <2>1. task[t].pc = "delete" /\ task'[t].pc = "find" /\ task'[t].codes = task[t].codes
        BY <1>4, GotoIs DEF DeleteSessions
    <2> QED BY <1>0, <1>4, <2>1, LeavesPairing DEF DeleteSessions, pairings
<1>5. ASSUME NEW s, task' = [task EXCEPT ![t] = Found(t, s)]
      PROVE  task'[t].pc \in {"idle", "reread"} /\ task'[t].codes \subseteq task[t].codes
    BY <1>5, FoundIs, EndIs
<1>6. CASE FindSession(t)
    <2>1. /\ task[t].pc = "find" /\ UNCHANGED <<code, granted, made>>
          /\ raced' \in SUBSET {"pairing", "session"} /\ ("pairing" \in raced => "pairing" \in raced')
        BY <1>0, <1>6 DEF FindSession, pairings
    <2>2. task'[t].pc \in {"idle", "reread", "insert"} /\ task'[t].codes \subseteq task[t].codes
        BY <1>5, <1>6, GotoIs DEF FindSession
    <2> QED BY <2>1, <2>2, LeavesPairing
<1>7. CASE InsertSession(t)
    <2>1. task[t].pc = "insert" /\ UNCHANGED <<code, granted, raced>>
        BY <1>7 DEF InsertSession, pairings
    <2>2. made'.codes = made.codes
        BY <1>7 DEF InsertSession, RowTypes
    <2>3. task'[t].pc \in {"idle", "reread"} /\ task'[t].codes \subseteq task[t].codes
        BY <1>5, <1>7, EndIs DEF InsertSession
    <2> QED BY <1>0, <2>1, <2>2, <2>3, LeavesPairing
<1>8. CASE Reread(t)
    <2>1. task[t].pc = "reread" /\ UNCHANGED <<code, granted, made, raced>>
        BY <1>8 DEF Reread, pairings
    <2>2. task'[t].pc \in {"idle", "converse", "send"} /\ task'[t].codes \subseteq task[t].codes
        <3>1. CASE End(t)
            BY <3>1, EndIs
        <3>2. ASSUME NEW c, NEW p \in {"converse", "send"},
                     task' = [task EXCEPT ![t].conv = c, ![t].pc = p]
              PROVE  task'[t].pc \in {"converse", "send"} /\ task'[t].codes = task[t].codes
            <4>1. task'[t].pc = p /\ task'[t].codes = task[t].codes
                BY <3>2 DEF RowTypes, Task
            <4> QED BY <4>1
        <3> QED BY <1>8, <3>1, <3>2 DEF Reread
    <2> QED BY <1>0, <2>1, <2>2, LeavesPairing
<1>9. CASE CreateConversation(t)
    <2>1. task[t].pc = "converse" /\ UNCHANGED <<code, granted, raced>>
        BY <1>9 DEF CreateConversation, pairings
    <2>2. made'.codes = made.codes
        BY <1>9 DEF CreateConversation, RowTypes
    <2>3. task'[t].pc = "send" /\ task'[t].codes = task[t].codes
        BY <1>9, ConverseIs DEF CreateConversation
    <2> QED BY <1>0, <2>1, <2>2, <2>3, LeavesPairing
<1>10. CASE Send(t) \/ SendFails(t) \/ Bind(t)
    <2>1. task[t].pc \in {"converse", "send", "bind"} /\ UNCHANGED <<code, granted, made, raced>>
        BY <1>10 DEF Send, SendFails, Bind, pairings
    <2>2. task'[t].pc \in {"idle", "bind"} /\ task'[t].codes \subseteq task[t].codes
        <3>1. End(t) \/ Goto(t, "bind")
            BY <1>10 DEF Send, SendFails, Bind
        <3>2. CASE End(t)
            BY <3>2, EndIs
        <3>3. CASE Goto(t, "bind")
            BY <3>3, GotoIs
        <3> QED BY <3>1, <3>2, <3>3
    <2> QED BY <1>0, <2>1, <2>2, LeavesPairing
<1> QED BY <1>1, <1>2, <1>3, <1>4, <1>6, <1>7, <1>8, <1>9, <1>10 DEF MessageStep

\* The administrator's requests.
LEMMA RequestsKeepPairing ==
    ASSUME PairInv, RowTypes, NEW t \in Tasks, \A x \in Tasks : x # t => task'[x] = task[x],
           AdminStep(t)
    PROVE  PairInv'
<1>0. raced \in SUBSET {"pairing", "session"}
    BY DEF PairInv, CodeTypes
<1> USE DEF PairingPCs
<1>1. ASSUME NEW op, NEW c \in Ids, AskPairing(t, op, c) PROVE PairInv'
    <2>1. c <= made.codes /\ StartPairing(t) /\ UNCHANGED <<code, granted, made>>
        BY <1>1 DEF AskPairing, Ask, pairings
    <2>2. task[t].pc = "idle" /\ task'[t].pc = "check" /\ task'[t].codes = {c}
        BY <1>1, AskIs DEF AskPairing
    <2> QED BY <2>1, <2>2, StartKeepsPairing DEF Pairing
<1>2. ASSUME NEW op, NEW pc \in {"clean", "list"}, NEW us, Ask(t, op, pc, {}, us), UNCHANGED raced
      PROVE  PairInv'
    <2>1. task[t].pc = "idle" /\ task'[t].pc = pc /\ task'[t].codes = {}
        BY <1>2 DEF Ask, RowTypes, Idle
    <2> QED BY <1>0, <1>2, <2>1, LeavesPairing DEF Ask, pairings
<1>3. CASE (\E u \in UserIds : AskRevoke(t, u)) \/ AskSync(t)
    BY <1>2, <1>3 DEF AskRevoke, AskSync
<1>4. CASE Check(t)
    BY <1>4, CheckKeepsPairing
<1>5. CASE Grant(t)
    <2>1. CASE Goto(t, "approve")
        BY <1>5, <2>1, GrantKeepsPairing
    <2>2. CASE End(t) /\ UNCHANGED <<user, made, granted>>
        <3>1. task[t].pc = "grant" /\ task'[t].pc = "idle" /\ task'[t].codes = {}
            BY <1>5, <2>2, EndIs DEF Grant
        <3> QED BY <1>0, <1>5, <2>2, <3>1, LeavesPairing DEF Grant
    <2> QED BY <1>5, <2>1, <2>2 DEF Grant
<1>6. CASE \/ Conclude(t, "lapse", "expired") \/ Conclude(t, "approve", "approved")
           \/ Conclude(t, "reject", "rejected")
    BY <1>6, ConcludeKeepsPairing
<1>7. CASE CleanSessions(t) \/ DeleteUser(t) \/ ListSessions(t) \/ ClearSessions(t)
    <2>1. /\ task[t].pc \in {"clean", "revoke", "list", "clear"} /\ UNCHANGED <<code, granted, made, raced>>
        BY <1>7 DEF CleanSessions, DeleteUser, ListSessions, ClearSessions, pairings
    <2>2. task'[t].pc \in {"idle", "revoke", "clear"} /\ task'[t].codes \subseteq task[t].codes
        <3>1. CASE ListSessions(t)
            <4>1. PICK us : task' = [task EXCEPT ![t].user = us, ![t].pc = "clear"]
                BY <3>1 DEF ListSessions
            <4>2. task'[t].pc = "clear" /\ task'[t].codes = task[t].codes
                BY <4>1 DEF RowTypes, Task
            <4> QED BY <4>2
        <3>2. CASE End(t) \/ Goto(t, "revoke")
            BY <3>2, EndIs, GotoIs
        <3> QED BY <1>7, <3>1, <3>2 DEF CleanSessions, DeleteUser, ClearSessions
    <2> QED BY <1>0, <2>1, <2>2, LeavesPairing
<1> QED BY <1>1, <1>3, <1>4, <1>5, <1>6, <1>7 DEF AdminStep

\* Every step keeps the pairing invariant.
LEMMA PairStep == AuthInv /\ PairInv /\ [Next]_vars => PairInv'
<1> SUFFICES ASSUME AuthInv, PairInv, [Next]_vars PROVE PairInv'
    OBVIOUS
<1>0. RowTypes /\ raced \in SUBSET {"pairing", "session"}
    BY DEF AuthInv, PairInv, CodeTypes
<1>1. ASSUME NEW t \in Messages, MessageStep(t) PROVE PairInv'
    <2>1. t \in Tasks
        BY DEF Tasks
    <2>2. \A x \in Tasks : x # t => task'[x] = task[x]
        BY <1>0, <1>1, <2>1, OthersStay
    <2> QED BY <1>0, <1>1, <2>1, <2>2, MessageKeepsPairing
<1>2. ASSUME NEW t \in Admins, AdminStep(t) PROVE PairInv'
    <2>1. t \in Tasks
        BY DEF Tasks
    <2>2. \A x \in Tasks : x # t => task'[x] = task[x]
        BY <1>0, <1>2, <2>1, OthersStay
    <2> QED BY <1>0, <1>2, <2>1, <2>2, RequestsKeepPairing
<1>3. CASE Age \/ Cleanup
    BY <1>3, TimeKeepsPairing
<1>4. ASSUME NEW c \in Ids, DeleteConversation(c) PROVE PairInv'
    <2>1. /\ UNCHANGED <<code, granted, task, made>>
          /\ raced' \in SUBSET {"pairing", "session"} /\ ("pairing" \in raced => "pairing" \in raced')
        BY <1>0, <1>4 DEF DeleteConversation, pairings
    <2> QED BY <2>1, QuietKeepsPairing
<1>5. ASSUME NEW t \in Tasks, CutOff(t) PROVE PairInv'
    <2>1. \A x \in Tasks : x # t => task'[x] = task[x]
        BY <1>0, <1>5, OthersStay
    <2>2. task'[t].pc \notin PairingPCs /\ task'[t].codes = {}
        BY <1>0, <1>5, EndIs DEF CutOff, PairingPCs
    <2>3. /\ raced' \in SUBSET {"pairing", "session"} /\ ("pairing" \in raced => "pairing" \in raced')
          /\ task[t].pc = "approve" => "pairing" \in raced'
        BY <1>0, <1>5 DEF CutOff
    <2>4. UNCHANGED <<code, granted, made>>
        BY <1>5 DEF CutOff, pairings
    <2> QED BY <2>1, <2>2, <2>3, <2>4, LeavesPairing
<1>6. CASE UNCHANGED vars
    BY <1>0, <1>6, QuietKeepsPairing DEF vars, pairings
<1> QED BY <1>1, <1>2, <1>3, <1>4, <1>5, <1>6 DEF Next

\* An approved code has authorized the person; and while no two tasks about the
\* pairing overlap and none is cut off between its two writes, one code at most is
\* pending, each code authorizes once, and it does so exactly if it ends up approved:
\* the reads of get_valid_pending_pairing and request_pairing stay true until the
\* writes that rely on them.
THEOREM PairingHoldsAlways == Spec => []PairingHolds
<1>1. ASSUME PairInv PROVE PairingHolds
    <2> USE <1>1 DEF PairInv
    <2>1. ASSUME "pairing" \notin raced, \A t \in Tasks : ~Pairing(t), NEW c \in Ids
          PROVE  granted[c] = 1 <=> code[c].status = "approved"
        <3>1. granted[c] \in Nat /\ granted[c] <= 1
            BY <2>1 DEF CodeTypes, GrantedOnce
        <3>2. granted[c] = 1 => code[c].status = "approved"
            BY <2>1 DEF GrantedOnce, Pairing, PairingPCs
        <3>3. code[c].status = "approved" => granted[c] > 0
            BY DEF ApprovedGranted
        <3> QED BY <3>1, <3>2, <3>3
    <2>2. \A c \in Ids : code[c].status = "approved" => granted[c] > 0
        BY DEF ApprovedGranted
    <2>3. "pairing" \notin raced =>
              /\ \A c, d \in Ids : Pending(c) /\ Pending(d) => c = d
              /\ \A c \in Ids : granted[c] <= 1
        BY DEF OnePending, GrantedOnce
    <2> QED BY <2>1, <2>2, <2>3, Zenon DEF PairingHolds
<1>2. Spec => []PairInv
    BY PairInit, PairStep, AuthAlways, PTL DEF Spec
<1> QED BY <1>1, <1>2, PTL

-----------------------------------------------------------------------------
(* The bounds are enough: a message makes one code, session and conversation *)
(* at most, and a request one user, so that no number runs out of its set.   *)

CodePCs == {"auth", "pending", "expire"}
SessPCs == {"auth", "delete", "find", "insert"}
ConvPCs == SessPCs \cup {"reread", "converse"}
UserPCs == {"check", "grant"}

\* The tasks that may still make one, and the room they need.
Holders(S) == {t \in Tasks : task[t].pc \in S}
Room(n, H, max) == IsFiniteSet(H) /\ n + Cardinality(H) <= max
Budget ==
    /\ counts \in [messages : Nat, requests : Nat, cuts : Nat]
    /\ counts.messages <= MaxMessages /\ counts.requests <= MaxAdmin
    /\ Room(made.codes, Holders(CodePCs), counts.messages)
    /\ Room(made.sessions, Holders(SessPCs), counts.messages)
    /\ Room(made.convs, Holders(ConvPCs), counts.messages)
    /\ Room(made.users, Holders(UserPCs), counts.requests)

\* Fewer tasks need no more room; a task more needs one; a task that made its own
\* gives its place up.
LEMMA RoomStays ==
    ASSUME NEW H, NEW G, NEW n \in Nat, NEW max \in Nat, Room(n, H, max), G \subseteq H
    PROVE  Room(n, G, max)
<1>1. IsFiniteSet(G) /\ Cardinality(G) <= Cardinality(H)
    BY FS_Subset DEF Room
<1>2. Cardinality(G) \in Nat /\ Cardinality(H) \in Nat
    BY <1>1, FS_CardinalityType DEF Room
<1> QED BY <1>1, <1>2 DEF Room

\* A task more needs room for one more.
LEMMA RoomGrows ==
    ASSUME NEW H, NEW G, NEW n \in Nat, NEW max \in Nat, NEW t, Room(n, H, max), G \subseteq H \cup {t}
    PROVE  Room(n, G, max + 1)
<1>1. IsFiniteSet(H \cup {t}) /\ Cardinality(H \cup {t}) <= Cardinality(H) + 1
    <2>1. IsFiniteSet(H) /\ Cardinality(H) \in Nat
        BY FS_CardinalityType DEF Room
    <2>2. Cardinality(H \cup {t}) = IF t \in H THEN Cardinality(H) ELSE Cardinality(H) + 1
        BY <2>1, FS_AddElement
    <2> QED BY <2>1, <2>2, FS_AddElement
<1>2. IsFiniteSet(G) /\ Cardinality(G) <= Cardinality(H \cup {t})
    BY <1>1, FS_Subset
<1>3. Cardinality(G) \in Nat /\ Cardinality(H) \in Nat /\ Cardinality(H \cup {t}) \in Nat
    BY <1>1, <1>2, FS_CardinalityType DEF Room
<1> QED BY <1>1, <1>2, <1>3 DEF Room

\* A task that made its own gives its place up.
LEMMA RoomSpent ==
    ASSUME NEW H, NEW G, NEW n \in Nat, NEW max \in Nat, NEW t \in H, Room(n, H, max), G \subseteq H \ {t}
    PROVE  Room(n + 1, G, max)
<1>1. /\ IsFiniteSet(H) /\ IsFiniteSet(H \ {t}) /\ Cardinality(H) \in Nat
      /\ Cardinality(H \ {t}) = Cardinality(H) - 1
    BY FS_RemoveElement, FS_CardinalityType DEF Room
<1>2. IsFiniteSet(G) /\ Cardinality(G) <= Cardinality(H \ {t})
    BY <1>1, FS_Subset
<1>3. Cardinality(G) \in Nat /\ Cardinality(H \ {t}) \in Nat
    BY <1>1, <1>2, FS_CardinalityType
<1> QED BY <1>1, <1>2, <1>3 DEF Room

\* A step that takes its task to no statement that leads to one.
LEMMA RoomKept ==
    ASSUME NEW S, NEW t \in Tasks, \A x \in Tasks : x # t => task'[x] = task[x],
           task'[t].pc \in S => task[t].pc \in S,
           NEW n \in Nat, NEW m \in Nat, NEW max \in Nat, Room(n, Holders(S), max),
           m = n \/ (m = n + 1 /\ task[t].pc \in S /\ task'[t].pc \notin S)
    PROVE  Room(m, Holders(S)', max)
<1>1. CASE m = n
    <2>1. Holders(S)' \subseteq Holders(S)
        BY DEF Holders
    <2> QED BY <1>1, <2>1, RoomStays
<1>2. CASE m = n + 1 /\ task[t].pc \in S /\ task'[t].pc \notin S
    <2>1. Holders(S)' \subseteq Holders(S) \ {t} /\ t \in Holders(S)
        BY <1>2 DEF Holders
    <2> QED BY <1>2, <2>1, RoomSpent
<1> QED BY <1>1, <1>2

\* The two counters of what was asked.
LEMMA RoomAsked ==
    ASSUME NEW S, NEW t \in Tasks, \A x \in Tasks : x # t => task'[x] = task[x],
           NEW n \in Nat, NEW max \in Nat, Room(n, Holders(S), max)
    PROVE  Room(n, Holders(S)', max + 1)
<1>1. Holders(S)' \subseteq Holders(S) \cup {t}
    BY DEF Holders
<1> QED BY <1>1, RoomGrows

\* What a step makes, if anything, and the place it gives up for it.
Spends(t) ==
    /\ counts'.messages = counts.messages /\ counts'.requests = counts.requests
    /\ counts' \in [messages : Nat, requests : Nat, cuts : Nat]
    /\ task'[t].pc \in CodePCs => task[t].pc \in CodePCs
    /\ task'[t].pc \in SessPCs => task[t].pc \in SessPCs
    /\ task'[t].pc \in ConvPCs => task[t].pc \in ConvPCs
    /\ task'[t].pc \in UserPCs => task[t].pc \in UserPCs
    /\ made'.codes = made.codes
       \/ (made'.codes = made.codes + 1 /\ task[t].pc \in CodePCs /\ task'[t].pc \notin CodePCs)
    /\ made'.sessions = made.sessions
       \/ (made'.sessions = made.sessions + 1 /\ task[t].pc \in SessPCs /\ task'[t].pc \notin SessPCs)
    /\ made'.convs = made.convs
       \/ (made'.convs = made.convs + 1 /\ task[t].pc \in ConvPCs /\ task'[t].pc \notin ConvPCs)
    /\ made'.users = made.users
       \/ (made'.users = made.users + 1 /\ task[t].pc \in UserPCs /\ task'[t].pc \notin UserPCs)

\* Such a step stays within the bounds.
LEMMA SpendingKeepsBudget ==
    ASSUME Budget, RowTypes, NEW t \in Tasks, \A x \in Tasks : x # t => task'[x] = task[x], Spends(t)
    PROVE  Budget'
<1> USE DEF Budget, Spends
<1>1. /\ made.codes \in Nat /\ made.sessions \in Nat /\ made.convs \in Nat /\ made.users \in Nat
      /\ counts.messages \in Nat /\ counts.requests \in Nat
    BY DEF RowTypes
<1>2. /\ made'.codes \in Nat /\ made'.sessions \in Nat /\ made'.convs \in Nat /\ made'.users \in Nat
    BY <1>1
<1>3. Room(made'.codes, Holders(CodePCs)', counts.messages)
    BY <1>1, <1>2, RoomKept
<1>4. Room(made'.sessions, Holders(SessPCs)', counts.messages)
    BY <1>1, <1>2, RoomKept
<1>5. Room(made'.convs, Holders(ConvPCs)', counts.messages)
    BY <1>1, <1>2, RoomKept
<1>6. Room(made'.users, Holders(UserPCs)', counts.requests)
    BY <1>1, <1>2, RoomKept
<1> HIDE DEF Spends
<1>7. /\ counts'.messages = counts.messages /\ counts'.requests = counts.requests
      /\ counts' \in [messages : Nat, requests : Nat, cuts : Nat]
    BY DEF Spends
<1> QED BY <1>3, <1>4, <1>5, <1>6, <1>7 DEF Room

\* A message that arrives, and a request that is made, take a place.
LEMMA ArriveKeepsBudget ==
    ASSUME Budget, RowTypes, NEW t \in Tasks, \A x \in Tasks : x # t => task'[x] = task[x],
           NEW op \in Kinds, Arrive(t, op)
    PROVE  Budget'
<1> USE DEF Budget
<1>1. /\ made.codes \in Nat /\ made.sessions \in Nat /\ made.convs \in Nat /\ made.users \in Nat
      /\ counts.messages \in Nat /\ counts.requests \in Nat /\ MaxMessages \in Nat /\ MaxAdmin \in Nat
    BY ChatsAssumption DEF RowTypes
<1>2. /\ made' = made /\ counts.messages < MaxMessages
      /\ counts' = [counts EXCEPT !.messages = counts.messages + 1]
    BY DEF Arrive
<1>3. /\ counts'.messages = counts.messages + 1 /\ counts'.requests = counts.requests
      /\ counts' \in [messages : Nat, requests : Nat, cuts : Nat]
    BY <1>1, <1>2
<1>4. /\ Room(made.codes, Holders(CodePCs)', counts.messages + 1)
      /\ Room(made.sessions, Holders(SessPCs)', counts.messages + 1)
      /\ Room(made.convs, Holders(ConvPCs)', counts.messages + 1)
    BY <1>1, RoomAsked
<1>5. Room(made.users, Holders(UserPCs)', counts.requests)
    <2>1. task'[t].pc \notin UserPCs
        BY ArriveIs DEF UserPCs
    <2> QED BY <1>1, <2>1, RoomKept
<1>6. counts'.messages <= MaxMessages /\ counts'.requests <= MaxAdmin
    BY <1>1, <1>2, <1>3
<1> QED BY <1>2, <1>3, <1>4, <1>5, <1>6 DEF Room

\* So does a request that is made.
LEMMA AskKeepsBudget ==
    ASSUME Budget, RowTypes, NEW t \in Tasks, \A x \in Tasks : x # t => task'[x] = task[x],
           NEW op, NEW pc \in {"check", "clean", "list"}, NEW cs, NEW us, Ask(t, op, pc, cs, us)
    PROVE  Budget'
<1> USE DEF Budget
<1>1. /\ made.codes \in Nat /\ made.sessions \in Nat /\ made.convs \in Nat /\ made.users \in Nat
      /\ counts.messages \in Nat /\ counts.requests \in Nat /\ MaxMessages \in Nat /\ MaxAdmin \in Nat
    BY ChatsAssumption DEF RowTypes
<1>2. /\ made' = made /\ counts.requests < MaxAdmin
      /\ counts' = [counts EXCEPT !.requests = counts.requests + 1]
    BY DEF Ask
<1>3. /\ counts'.requests = counts.requests + 1 /\ counts'.messages = counts.messages
      /\ counts' \in [messages : Nat, requests : Nat, cuts : Nat]
    BY <1>1, <1>2
<1>4. Room(made.users, Holders(UserPCs)', counts.requests + 1)
    BY <1>1, RoomAsked
<1>5. /\ Room(made.codes, Holders(CodePCs)', counts.messages)
      /\ Room(made.sessions, Holders(SessPCs)', counts.messages)
      /\ Room(made.convs, Holders(ConvPCs)', counts.messages)
    <2>1. task'[t].pc = pc
        BY DEF Ask, RowTypes, Idle
    <2>2. task'[t].pc \notin CodePCs /\ task'[t].pc \notin SessPCs /\ task'[t].pc \notin ConvPCs
        BY <2>1 DEF CodePCs, SessPCs, ConvPCs
    <2> QED BY <1>1, <2>2, RoomKept
<1>6. counts'.messages <= MaxMessages /\ counts'.requests <= MaxAdmin
    BY <1>1, <1>2, <1>3
<1> QED BY <1>2, <1>3, <1>4, <1>5, <1>6 DEF Room

\* Every other step of a message,
LEMMA MessageSpends ==
    ASSUME Budget, RowTypes, NEW t \in Tasks, MessageStep(t), ~\E op \in Kinds : Arrive(t, op)
    PROVE  Spends(t)
<1> USE DEF CodePCs, SessPCs, ConvPCs, UserPCs
<1>0. /\ made.codes \in Nat /\ made.sessions \in Nat /\ made.convs \in Nat /\ made.users \in Nat
      /\ counts \in [messages : Nat, requests : Nat, cuts : Nat]
    BY DEF RowTypes, Budget
<1>1. ASSUME counts' = counts, made' = made,
             task'[t].pc \in CodePCs => task[t].pc \in CodePCs,
             task'[t].pc \in SessPCs => task[t].pc \in SessPCs,
             task'[t].pc \in ConvPCs => task[t].pc \in ConvPCs,
             task'[t].pc \in UserPCs => task[t].pc \in UserPCs
      PROVE  Spends(t)
    BY <1>0, <1>1 DEF Spends
<1>2. CASE Authorize(t)
    <2>1. task[t].pc = "auth" /\ task'[t].pc \in {"pending", "find", "delete"}
        BY <1>2, AuthorizeIs
    <2> QED BY <1>1, <1>2, <2>1 DEF Authorize
<1>3. CASE ReadPending(t)
    <2>1. task[t].pc = "pending" /\ task'[t].pc = "expire"
        BY <1>3, ReadPendingIs
    <2> QED BY <1>1, <1>3, <2>1 DEF ReadPending
<1>4. CASE Expire(t)
    <2>1. task[t].pc = "expire" /\ task'[t].pc = "expire"
        BY <1>4, ExpireIs DEF Expire
    <2> QED BY <1>1, <1>4, <2>1 DEF Expire
<1>5. CASE CreatePairing(t)
    <2>1. task[t].pc = "expire" /\ task'[t].pc = "idle"
        BY <1>5, EndIs DEF CreatePairing
    <2>2. /\ made'.codes = made.codes + 1 /\ made'.sessions = made.sessions
          /\ made'.convs = made.convs /\ made'.users = made.users /\ counts' = counts
        BY <1>5 DEF CreatePairing, RowTypes
    <2> QED BY <1>0, <2>1, <2>2 DEF Spends
<1>6. CASE DeleteSessions(t)
    <2>1. task[t].pc = "delete" /\ task'[t].pc = "find"
        BY <1>6, GotoIs DEF DeleteSessions
    <2> QED BY <1>1, <1>6, <2>1 DEF DeleteSessions
<1>7. ASSUME NEW s, task' = [task EXCEPT ![t] = Found(t, s)] PROVE task'[t].pc \in {"idle", "reread"}
    BY <1>7, FoundIs, EndIs
<1>8. CASE FindSession(t)
    <2>1. task[t].pc = "find" /\ task'[t].pc \in {"idle", "reread", "insert"}
        BY <1>7, <1>8, GotoIs DEF FindSession
    <2> QED BY <1>1, <1>8, <2>1 DEF FindSession
<1>9. CASE InsertSession(t)
    <2>1. task[t].pc = "insert" /\ task'[t].pc \in {"idle", "reread"}
        BY <1>7, <1>9, EndIs DEF InsertSession
    <2>2. /\ made'.sessions = made.sessions \/ made'.sessions = made.sessions + 1
          /\ made'.codes = made.codes /\ made'.convs = made.convs /\ made'.users = made.users
          /\ counts' = counts
        BY <1>9 DEF InsertSession, RowTypes
    <2> QED BY <1>0, <2>1, <2>2 DEF Spends
<1>10. CASE Reread(t)
    <2>1. ASSUME NEW c, NEW p \in {"converse", "send"}, task' = [task EXCEPT ![t].conv = c, ![t].pc = p]
          PROVE  task'[t].pc \in {"converse", "send"}
        BY <2>1 DEF RowTypes, Task
    <2>2. task[t].pc = "reread" /\ task'[t].pc \in {"idle", "converse", "send"}
        <3>1. CASE End(t)
            BY <1>10, <3>1, EndIs DEF Reread
        <3>2. ASSUME NEW s \in session,
                     task' = [task EXCEPT ![t].conv = s.conv,
                                          ![t].pc = IF s.conv = {} THEN "converse" ELSE "send"]
              PROVE  task'[t].pc \in {"converse", "send"}
            <4> DEFINE p == IF s.conv = {} THEN "converse" ELSE "send"
            <4>1. p \in {"converse", "send"} /\ task' = [task EXCEPT ![t].conv = s.conv, ![t].pc = p]
                BY <3>2
            <4> HIDE DEF p
            <4> QED BY <2>1, <4>1
        <3> QED BY <1>10, <3>1, <3>2 DEF Reread
    <2> QED BY <1>1, <1>10, <2>2 DEF Reread
<1>11. CASE CreateConversation(t)
    <2>1. task[t].pc = "converse" /\ task'[t].pc = "send"
        BY <1>11, ConverseIs DEF CreateConversation
    <2>2. /\ made'.convs = made.convs + 1 /\ made'.sessions = made.sessions
          /\ made'.codes = made.codes /\ made'.users = made.users /\ counts' = counts
        BY <1>11 DEF CreateConversation, RowTypes
    <2> QED BY <1>0, <2>1, <2>2 DEF Spends
<1>12. CASE Send(t) \/ SendFails(t) \/ Bind(t)
    <2>1. End(t) \/ Goto(t, "bind")
        BY <1>12 DEF Send, SendFails, Bind
    <2>2. task'[t].pc \in {"idle", "bind"}
        BY <2>1, EndIs, GotoIs
    <2> QED BY <1>1, <1>12, <2>2 DEF Send, SendFails, Bind
<1> QED BY <1>2, <1>3, <1>4, <1>5, <1>6, <1>8, <1>9, <1>10, <1>11, <1>12 DEF MessageStep

\* and of a request.
LEMMA RequestSpends ==
    ASSUME Budget, RowTypes, NEW t \in Tasks,
           \/ Check(t) \/ Grant(t)
           \/ Conclude(t, "lapse", "expired") \/ Conclude(t, "approve", "approved")
           \/ Conclude(t, "reject", "rejected")
           \/ CleanSessions(t) \/ DeleteUser(t) \/ ListSessions(t) \/ ClearSessions(t)
    PROVE  Spends(t)
<1> USE DEF CodePCs, SessPCs, ConvPCs, UserPCs
<1>0. /\ made.codes \in Nat /\ made.sessions \in Nat /\ made.convs \in Nat /\ made.users \in Nat
      /\ counts \in [messages : Nat, requests : Nat, cuts : Nat]
    BY DEF RowTypes, Budget
<1>1. ASSUME counts' = counts, made' = made,
             task'[t].pc \in {"idle", "grant", "lapse", "reject", "revoke", "clear"},
             task'[t].pc = "grant" => task[t].pc = "check"
      PROVE  Spends(t)
    BY <1>0, <1>1 DEF Spends
<1>2. CASE Check(t)
    <2>1. PICK p \in {"grant", "lapse", "reject"} : End(t) \/ Goto(t, p)
        BY <1>2 DEF Check
    <2>2. task[t].pc = "check" /\ task'[t].pc \in {"idle", "grant", "lapse", "reject"}
        BY <1>2, <2>1, EndIs, GotoIs DEF Check
    <2> QED BY <1>1, <1>2, <2>2 DEF Check
<1>3. CASE Grant(t)
    <2>1. CASE Goto(t, "approve") /\ made' = [made EXCEPT !.users = made.users + 1]
        <3>1. task[t].pc = "grant" /\ task'[t].pc = "approve" /\ counts' = counts
            BY <1>3, <2>1, GotoIs DEF Grant
        <3>2. /\ made'.users = made.users + 1 /\ made'.sessions = made.sessions
              /\ made'.codes = made.codes /\ made'.convs = made.convs
            BY <2>1 DEF RowTypes
        <3> QED BY <1>0, <3>1, <3>2 DEF Spends
    <2>2. CASE End(t) /\ UNCHANGED made
        <3>1. task'[t].pc = "idle" /\ counts' = counts
            BY <1>3, <2>2, EndIs DEF Grant
        <3> QED BY <1>1, <2>2, <3>1
    <2> QED BY <1>3, <2>1, <2>2 DEF Grant
<1>4. CASE \/ Conclude(t, "lapse", "expired") \/ Conclude(t, "approve", "approved")
           \/ Conclude(t, "reject", "rejected")
    <2>1. task'[t].pc = "idle"
        BY <1>4, EndIs DEF Conclude
    <2> QED BY <1>1, <1>4, <2>1 DEF Conclude
<1>5. CASE CleanSessions(t) \/ DeleteUser(t) \/ ClearSessions(t)
    <2>1. End(t) \/ Goto(t, "revoke")
        BY <1>5 DEF CleanSessions, DeleteUser, ClearSessions
    <2>2. task'[t].pc \in {"idle", "revoke"}
        BY <2>1, EndIs, GotoIs
    <2> QED BY <1>1, <1>5, <2>2 DEF CleanSessions, DeleteUser, ClearSessions
<1>6. CASE ListSessions(t)
    <2>1. PICK us : task' = [task EXCEPT ![t].user = us, ![t].pc = "clear"]
        BY <1>6 DEF ListSessions
    <2>2. task'[t].pc = "clear"
        BY <2>1 DEF RowTypes, Task
    <2> QED BY <1>1, <1>6, <2>2 DEF ListSessions
<1> QED BY <1>2, <1>3, <1>4, <1>5, <1>6

\* The bounds hold for good.
LEMMA BudgetInit == Init => Budget
<1> SUFFICES ASSUME Init PROVE Budget
    OBVIOUS
<1>1. \A t \in Tasks : task[t].pc = "idle"
    BY DEF Init, Idle
<1>2. /\ Holders(CodePCs) = {} /\ Holders(SessPCs) = {} /\ Holders(ConvPCs) = {} /\ Holders(UserPCs) = {}
    BY <1>1 DEF Holders, CodePCs, SessPCs, ConvPCs, UserPCs
<1>3. IsFiniteSet({}) /\ Cardinality({}) = 0
    BY FS_EmptySet
<1>4. /\ made.codes = 0 /\ made.sessions = 0 /\ made.convs = 0 /\ made.users = 0
      /\ counts = [messages |-> 0, requests |-> 0, cuts |-> 0]
    BY DEF Init
<1> QED BY <1>2, <1>3, <1>4, ChatsAssumption DEF Budget, Room

\* Every step stays within the bounds.
LEMMA BudgetStep == AuthInv /\ Budget /\ [Next]_vars => Budget'
<1> SUFFICES ASSUME AuthInv, Budget, [Next]_vars PROVE Budget'
    OBVIOUS
<1>0. RowTypes
    BY DEF AuthInv
<1>1. ASSUME NEW t \in Messages, MessageStep(t) PROVE Budget'
    <2>1. t \in Tasks
        BY DEF Tasks
    <2>2. \A x \in Tasks : x # t => task'[x] = task[x]
        BY <1>0, <1>1, <2>1, OthersStay
    <2>3. CASE \E op \in Kinds : Arrive(t, op)
        BY <1>0, <2>1, <2>2, <2>3, ArriveKeepsBudget
    <2>4. CASE ~\E op \in Kinds : Arrive(t, op)
        BY <1>0, <1>1, <2>1, <2>2, <2>4, MessageSpends, SpendingKeepsBudget
    <2> QED BY <2>3, <2>4
<1>2. ASSUME NEW t \in Admins, AdminStep(t) PROVE Budget'
    <2>1. t \in Tasks
        BY DEF Tasks
    <2>2. \A x \in Tasks : x # t => task'[x] = task[x]
        BY <1>0, <1>2, <2>1, OthersStay
    <2>3. ASSUME NEW op, NEW pc \in {"check", "clean", "list"}, NEW cs, NEW us, Ask(t, op, pc, cs, us)
          PROVE  Budget'
        BY <1>0, <2>1, <2>2, <2>3, AskKeepsBudget
    <2>4. CASE \/ \E op \in {"approve", "reject"}, c \in Ids : AskPairing(t, op, c)
               \/ \E u \in UserIds : AskRevoke(t, u)
               \/ AskSync(t)
        BY <2>3, <2>4 DEF AskPairing, AskRevoke, AskSync
    <2>5. CASE ~(\/ \E op \in {"approve", "reject"}, c \in Ids : AskPairing(t, op, c)
                 \/ \E u \in UserIds : AskRevoke(t, u)
                 \/ AskSync(t))
        <3>1. Spends(t)
            BY <1>0, <1>2, <2>1, <2>5, RequestSpends DEF AdminStep
        <3> QED BY <1>0, <2>1, <2>2, <3>1, SpendingKeepsBudget
    <2> QED BY <2>4, <2>5
<1>3. CASE Age \/ Cleanup \/ \E c \in Ids : DeleteConversation(c)
    <2>1. UNCHANGED <<task, made, counts>>
        BY <1>3 DEF Age, Cleanup, DeleteConversation
    <2> QED BY <2>1 DEF Budget, Room, Holders
<1>4. ASSUME NEW t \in Tasks, CutOff(t) PROVE Budget'
    <2>1. \A x \in Tasks : x # t => task'[x] = task[x]
        BY <1>0, <1>4, OthersStay
    <2>2. task'[t].pc = "idle"
        BY <1>0, <1>4, EndIs DEF CutOff
    <2>3. /\ made' = made /\ counts'.messages = counts.messages /\ counts'.requests = counts.requests
          /\ counts' \in [messages : Nat, requests : Nat, cuts : Nat]
        BY <1>4 DEF CutOff, Budget
    <2>4. Spends(t)
        BY <2>2, <2>3 DEF Spends, CodePCs, SessPCs, ConvPCs, UserPCs
    <2> QED BY <1>0, <2>1, <2>4, SpendingKeepsBudget
<1>5. CASE UNCHANGED vars
    BY <1>5 DEF vars, Budget, Room, Holders
<1> QED BY <1>1, <1>2, <1>3, <1>4, <1>5 DEF Next

-----------------------------------------------------------------------------
(* What a task knows at each statement, and the numbers of what it holds.    *)

\* From its session on, a message holds one; it binds the conversation exactly if it
\* was the session's first; session.new and text messages alone look for a session.
Serving == {"reread", "converse", "send", "bind"}
Stage(t) ==
    /\ task[t].first => task[t].pc \in Serving
    /\ task[t].pc = "bind" => task[t].first
    /\ task[t].pc \in Serving => \E k \in Nat : task[t].sess = {k}
    /\ task[t].pc = "auth" => task[t].op \in Kinds
    /\ task[t].pc \in {"delete", "find"} => task[t].op \in {"text", "new"}
Stages == \A t \in Tasks : Stage(t)

\* A step of a task that ends or does not hold a session: nothing is said to an
\* agent, and no row is made.
Aside(t) ==
    /\ session' \subseteq session /\ UNCHANGED <<convs, reached>>
    /\ made'.sessions = made.sessions /\ made'.convs = made.convs
    /\ raced \subseteq raced'
    /\ task'[t].pc \notin Serving /\ task'[t].pc # "insert" /\ ~task'[t].first
    /\ task'[t].sess \subseteq task[t].sess /\ task'[t].conv \subseteq task[t].conv
    /\ task[t].pc = "bind" => "session" \in raced'
    /\ task'[t].pc = "auth" => task'[t].op \in Kinds
    /\ task'[t].pc \in {"delete", "find"} => task'[t].op \in {"text", "new"}

\* The steps that end a task, or move one that holds no session.
LEMMA EndsAside ==
    ASSUME RowTypes, NEW t \in Tasks, End(t), session' \subseteq session, UNCHANGED <<convs, reached>>,
           made'.sessions = made.sessions, made'.convs = made.convs, raced \subseteq raced',
           task[t].pc = "bind" => "session" \in raced'
    PROVE  Aside(t)
<1>1. /\ task'[t].op = "none" /\ task'[t].pc = "idle" /\ task'[t].sess = {}
      /\ task'[t].conv = {} /\ task'[t].first = FALSE
    BY EndIs
<1> QED BY <1>1 DEF Aside, Serving

\* A task that holds no session moves on.
LEMMA MovesAside ==
    ASSUME NEW t \in Tasks, Stage(t), session' \subseteq session, UNCHANGED <<convs, reached>>,
           made'.sessions = made.sessions, made'.convs = made.convs, raced \subseteq raced',
           task[t].pc \notin Serving, task'[t].pc \notin Serving, task'[t].pc # "insert",
           task'[t].first = task[t].first,
           task'[t].sess = task[t].sess, task'[t].conv = task[t].conv, task'[t].pc # "auth",
           task'[t].pc \in {"delete", "find"} => task'[t].op \in {"text", "new"}
    PROVE  Aside(t)
BY DEF Aside, Stage, Serving

\* The steps of a message that are no matter of a session,
LEMMA MessageAside ==
    ASSUME RowTypes, NEW t \in Tasks, Stage(t),
           \/ \E op \in Kinds : Arrive(t, op)
           \/ Authorize(t) \/ ReadPending(t) \/ Expire(t) \/ CreatePairing(t)
           \/ DeleteSessions(t) \/ SendFails(t)
           \/ InsertSession(t) /\ ~References(t)
    PROVE  Aside(t)
<1> USE DEF Serving
<1>1. ASSUME NEW op \in Kinds, Arrive(t, op) PROVE Aside(t)
    <2>1. /\ task[t].pc = "idle" /\ task'[t].pc = "auth" /\ task'[t].sess = {}
          /\ task'[t].conv = {} /\ task'[t].first = FALSE /\ task'[t].op = op
        BY <1>1, ArriveIs
    <2>2. UNCHANGED <<session, convs, reached, made, raced>>
        BY <1>1 DEF Arrive, chats
    <2> QED BY <2>1, <2>2 DEF Aside
<1>2. CASE Authorize(t)
    <2>1. /\ task[t].pc = "auth" /\ task'[t].pc \in {"pending", "find", "delete"}
          /\ task'[t].sess = task[t].sess /\ task'[t].conv = task[t].conv
          /\ task'[t].first = task[t].first /\ task'[t].op = task[t].op
        BY <1>2, AuthorizeIs
    <2>2. UNCHANGED <<session, convs, reached, made>> /\ raced \subseteq raced'
        BY <1>2 DEF Authorize, chats, StartPairing
    <2>3. task'[t].pc \in {"delete", "find"} => task[t].op \in {"text", "new"}
        <3>1. task'[t].pc = IF user = {} \/ task[t].op = "refresh" THEN "pending"
                            ELSE IF task[t].op = "text" THEN "find" ELSE "delete"
            BY <1>2 DEF Authorize, RowTypes, Task
        <3>2. task[t].op \in Kinds
            BY <2>1 DEF Stage
        <3> QED BY <3>1, <3>2 DEF Kinds
    <2> QED BY <2>1, <2>2, <2>3, MovesAside
<1>3. CASE ReadPending(t)
    <2>1. UNCHANGED <<session, convs, reached, made, raced>>
        BY <1>3 DEF ReadPending, chats
    <2> QED BY <1>3, <2>1, ReadPendingIs, MovesAside
<1>4. CASE Expire(t)
    <2>1. UNCHANGED <<session, convs, reached, made, raced>> /\ task[t].pc = "expire"
        BY <1>4 DEF Expire, chats
    <2>2. PICK c : task' = [task EXCEPT ![t].codes = task[t].codes \ {c}]
        BY <1>4 DEF Expire
    <2> QED BY <2>1, <2>2, ExpireIs, MovesAside
<1>5. CASE CreatePairing(t)
    <2>1. End(t) /\ task[t].pc = "expire" /\ UNCHANGED <<session, convs, reached, raced>>
        BY <1>5 DEF CreatePairing, chats
    <2>2. made'.sessions = made.sessions /\ made'.convs = made.convs
        BY <1>5 DEF CreatePairing, RowTypes
    <2> QED BY <2>1, <2>2, EndsAside
<1>6. CASE DeleteSessions(t)
    <2>1. UNCHANGED <<convs, reached, made, raced>> /\ session' \subseteq session /\ task[t].pc = "delete"
        BY <1>6 DEF DeleteSessions
    <2>2. /\ task'[t].pc = "find" /\ task'[t].sess = task[t].sess /\ task'[t].conv = task[t].conv
          /\ task'[t].first = task[t].first /\ task'[t].op = task[t].op
        BY <1>6, GotoIs DEF DeleteSessions
    <2>3. task[t].op \in {"text", "new"}
        BY <2>1 DEF Stage
    <2> QED BY <2>1, <2>2, <2>3, MovesAside
<1>7. CASE SendFails(t) \/ (InsertSession(t) /\ ~References(t))
    <2>1. End(t) /\ task[t].pc # "bind" /\ UNCHANGED <<session, convs, reached, made, raced>>
        BY <1>7 DEF SendFails, InsertSession, chats
    <2> QED BY <2>1, EndsAside
<1> QED BY <1>1, <1>2, <1>3, <1>4, <1>5, <1>6, <1>7

\* all steps of a request,
LEMMA RequestAside ==
    ASSUME RowTypes, NEW t \in Tasks, Stage(t), AdminStep(t)
    PROVE  Aside(t)
<1> USE DEF Serving
<1>1. ASSUME NEW op, NEW pc \in {"check", "clean", "list"}, NEW cs, NEW us, Ask(t, op, pc, cs, us),
             raced \subseteq raced'
      PROVE  Aside(t)
    <2>1. /\ task'[t].pc = pc /\ task'[t].sess = {} /\ task'[t].conv = {} /\ task'[t].first = FALSE
          /\ task[t].pc = "idle"
        BY <1>1 DEF Ask, RowTypes, Idle
    <2>2. UNCHANGED <<session, convs, reached, made>>
        BY <1>1 DEF Ask, chats
    <2> QED BY <1>1, <2>1, <2>2 DEF Aside
<1>2. CASE \/ \E op \in {"approve", "reject"}, c \in Ids : AskPairing(t, op, c)
           \/ \E u \in UserIds : AskRevoke(t, u)
           \/ AskSync(t)
    BY <1>1, <1>2 DEF AskPairing, AskRevoke, AskSync, StartPairing
<1>3. ASSUME NEW p \in {"grant", "lapse", "reject", "approve", "revoke"}, Goto(t, p), task[t].pc \notin Serving,
             session' \subseteq session, UNCHANGED <<convs, reached, raced>>,
             made'.sessions = made.sessions, made'.convs = made.convs
      PROVE  Aside(t)
    <2>1. /\ task'[t].pc = p /\ task'[t].sess = task[t].sess /\ task'[t].conv = task[t].conv
          /\ task'[t].first = task[t].first
        BY <1>3 DEF Goto, RowTypes, Task
    <2> QED BY <1>3, <2>1, MovesAside
<1>4. CASE Check(t)
    <2>1. PICK p \in {"grant", "lapse", "reject"} : End(t) \/ Goto(t, p)
        BY <1>4 DEF Check
    <2>2. task[t].pc = "check" /\ UNCHANGED <<session, convs, reached, made, raced>>
        BY <1>4 DEF Check, chats
    <2> QED BY <1>3, <2>1, <2>2, EndsAside
<1>5. CASE Grant(t)
    <2>1. task[t].pc = "grant" /\ UNCHANGED <<session, convs, reached, raced>>
        BY <1>5 DEF Grant, chats
    <2>2. End(t) \/ Goto(t, "approve")
        BY <1>5 DEF Grant
    <2>3. made'.sessions = made.sessions /\ made'.convs = made.convs
        BY <1>5 DEF Grant, RowTypes
    <2> QED BY <1>3, <2>1, <2>2, <2>3, EndsAside
<1>6. CASE \/ Conclude(t, "lapse", "expired") \/ Conclude(t, "approve", "approved")
           \/ Conclude(t, "reject", "rejected")
    <2>1. End(t) /\ task[t].pc # "bind" /\ UNCHANGED <<session, convs, reached, made, raced>>
        BY <1>6 DEF Conclude, chats
    <2> QED BY <2>1, EndsAside
<1>7. CASE CleanSessions(t)
    <2>1. /\ task[t].pc = "clean" /\ Goto(t, "revoke")
          /\ session' \subseteq session /\ UNCHANGED <<convs, reached, made, raced>>
        BY <1>7 DEF CleanSessions
    <2> QED BY <1>3, <2>1
<1>8. CASE DeleteUser(t) \/ ClearSessions(t)
    <2>1. /\ task[t].pc # "bind" /\ End(t)
          /\ session' \subseteq session /\ UNCHANGED <<convs, reached, made, raced>>
        BY <1>8 DEF DeleteUser, ClearSessions
    <2> QED BY <2>1, EndsAside
<1>9. CASE ListSessions(t)
    <2>1. PICK us : task' = [task EXCEPT ![t].user = us, ![t].pc = "clear"]
        BY <1>9 DEF ListSessions
    <2>2. /\ task'[t].pc = "clear" /\ task'[t].sess = task[t].sess /\ task'[t].conv = task[t].conv
          /\ task'[t].first = task[t].first
        BY <2>1 DEF RowTypes, Task
    <2>3. task[t].pc = "list" /\ UNCHANGED <<session, convs, reached, made, raced>>
        BY <1>9 DEF ListSessions, chats
    <2> QED BY <2>2, <2>3, MovesAside
<1> QED BY <1>2, <1>4, <1>5, <1>6, <1>7, <1>8, <1>9 DEF AdminStep

\* and the end of a task that is cut off.
LEMMA CutAside ==
    ASSUME RowTypes, NEW t \in Tasks, CutOff(t)
    PROVE  Aside(t)
<1>1. End(t) /\ UNCHANGED <<session, convs, reached, made>>
    BY DEF CutOff, chats
<1>2. raced \subseteq raced' /\ (task[t].pc = "bind" => "session" \in raced')
    BY DEF CutOff
<1> QED BY <1>1, <1>2, EndsAside

\* The steps of a message that serve a session, field by field: it looks for one,
LEMMA FindIs ==
    ASSUME RowTypes, NEW t \in Tasks, Stage(t), FindSession(t)
    PROVE  /\ task[t].pc = "find" /\ ~task[t].first
           /\ UNCHANGED <<session, convs, reached, made>> /\ raced \subseteq raced'
           /\ \/ End(t)
              \/ \E s \in Mine(t) :
                    /\ task'[t].pc = "reread" /\ task'[t].sess = {s.id} /\ task'[t].first = (s.conv = {})
                    /\ task'[t].user = task[t].user /\ task'[t].conv = task[t].conv
                    /\ task'[t].op = task[t].op
                    /\ s.conv = {} /\ "session" \notin raced' =>
                           \A o \in Tasks \ {t} : ~(task[o].first /\ task[o].sess = {s.id})
              \/ /\ Mine(t) = {} /\ task'[t].pc = "insert" /\ ~task'[t].first
                 /\ task'[t].user = task[t].user /\ task'[t].conv = task[t].conv
                 /\ task'[t].sess = task[t].sess
                 /\ "session" \notin raced' => \A o \in Tasks \ {t} : task[o].pc # "insert"
<1>1. /\ task[t].pc = "find" /\ ~task[t].first /\ task[t].op \in {"text", "new"}
      /\ UNCHANGED <<session, convs, reached, made>> /\ raced \subseteq raced'
    BY DEF FindSession, Stage, Serving, chats
<1>2. CASE \E s \in Mine(t) :
              /\ task' = [task EXCEPT ![t] = Found(t, s)]
              /\ raced' = IF /\ task[t].op = "text" /\ s.conv = {}
                             /\ \E o \in Tasks \ {t} : task[o].first /\ task[o].sess = {s.id}
                          THEN raced \cup {"session"} ELSE raced
    <2>1. PICK s \in Mine(t) :
              /\ task' = [task EXCEPT ![t] = Found(t, s)]
              /\ raced' = IF /\ task[t].op = "text" /\ s.conv = {}
                             /\ \E o \in Tasks \ {t} : task[o].first /\ task[o].sess = {s.id}
                          THEN raced \cup {"session"} ELSE raced
        BY <1>2
    <2>2. \/ End(t)
          \/ /\ task[t].op # "new"
             /\ task'[t].pc = "reread" /\ task'[t].sess = {s.id} /\ task'[t].first = (s.conv = {})
             /\ task'[t].op = task[t].op /\ task'[t].user = task[t].user
             /\ task'[t].conv = task[t].conv
        BY <2>1, FoundIs, Zenon
    <2>3. task[t].op # "new" => task[t].op = "text"
        BY <1>1
    <2>4. /\ task[t].op # "new" /\ s.conv = {} /\ "session" \notin raced'
          => \A o \in Tasks \ {t} : ~(task[o].first /\ task[o].sess = {s.id})
        BY <2>1, <2>3
    <2> QED BY <1>1, <2>2, <2>4, Zenon
<1>3. CASE /\ Mine(t) = {}
           /\ Goto(t, "insert")
           /\ raced' = IF \E o \in Tasks \ {t} : task[o].pc = "insert"
                       THEN raced \cup {"session"} ELSE raced
    <2>1. /\ task'[t].pc = "insert" /\ task'[t].user = task[t].user /\ task'[t].conv = task[t].conv
          /\ task'[t].sess = task[t].sess /\ ~task'[t].first
        BY <1>1, <1>3, GotoIs
    <2>2. "session" \notin raced' => \A o \in Tasks \ {t} : task[o].pc # "insert"
        BY <1>3
    <2> QED BY <1>1, <1>3, <2>1, <2>2, Zenon
<1> QED BY <1>2, <1>3 DEF FindSession

\* makes one,
LEMMA InsertIs ==
    ASSUME AuthInv, NEW t \in Tasks, Stage(t), InsertSession(t), References(t)
    PROVE  \E u \in Nat, r \in [id : Nat, user : Nat, conv : SUBSET Nat] :
              /\ task[t].pc = "insert" /\ ~task[t].first /\ task[t].user = {u}
              /\ r.id = made.sessions + 1 /\ r.user = u /\ r.conv = {}
              /\ session' = session \cup {r} /\ UNCHANGED <<convs, reached, raced>>
              /\ made'.sessions = made.sessions + 1 /\ made'.convs = made.convs
              /\ \/ End(t)
                 \/ /\ task'[t].pc = "reread" /\ task'[t].sess = {r.id} /\ task'[t].first
                    /\ task'[t].user = task[t].user /\ task'[t].conv = task[t].conv
                    /\ task'[t].op = task[t].op
<1>1. task[t].pc = "insert" /\ ~task[t].first /\ RowTypes
    BY DEF InsertSession, Stage, Serving, AuthInv
<1>2. PICK u \in Nat : task[t].user = {u}
    BY <1>1 DEF AuthInv, Known
<1> DEFINE r == [id |-> made.sessions + 1, user |-> CHOOSE v \in task[t].user : TRUE, conv |-> {}]
<1>3. /\ session' = session \cup {r} /\ made' = [made EXCEPT !.sessions = r.id]
      /\ task' = [task EXCEPT ![t] = Found(t, r)]
    BY DEF InsertSession
<1>4. r.id = made.sessions + 1 /\ r.user = u /\ r.conv = {}
    BY <1>2
<1>5. made \in [users : Nat, sessions : Nat, convs : Nat, codes : Nat]
    BY <1>1 DEF RowTypes
<1>6. r \in [id : Nat, user : Nat, conv : SUBSET Nat]
    BY <1>2, <1>5
<1> HIDE DEF r
<1>7. made'.sessions = made.sessions + 1 /\ made'.convs = made.convs
    BY <1>3, <1>4, <1>5
<1>8. \/ End(t)
      \/ /\ task'[t].pc = "reread" /\ task'[t].sess = {r.id} /\ task'[t].first = (r.conv = {})
         /\ task'[t].op = task[t].op /\ task'[t].user = task[t].user
         /\ task'[t].conv = task[t].conv
    BY <1>1, <1>3, FoundIs, Zenon
<1>9. UNCHANGED <<convs, reached, raced>>
    BY DEF InsertSession
<1> QED BY <1>1, <1>2, <1>3, <1>4, <1>6, <1>7, <1>8, <1>9

\* reads it again,
LEMMA RereadIs ==
    ASSUME RowTypes, NEW t \in Tasks, Reread(t)
    PROVE  /\ task[t].pc = "reread" /\ UNCHANGED <<session, convs, reached, made, raced>>
           /\ \/ End(t)
              \/ \E s \in session :
                    /\ task[t].sess = {s.id}
                    /\ task'[t].conv = s.conv
                    /\ task'[t].pc = IF s.conv = {} THEN "converse" ELSE "send"
                    /\ task'[t].sess = task[t].sess /\ task'[t].first = task[t].first
                    /\ task'[t].user = task[t].user /\ task'[t].op = task[t].op
<1>1. task[t].pc = "reread" /\ UNCHANGED <<session, convs, reached, made, raced>>
    BY DEF Reread, chats
<1>2. ASSUME NEW s \in session, task[t].sess = {s.id}, NEW p,
             task' = [task EXCEPT ![t].conv = s.conv, ![t].pc = p]
      PROVE  /\ task'[t].conv = s.conv /\ task'[t].pc = p
             /\ task'[t].sess = task[t].sess /\ task'[t].first = task[t].first
             /\ task'[t].user = task[t].user /\ task'[t].op = task[t].op
    <2>1. PICK c : c = s.conv
        OBVIOUS
    <2>2. task' = [task EXCEPT ![t].conv = c, ![t].pc = p]
        BY <1>2, <2>1
    <2>3. /\ task'[t].conv = c /\ task'[t].pc = p
          /\ task'[t].sess = task[t].sess /\ task'[t].first = task[t].first
          /\ task'[t].user = task[t].user /\ task'[t].op = task[t].op
        BY <2>2 DEF RowTypes, Task
    <2> QED BY <2>1, <2>3
<1>3. CASE \E s \in session :
              /\ task[t].sess = {s.id}
              /\ task' = [task EXCEPT ![t].conv = s.conv,
                                      ![t].pc = IF s.conv = {} THEN "converse" ELSE "send"]
    <2>1. PICK s \in session :
              /\ task[t].sess = {s.id}
              /\ task' = [task EXCEPT ![t].conv = s.conv,
                                      ![t].pc = IF s.conv = {} THEN "converse" ELSE "send"]
        BY <1>3
    <2>2. PICK p : p = IF s.conv = {} THEN "converse" ELSE "send"
        OBVIOUS
    <2>3. task' = [task EXCEPT ![t].conv = s.conv, ![t].pc = p]
        BY <2>1, <2>2
    <2>4. /\ task'[t].conv = s.conv /\ task'[t].pc = p
          /\ task'[t].sess = task[t].sess /\ task'[t].first = task[t].first
          /\ task'[t].user = task[t].user /\ task'[t].op = task[t].op
        BY <1>2, <2>1, <2>3
    <2> QED BY <1>1, <2>1, <2>2, <2>4, Zenon
<1> QED BY <1>1, <1>3 DEF Reread

\* makes a conversation for it,
LEMMA CreateIs ==
    ASSUME RowTypes, NEW t \in Tasks, CreateConversation(t)
    PROVE  /\ task[t].pc = "converse" /\ task'[t].pc = "send"
           /\ task'[t].conv = {made.convs + 1} /\ convs' = convs \cup {made.convs + 1}
           /\ made'.convs = made.convs + 1 /\ made'.sessions = made.sessions
           /\ task'[t].sess = task[t].sess /\ task'[t].first = task[t].first
           /\ task'[t].user = task[t].user /\ task'[t].op = task[t].op
           /\ UNCHANGED <<session, reached, raced>>
<1>1. /\ task[t].pc = "converse" /\ convs' = convs \cup {made.convs + 1}
      /\ UNCHANGED <<session, reached, raced>>
    BY DEF CreateConversation
<1>2. made'.convs = made.convs + 1 /\ made'.sessions = made.sessions
    BY DEF CreateConversation, RowTypes
<1>3. PICK c : c = {made.convs + 1}
    OBVIOUS
<1>4. task' = [task EXCEPT ![t].conv = c, ![t].pc = "send"]
    BY <1>3 DEF CreateConversation
<1>5. /\ task'[t].pc = "send" /\ task'[t].conv = c
      /\ task'[t].sess = task[t].sess /\ task'[t].first = task[t].first
      /\ task'[t].user = task[t].user /\ task'[t].op = task[t].op
    BY <1>4 DEF RowTypes, Task
<1> QED BY <1>1, <1>2, <1>3, <1>5

\* and sends.
LEMMA SendIs ==
    ASSUME RowTypes, NEW t \in Tasks, Send(t)
    PROVE  /\ task[t].pc = "send" /\ task[t].conv \subseteq convs
           /\ reached' = [s \in Ids |-> IF s \in task[t].sess THEN reached[s] \cup task[t].conv
                                                             ELSE reached[s]]
           /\ UNCHANGED <<session, convs, made, raced>>
           /\ task[t].first =>
                 /\ task'[t].pc = "bind" /\ task'[t].conv = task[t].conv
                 /\ task'[t].sess = task[t].sess /\ task'[t].first
                 /\ task'[t].user = task[t].user /\ task'[t].op = task[t].op
           /\ ~task[t].first => End(t)
<1>1. task[t].first => Goto(t, "bind")
    BY DEF Send
<1>2. task[t].first =>
          /\ task'[t].pc = "bind" /\ task'[t].conv = task[t].conv
          /\ task'[t].sess = task[t].sess /\ task'[t].first
          /\ task'[t].user = task[t].user /\ task'[t].op = task[t].op
    BY <1>1, GotoIs
<1> QED BY <1>2 DEF Send

\* Every step of a message is one of these.
LEMMA MessageCases ==
    ASSUME RowTypes, NEW t \in Tasks, Stage(t), MessageStep(t)
    PROVE  \/ Aside(t) \/ FindSession(t)
           \/ InsertSession(t) /\ References(t)
           \/ Reread(t) \/ CreateConversation(t) \/ Send(t) \/ Bind(t)
BY MessageAside DEF MessageStep

\* A task goes through its statements in their order.
LEMMA StagesInit == Init => Stages
BY DEF Init, Stages, Stage, Idle, Serving

\* Every step takes its task from one statement to the next.
LEMMA StagesStep == AuthInv /\ Stages /\ [Next]_vars => Stages'
<1> SUFFICES ASSUME AuthInv, Stages, [Next]_vars PROVE Stages'
    OBVIOUS
<1>0. RowTypes
    BY DEF AuthInv
<1>1. ASSUME NEW t \in Tasks, \A x \in Tasks : x # t => task'[x] = task[x], Stage(t)'
      PROVE  Stages'
    BY <1>1 DEF Stages, Stage
<1>2. ASSUME NEW t, Aside(t) PROVE Stage(t)'
    BY <1>2 DEF Aside, Stage, Serving
<1>3. ASSUME NEW t \in Tasks, End(t) PROVE Stage(t)'
    BY <1>0, <1>3, EndIs DEF Stage, Serving
<1>4. ASSUME NEW t \in Messages, MessageStep(t) PROVE Stages'
    <2>1. t \in Tasks /\ Stage(t)
        BY DEF Tasks, Stages
    <2>2. \A x \in Tasks : x # t => task'[x] = task[x]
        BY <1>0, <1>4, <2>1, OthersStay
    <2>3. CASE FindSession(t)
        <3>1. \/ End(t)
              \/ \E k : task'[t].pc = "reread" /\ task'[t].sess = {k}
              \/ task'[t].pc = "insert" /\ ~task'[t].first
            BY <1>0, <2>1, <2>3, FindIs
        <3>2. ASSUME NEW s \in Mine(t) PROVE s.id \in Nat
            BY <1>0 DEF Mine, RowTypes
        <3>3. \/ End(t)
              \/ \E k \in Nat : task'[t].pc = "reread" /\ task'[t].sess = {k}
              \/ task'[t].pc = "insert" /\ ~task'[t].first
            BY <1>0, <2>1, <2>3, <3>2, FindIs
        <3>4. Stage(t)'
            BY <1>3, <2>1, <3>3 DEF Stage, Serving
        <3> QED BY <1>1, <2>1, <2>2, <3>4
    <2>4. CASE InsertSession(t) /\ References(t)
        <3>1. End(t) \/ \E k \in Nat : task'[t].pc = "reread" /\ task'[t].sess = {k}
            BY <2>1, <2>4, InsertIs
        <3>2. Stage(t)'
            BY <1>3, <2>1, <3>1 DEF Stage, Serving
        <3> QED BY <1>1, <2>1, <2>2, <3>2
    <2>5. CASE Reread(t)
        <3>1. task[t].pc = "reread" /\ \E k \in Nat : task[t].sess = {k}
            BY <1>0, <2>1, <2>5, RereadIs DEF Stage, Serving
        <3>2. End(t) \/ (task'[t].pc \in {"converse", "send"} /\ task'[t].sess = task[t].sess)
            BY <1>0, <2>1, <2>5, RereadIs
        <3>3. Stage(t)'
            BY <1>3, <2>1, <3>1, <3>2 DEF Stage, Serving
        <3> QED BY <1>1, <2>1, <2>2, <3>3
    <2>6. CASE CreateConversation(t)
        <3>1. /\ task[t].pc = "converse" /\ task'[t].pc = "send"
              /\ task'[t].sess = task[t].sess /\ task'[t].first = task[t].first
            BY <1>0, <2>1, <2>6, CreateIs
        <3>2. Stage(t)'
            BY <2>1, <3>1 DEF Stage, Serving
        <3> QED BY <1>1, <2>1, <2>2, <3>2
    <2>7. CASE Send(t)
        <3>1. /\ task[t].pc = "send"
              /\ \/ End(t)
                 \/ task'[t].pc = "bind" /\ task'[t].sess = task[t].sess /\ task'[t].first
            BY <1>0, <2>1, <2>7, SendIs
        <3>2. Stage(t)'
            BY <1>3, <2>1, <3>1 DEF Stage, Serving
        <3> QED BY <1>1, <2>1, <2>2, <3>2
    <2>8. CASE Bind(t)
        BY <1>1, <1>3, <2>1, <2>2, <2>8 DEF Bind
    <2> QED BY <1>0, <1>1, <1>2, <1>4, <2>1, <2>2, <2>3, <2>4, <2>5, <2>6, <2>7, <2>8, MessageCases
<1>5. ASSUME NEW t \in Admins, AdminStep(t) PROVE Stages'
    <2>1. t \in Tasks /\ Stage(t)
        BY DEF Tasks, Stages
    <2>2. \A x \in Tasks : x # t => task'[x] = task[x]
        BY <1>0, <1>5, <2>1, OthersStay
    <2>3. Aside(t)
        BY <1>0, <1>5, <2>1, RequestAside
    <2> QED BY <1>1, <1>2, <2>1, <2>2, <2>3
<1>6. ASSUME NEW t \in Tasks, CutOff(t) PROVE Stages'
    <2>1. \A x \in Tasks : x # t => task'[x] = task[x]
        BY <1>0, <1>6, OthersStay
    <2> QED BY <1>1, <1>3, <1>6, <2>1 DEF CutOff
<1>7. CASE Age \/ Cleanup \/ (\E c \in Ids : DeleteConversation(c)) \/ UNCHANGED vars
    <2>1. UNCHANGED task
        BY <1>7 DEF Age, Cleanup, DeleteConversation, vars
    <2> QED BY <2>1 DEF Stages, Stage
<1> QED BY <1>4, <1>5, <1>6, <1>7 DEF Next

\* Rows and what tasks hold of them are numbered as they are made; a session is bound
\* to conversations that exist, and its messages reached those.
Numbers(t) == task[t].sess \subseteq 1..made.sessions /\ task[t].conv \subseteq 1..made.convs
RowsNumbered ==
    /\ \A s \in session : s.id \in 1..made.sessions /\ s.conv \subseteq convs
    /\ convs \subseteq 1..made.convs
    /\ \A t \in Tasks : Numbers(t)
    /\ reached \in [Ids -> SUBSET convs]
    /\ \A k \in Ids : k > made.sessions => reached[k] = {}

\* There are no rows at first.
LEMMA RowsInit == Init => RowsNumbered
BY DEF Init, RowsNumbered, Numbers, Idle

\* What a step must show of its task and its rows.
LEMMA RowsNumberedKeep ==
    ASSUME RowsNumbered, RowTypes, NEW t \in Tasks, \A x \in Tasks : x # t => task'[x] = task[x],
           made'.sessions \in Nat, made'.convs \in Nat,
           made.sessions <= made'.sessions, made.convs <= made'.convs,
           \A s \in session' : s.id \in 1..made'.sessions /\ s.conv \subseteq convs',
           convs' \subseteq 1..made'.convs, Numbers(t)', reached' \in [Ids -> SUBSET convs'],
           \A k \in Ids : k > made'.sessions => reached'[k] = {}
    PROVE  RowsNumbered'
<1>1. made.sessions \in Nat /\ made.convs \in Nat
    BY DEF RowTypes
<1>2. 1..made.sessions \subseteq 1..made'.sessions /\ 1..made.convs \subseteq 1..made'.convs
    BY <1>1
<1>3. ASSUME NEW x \in Tasks PROVE Numbers(x)'
    <2>1. CASE x = t
        BY <2>1
    <2>2. CASE x # t
        BY <1>2, <2>2 DEF RowsNumbered, Numbers
    <2> QED BY <2>1, <2>2
<1> QED BY <1>3 DEF RowsNumbered

\* Every step keeps the rows numbered.
LEMMA RowsStep == AuthInv /\ Stages /\ RowsNumbered /\ [Next]_vars => RowsNumbered'
<1> SUFFICES ASSUME AuthInv, Stages, RowsNumbered, [Next]_vars PROVE RowsNumbered'
    OBVIOUS
<1>0. RowTypes /\ made.sessions \in Nat /\ made.convs \in Nat
    BY DEF AuthInv, RowTypes
<1>1. ASSUME NEW t \in Tasks, \A x \in Tasks : x # t => task'[x] = task[x], Aside(t)
      PROVE  RowsNumbered'
    <2>1. Numbers(t)
        BY DEF RowsNumbered
    <2>2. /\ made'.sessions = made.sessions /\ made'.convs = made.convs
          /\ session' \subseteq session /\ UNCHANGED <<convs, reached>> /\ Numbers(t)'
        BY <1>1, <2>1 DEF Aside, Numbers
    <2> QED BY <1>0, <1>1, <2>2, RowsNumberedKeep DEF RowsNumbered
<1>2. ASSUME NEW t \in Tasks, End(t) PROVE Numbers(t)'
    BY <1>0, <1>2, EndIs DEF Numbers
<1>3. ASSUME NEW t \in Messages, MessageStep(t) PROVE RowsNumbered'
    <2>1. t \in Tasks /\ Stage(t) /\ Numbers(t)
        BY DEF Tasks, Stages, RowsNumbered
    <2>2. \A x \in Tasks : x # t => task'[x] = task[x]
        BY <1>0, <1>3, <2>1, OthersStay
    <2>3. CASE FindSession(t)
        <3>1. /\ UNCHANGED <<session, convs, reached, made>>
              /\ \/ End(t)
                 \/ task'[t].conv = task[t].conv /\ task'[t].sess = task[t].sess
                 \/ task'[t].conv = task[t].conv /\ \E s \in Mine(t) : task'[t].sess = {s.id}
            BY <1>0, <2>1, <2>3, FindIs
        <3>2. \A s \in Mine(t) : s.id \in 1..made.sessions
            BY DEF Mine, RowsNumbered
        <3>3. CASE End(t)
            BY <1>0, <1>2, <2>1, <2>2, <3>1, <3>3, RowsNumberedKeep DEF RowsNumbered
        <3>4. CASE ~End(t)
            <4>1. Numbers(t)'
                BY <2>1, <3>1, <3>2, <3>4 DEF Numbers
            <4> QED BY <1>0, <2>1, <2>2, <3>1, <4>1, RowsNumberedKeep DEF RowsNumbered
        <3> QED BY <3>3, <3>4
    <2>4. CASE InsertSession(t) /\ References(t)
        <3>1. PICK u \in Nat, r \in [id : Nat, user : Nat, conv : SUBSET Nat] :
                  /\ r.id = made.sessions + 1 /\ r.conv = {}
                  /\ session' = session \cup {r} /\ UNCHANGED <<convs, reached>>
                  /\ made'.sessions = made.sessions + 1 /\ made'.convs = made.convs
                  /\ \/ End(t)
                     \/ task'[t].sess = {r.id} /\ task'[t].conv = task[t].conv
            BY <2>1, <2>4, InsertIs
        <3>2. Numbers(t)'
            <4>1. CASE End(t)
                BY <1>2, <2>1, <4>1
            <4>2. CASE task'[t].sess = {r.id} /\ task'[t].conv = task[t].conv
                BY <1>0, <2>1, <3>1, <4>2 DEF Numbers
            <4> QED BY <3>1, <4>1, <4>2
        <3>3. \A s \in session' : s.id \in 1..made'.sessions /\ s.conv \subseteq convs'
            BY <1>0, <3>1 DEF RowsNumbered
        <3>4. \A k \in Ids : k > made'.sessions => reached'[k] = {}
            BY <1>0, <3>1 DEF RowsNumbered, Ids
        <3>5. convs' \subseteq 1..made'.convs /\ reached' \in [Ids -> SUBSET convs']
            BY <3>1 DEF RowsNumbered
        <3> QED BY <1>0, <2>1, <2>2, <3>1, <3>2, <3>3, <3>4, <3>5, RowsNumberedKeep
    <2>5. CASE Reread(t)
        <3>1. /\ UNCHANGED <<session, convs, reached, made>>
              /\ \/ End(t)
                 \/ task'[t].sess = task[t].sess /\ \E s \in session : task'[t].conv = s.conv
            BY <1>0, <2>1, <2>5, RereadIs
        <3>2. Numbers(t)'
            <4>1. CASE End(t)
                BY <1>2, <2>1, <4>1
            <4>2. CASE task'[t].sess = task[t].sess /\ \E s \in session : task'[t].conv = s.conv
                BY <2>1, <3>1, <4>2 DEF Numbers, RowsNumbered
            <4> QED BY <3>1, <4>1, <4>2
        <3> QED BY <1>0, <2>1, <2>2, <3>1, <3>2, RowsNumberedKeep DEF RowsNumbered
    <2>6. CASE CreateConversation(t)
        <3>1. /\ task'[t].conv = {made.convs + 1} /\ convs' = convs \cup {made.convs + 1}
              /\ made'.convs = made.convs + 1 /\ made'.sessions = made.sessions
              /\ task'[t].sess = task[t].sess /\ UNCHANGED <<session, reached>>
            BY <1>0, <2>1, <2>6, CreateIs
        <3>2. Numbers(t)'
            BY <1>0, <2>1, <3>1 DEF Numbers
        <3>3. \A s \in session' : s.id \in 1..made'.sessions /\ s.conv \subseteq convs'
            BY <3>1 DEF RowsNumbered
        <3>4. ASSUME NEW c \in convs' PROVE c \in 1..made'.convs
            <4>1. c \in 1..made.convs \/ c = made.convs + 1
                BY <3>1, <3>4 DEF RowsNumbered
            <4> QED BY <1>0, <3>1, <4>1
        <3>5. reached' \in [Ids -> SUBSET convs'] /\ \A k \in Ids : k > made'.sessions => reached'[k] = {}
            BY <3>1 DEF RowsNumbered
        <3> QED BY <1>0, <2>1, <2>2, <3>1, <3>2, <3>3, <3>4, <3>5, RowsNumberedKeep
    <2>7. CASE Send(t)
        <3>1. /\ task[t].conv \subseteq convs
              /\ reached' = [s \in Ids |-> IF s \in task[t].sess THEN reached[s] \cup task[t].conv
                                                                ELSE reached[s]]
              /\ UNCHANGED <<session, convs, made>>
              /\ End(t) \/ (task'[t].conv = task[t].conv /\ task'[t].sess = task[t].sess)
            BY <1>0, <2>1, <2>7, SendIs
        <3>2. Numbers(t)'
            <4>1. CASE End(t)
                BY <1>2, <2>1, <4>1
            <4>2. CASE task'[t].conv = task[t].conv /\ task'[t].sess = task[t].sess
                BY <2>1, <3>1, <4>2 DEF Numbers
            <4> QED BY <3>1, <4>1, <4>2
        <3>3. reached' \in [Ids -> SUBSET convs']
            BY <3>1 DEF RowsNumbered
        <3>4. ASSUME NEW k \in Ids, k > made'.sessions PROVE reached'[k] = {}
            <4>1. k \notin task[t].sess
                BY <1>0, <2>1, <3>1, <3>4 DEF Numbers, Ids
            <4> QED BY <3>1, <3>4, <4>1 DEF RowsNumbered
        <3> QED BY <1>0, <2>1, <2>2, <3>1, <3>2, <3>3, <3>4, RowsNumberedKeep DEF RowsNumbered
    <2>8. CASE Bind(t)
        <3>1. UNCHANGED <<convs, reached, made>> /\ End(t)
            BY <2>8 DEF Bind
        <3>2. session' = IF task[t].conv \subseteq convs
                         THEN {IF task[t].sess = {s.id} THEN [s EXCEPT !.conv = task[t].conv] ELSE s
                               : s \in session}
                         ELSE session
            BY <2>8 DEF Bind
        <3>3. ASSUME NEW s \in session'
              PROVE  s.id \in 1..made.sessions /\ s.conv \subseteq convs
            <4>1. \/ s \in session
                  \/ task[t].conv \subseteq convs /\ \E q \in session : s = [q EXCEPT !.conv = task[t].conv]
                BY <3>2, <3>3
            <4>2. CASE s \in session
                BY <4>2 DEF RowsNumbered
            <4>3. ASSUME NEW q \in session, task[t].conv \subseteq convs, s = [q EXCEPT !.conv = task[t].conv]
                  PROVE  s.id = q.id /\ s.conv = task[t].conv
                BY <1>0, <4>3 DEF RowTypes
            <4> QED BY <4>1, <4>2, <4>3 DEF RowsNumbered
        <3> QED BY <1>0, <1>2, <2>1, <2>2, <3>1, <3>3, RowsNumberedKeep DEF RowsNumbered
    <2> QED BY <1>0, <1>1, <1>3, <2>1, <2>2, <2>3, <2>4, <2>5, <2>6, <2>7, <2>8, MessageCases
<1>4. ASSUME NEW t \in Admins, AdminStep(t) PROVE RowsNumbered'
    <2>1. t \in Tasks /\ Stage(t)
        BY DEF Tasks, Stages
    <2> QED BY <1>0, <1>1, <1>4, <2>1, OthersStay, RequestAside
<1>5. ASSUME NEW t \in Tasks, CutOff(t) PROVE RowsNumbered'
    BY <1>0, <1>1, <1>5, OthersStay, CutAside
<1>6. CASE Age \/ Cleanup \/ UNCHANGED vars
    <2>1. UNCHANGED <<session, convs, reached, task, made>>
        BY <1>6 DEF Age, Cleanup, vars, chats
    <2> QED BY <2>1 DEF RowsNumbered, Numbers
<1>7. ASSUME NEW c \in Ids, DeleteConversation(c) PROVE RowsNumbered'
    <2>1. /\ convs' = convs \ {c} /\ reached' = [s \in Ids |-> reached[s] \ {c}]
          /\ session' = {[s EXCEPT !.conv = s.conv \ {c}] : s \in session} /\ UNCHANGED <<task, made>>
        BY <1>7 DEF DeleteConversation
    <2>2. ASSUME NEW s \in session' PROVE s.id \in 1..made.sessions /\ s.conv \subseteq convs'
        <3>1. PICK q \in session : s = [q EXCEPT !.conv = q.conv \ {c}]
            BY <2>1
        <3>2. s.id = q.id /\ s.conv = q.conv \ {c}
            BY <1>0, <3>1 DEF RowTypes
        <3> QED BY <2>1, <3>2 DEF RowsNumbered
    <2>3. reached' \in [Ids -> SUBSET convs'] /\ \A k \in Ids : reached'[k] \subseteq reached[k]
        BY <2>1 DEF RowsNumbered
    <2>4. \A k \in Ids : k > made.sessions => reached'[k] = {}
        BY <2>3 DEF RowsNumbered
    <2> QED BY <2>1, <2>2, <2>3, <2>4 DEF RowsNumbered, Numbers
<1> QED BY <1>3, <1>4, <1>5, <1>6, <1>7 DEF Next

\* Users are numbered as they are made, and authorized once each at most.
UsersNumbered ==
    /\ user \subseteq 1..made.users
    /\ \A t \in Tasks : task[t].user \subseteq 1..made.users
    /\ \A c \in Ids : granted[c] <= made.users

\* There is no user at first.
LEMMA UsersInit == Init => UsersNumbered
BY DEF Init, UsersNumbered, Idle

\* A step that authorizes nobody.
LEMMA UsersKeep ==
    ASSUME UsersNumbered, NEW t \in Tasks, \A x \in Tasks : x # t => task'[x] = task[x],
           made'.users = made.users, UNCHANGED granted, user' \subseteq user,
           task'[t].user \subseteq 1..made.users
    PROVE  UsersNumbered'
<1>1. ASSUME NEW x \in Tasks PROVE task'[x].user \subseteq 1..made.users
    BY DEF UsersNumbered
<1> QED BY <1>1 DEF UsersNumbered

\* What a message does to the users.
LEMMA MessageUsers ==
    ASSUME RowTypes, NEW t \in Tasks, Stage(t), MessageStep(t)
    PROVE  /\ UNCHANGED <<user, granted>> /\ made'.users = made.users
           /\ task'[t].user \in {{}, user, task[t].user}
<1>1. UNCHANGED <<user, granted>>
    BY DEF MessageStep, Arrive, Authorize, ReadPending, Expire, CreatePairing,
           DeleteSessions, FindSession, InsertSession, Reread, CreateConversation,
           Send, SendFails, Bind, pairings
<1>2. made'.users = made.users
    BY DEF MessageStep, Arrive, Authorize, ReadPending, Expire, CreatePairing,
           DeleteSessions, FindSession, InsertSession, Reread, CreateConversation,
           Send, SendFails, Bind, RowTypes
<1>3. End(t) => task'[t].user = {}
    BY EndIs
<1>4. ASSUME NEW op \in Kinds, Arrive(t, op) PROVE task'[t].user = {}
    BY <1>4, ArriveIs
<1>5. CASE Authorize(t)
    BY <1>1, <1>2, <1>5, AuthorizeIs
<1>6. CASE ReadPending(t) \/ Expire(t) \/ CreatePairing(t) \/ DeleteSessions(t)
    <2>1. CASE ReadPending(t)
        BY <1>1, <1>2, <2>1, ReadPendingIs
    <2>2. CASE Expire(t)
        BY <1>1, <1>2, <2>2, ExpireIs DEF Expire
    <2>3. CASE CreatePairing(t)
        BY <1>1, <1>2, <1>3, <2>3 DEF CreatePairing
    <2>4. CASE DeleteSessions(t)
        BY <1>1, <1>2, <2>4, GotoIs DEF DeleteSessions
    <2> QED BY <1>6, <2>1, <2>2, <2>3, <2>4
<1>7. CASE FindSession(t)
    <2>1. End(t) \/ task'[t].user = task[t].user
        BY <1>7, FindIs
    <2> QED BY <1>1, <1>2, <1>3, <2>1
<1>8. ASSUME NEW s, task' = [task EXCEPT ![t] = Found(t, s)]
      PROVE  End(t) \/ task'[t].user = task[t].user
    BY <1>8, FoundIs, Zenon
<1>9. CASE InsertSession(t)
    <2>1. End(t) \/ task'[t].user = task[t].user
        BY <1>8, <1>9 DEF InsertSession
    <2> QED BY <1>1, <1>2, <1>3, <2>1
<1>10. CASE Reread(t) \/ CreateConversation(t)
    <2>1. End(t) \/ task'[t].user = task[t].user
        BY <1>10, RereadIs, CreateIs
    <2> QED BY <1>1, <1>2, <1>3, <2>1
<1>11. CASE Send(t) \/ SendFails(t) \/ Bind(t)
    <2>1. End(t) \/ Goto(t, "bind")
        BY <1>11 DEF Send, SendFails, Bind
    <2> QED BY <1>1, <1>2, <1>3, <2>1, GotoIs
<1> QED BY <1>1, <1>2, <1>4, <1>5, <1>6, <1>7, <1>9, <1>10, <1>11 DEF MessageStep

\* Every step keeps the users numbered.
LEMMA UsersStep == AuthInv /\ PairInv /\ Stages /\ UsersNumbered /\ [Next]_vars => UsersNumbered'
<1> SUFFICES ASSUME AuthInv, PairInv, Stages, UsersNumbered, [Next]_vars PROVE UsersNumbered'
    OBVIOUS
<1>0. RowTypes /\ made.users \in Nat /\ granted \in [Ids -> Nat]
    BY DEF AuthInv, RowTypes, PairInv, CodeTypes
<1>1. ASSUME NEW t \in Tasks, End(t) PROVE task'[t].user = {}
    BY <1>0, <1>1, EndIs
<1>2. ASSUME NEW t \in Messages, MessageStep(t) PROVE UsersNumbered'
    <2>1. t \in Tasks /\ Stage(t)
        BY DEF Tasks, Stages
    <2>2. \A x \in Tasks : x # t => task'[x] = task[x]
        BY <1>0, <1>2, <2>1, OthersStay
    <2>3. /\ UNCHANGED <<user, granted>> /\ made'.users = made.users
          /\ task'[t].user \in {{}, user, task[t].user}
        BY <1>0, <1>2, <2>1, MessageUsers
    <2>4. task'[t].user \subseteq 1..made.users
        BY <2>1, <2>3 DEF UsersNumbered
    <2> QED BY <2>1, <2>2, <2>3, <2>4, UsersKeep
<1>3. ASSUME NEW t \in Admins, AdminStep(t) PROVE UsersNumbered'
    <2>1. t \in Tasks
        BY DEF Tasks
    <2>2. \A x \in Tasks : x # t => task'[x] = task[x]
        BY <1>0, <1>3, <2>1, OthersStay
    <2>3. ASSUME NEW op, NEW pc, NEW cs, NEW us, Ask(t, op, pc, cs, us), us \subseteq 1..made.users
          PROVE  UsersNumbered'
        <3>1. task'[t].user = us
            BY <1>0, <2>1, <2>3 DEF Ask, RowTypes, Idle
        <3>2. UNCHANGED <<user, granted, made>>
            BY <2>3 DEF Ask, pairings
        <3> QED BY <2>1, <2>2, <2>3, <3>1, <3>2, UsersKeep
    <2>4. CASE \/ \E op \in {"approve", "reject"}, c \in Ids : AskPairing(t, op, c)
               \/ AskSync(t)
        BY <2>3, <2>4 DEF AskPairing, AskSync
    <2>5. ASSUME NEW u \in UserIds, AskRevoke(t, u) PROVE UsersNumbered'
        <3>1. {u} \subseteq 1..made.users
            BY <1>0, <2>5 DEF AskRevoke, UserIds
        <3> QED BY <2>3, <2>5, <3>1 DEF AskRevoke
    <2>6. ASSUME NEW p, Goto(t, p) \/ End(t), made'.users = made.users, UNCHANGED granted, user' \subseteq user
          PROVE  UsersNumbered'
        <3>1. task'[t].user \in {{}, task[t].user}
            <4>1. CASE End(t)
                BY <1>1, <2>1, <4>1
            <4>2. CASE Goto(t, p)
                BY <1>0, <2>1, <4>2 DEF Goto, RowTypes, Task
            <4> QED BY <2>6, <4>1, <4>2
        <3>2. task'[t].user \subseteq 1..made.users
            BY <2>1, <3>1 DEF UsersNumbered
        <3> QED BY <2>1, <2>2, <2>6, <3>2, UsersKeep
    <2>7. CASE Check(t)
        <3>1. PICK p : End(t) \/ Goto(t, p)
            BY <2>7 DEF Check
        <3> QED BY <2>6, <2>7, <3>1 DEF Check, pairings
    <2>8. CASE Grant(t)
        <3>1. CASE End(t) /\ UNCHANGED <<user, made, granted>>
            BY <2>6, <3>1
        <3>2. CASE /\ user' = {made.users + 1}
                   /\ made' = [made EXCEPT !.users = made.users + 1]
                   /\ granted' = [c \in Ids |-> IF c \in task[t].codes THEN granted[c] + 1 ELSE granted[c]]
                   /\ Goto(t, "approve")
            <4>1. made'.users = made.users + 1
                BY <1>0, <3>2 DEF RowTypes
            <4>2. 1..made.users \subseteq 1..made'.users /\ user' \subseteq 1..made'.users
                BY <1>0, <3>2, <4>1
            <4>3. task'[t].user = task[t].user
                BY <1>0, <2>1, <3>2, GotoIs
            <4>4. ASSUME NEW x \in Tasks PROVE task'[x].user \subseteq 1..made'.users
                BY <2>2, <4>2, <4>3 DEF UsersNumbered
            <4>5. ASSUME NEW c \in Ids PROVE granted'[c] <= made'.users
                <5>1. granted'[c] \in {granted[c], granted[c] + 1} /\ granted[c] \in Nat
                    BY <1>0, <3>2
                <5>2. granted[c] <= made.users
                    BY DEF UsersNumbered
                <5> QED BY <1>0, <4>1, <5>1, <5>2
            <4> QED BY <4>2, <4>4, <4>5 DEF UsersNumbered
        <3> QED BY <2>8, <3>1, <3>2 DEF Grant
    <2>9. CASE \/ Conclude(t, "lapse", "expired") \/ Conclude(t, "approve", "approved")
               \/ Conclude(t, "reject", "rejected")
        BY <2>6, <2>9 DEF Conclude
    <2>10. CASE CleanSessions(t) \/ DeleteUser(t) \/ ClearSessions(t)
        <3>1. (End(t) \/ Goto(t, "revoke")) /\ UNCHANGED <<granted, made>> /\ user' \subseteq user
            BY <2>10 DEF CleanSessions, DeleteUser, ClearSessions, pairings
        <3> QED BY <2>6, <3>1
    <2>11. CASE ListSessions(t)
        <3>1. PICK us : us = {s.user : s \in session}
            OBVIOUS
        <3>2. task' = [task EXCEPT ![t].user = us, ![t].pc = "clear"]
            BY <2>11, <3>1 DEF ListSessions
        <3>3. task'[t].user = us
            BY <1>0, <2>1, <3>2 DEF RowTypes, Task
        <3>4. us \subseteq user
            BY <3>1 DEF AuthInv, SessionsRefer
        <3>5. UNCHANGED <<user, granted, made>>
            BY <2>11 DEF ListSessions, pairings
        <3>6. task'[t].user \subseteq 1..made.users
            BY <3>3, <3>4 DEF UsersNumbered
        <3> QED BY <2>1, <2>2, <3>5, <3>6, UsersKeep
    <2> QED BY <1>3, <2>4, <2>5, <2>7, <2>8, <2>9, <2>10, <2>11 DEF AdminStep
<1>4. ASSUME NEW t \in Tasks, CutOff(t) PROVE UsersNumbered'
    <2>1. \A x \in Tasks : x # t => task'[x] = task[x]
        BY <1>0, <1>4, OthersStay
    <2>2. task'[t].user = {} /\ UNCHANGED <<user, granted, made>>
        BY <1>1, <1>4 DEF CutOff, pairings
    <2> QED BY <2>1, <2>2, UsersKeep
<1>5. CASE Age \/ Cleanup \/ (\E c \in Ids : DeleteConversation(c)) \/ UNCHANGED vars
    <2>1. UNCHANGED <<user, granted, task, made>>
        BY <1>5 DEF Age, Cleanup, DeleteConversation, vars, pairings
    <2> QED BY <2>1 DEF UsersNumbered
<1> QED BY <1>2, <1>3, <1>4, <1>5 DEF Next

\* What every later proof about the chats starts from.
ChatsInv == AuthInv /\ PairInv /\ Budget /\ Stages /\ RowsNumbered /\ UsersNumbered
\* It holds in every reachable state.
LEMMA ChatsAlways == Spec => []ChatsInv
<1>1. Init => ChatsInv
    BY AuthInit, PairInit, BudgetInit, StagesInit, RowsInit, UsersInit DEF ChatsInv
<1>2. ChatsInv /\ [Next]_vars => ChatsInv'
    BY AuthStep, PairStep, BudgetStep, StagesStep, RowsStep, UsersStep DEF ChatsInv
<1> QED BY <1>1, <1>2, PTL DEF Spec

\* The types, with the references between the rows: a session refers to the user
\* authorized now and to conversations that exist, and no number of a user, session,
\* conversation or code leaves the set the bounds give it.
THEOREM ChatsTypeCorrect == Spec => []TypeOK
<1>1. ASSUME ChatsInv PROVE TypeOK
    <2> USE <1>1 DEF ChatsInv
    <2>1. /\ RowTypes /\ made.users \in Nat /\ made.sessions \in Nat
          /\ made.convs \in Nat /\ made.codes \in Nat
        BY DEF AuthInv, RowTypes
    <2>2. /\ code \in [Ids -> [status : Statuses, old : BOOLEAN]]
          /\ granted \in [Ids -> Nat] /\ raced \in SUBSET {"pairing", "session"}
        BY DEF PairInv, CodeTypes
    <2>3. ASSUME NEW n \in Nat, NEW H, NEW max \in Nat, Room(n, H, max) PROVE n <= max
        <3>1. Cardinality(H) \in Nat
            BY <2>3, FS_CardinalityType DEF Room
        <3> QED BY <2>3, <3>1 DEF Room
    <2>4. /\ made.users <= MaxAdmin /\ made.sessions <= MaxMessages
          /\ made.convs <= MaxMessages /\ made.codes <= MaxMessages
        <3>1. /\ made.users <= counts.requests /\ made.sessions <= counts.messages
              /\ made.convs <= counts.messages /\ made.codes <= counts.messages
            BY <2>1, <2>3 DEF Budget
        <3> QED BY <2>1, <3>1, ChatsAssumption DEF Budget
    <2>5. 1..made.users \subseteq UserIds /\ 1..made.sessions \subseteq Ids /\ 1..made.convs \subseteq Ids
        BY <2>1, <2>4, ChatsAssumption DEF UserIds, Ids
    <2>6. user \in SUBSET (1..made.users) /\ Cardinality(user) <= 1
        <3>1. user \subseteq 1..made.users
            BY DEF UsersNumbered
        <3>2. Cardinality(user) \in {0, 1}
            BY <2>1, FS_EmptySet, FS_Singleton DEF RowTypes
        <3> QED BY <3>1, <3>2
    <2>7. session \in SUBSET [id : 1..made.sessions, user : user, conv : SUBSET convs]
        <3>1. ASSUME NEW s \in session
              PROVE  s \in [id : 1..made.sessions, user : user, conv : SUBSET convs]
            <4>1. s \in [id : Nat, user : Nat, conv : SUBSET Nat]
                BY <2>1 DEF RowTypes
            <4>2. s.id \in 1..made.sessions /\ s.user \in user /\ s.conv \in SUBSET convs
                BY DEF AuthInv, SessionsRefer, RowsNumbered
            <4> QED BY <4>1, <4>2
        <3> QED BY <3>1
    <2>8. convs \in SUBSET (1..made.convs) /\ reached \in [Ids -> SUBSET convs]
        BY DEF RowsNumbered
    <2>9. task \in [Tasks -> [op : {"none", "approve", "reject", "revoke", "sync"} \cup Kinds,
                              pc : PCs, user : SUBSET UserIds, sess : SUBSET Ids,
                              conv : SUBSET Ids, first : BOOLEAN, codes : SUBSET Ids]]
        <3>1. ASSUME NEW t \in Tasks
              PROVE  task[t] \in [op : {"none", "approve", "reject", "revoke", "sync"} \cup Kinds,
                                  pc : PCs, user : SUBSET UserIds, sess : SUBSET Ids,
                                  conv : SUBSET Ids, first : BOOLEAN, codes : SUBSET Ids]
            <4>1. task[t] \in Task
                BY <2>1 DEF RowTypes
            <4>2. task[t].user \in SUBSET UserIds /\ task[t].sess \in SUBSET Ids /\ task[t].conv \in SUBSET Ids
                BY <2>5 DEF UsersNumbered, RowsNumbered, Numbers
            <4> QED BY <4>1, <4>2 DEF Task
        <3> QED BY <2>1, <3>1 DEF RowTypes
    <2>10. granted \in [Ids -> 0..MaxAdmin]
        <3>1. ASSUME NEW c \in Ids PROVE granted[c] \in 0..MaxAdmin
            BY <2>1, <2>2, <2>4, ChatsAssumption DEF UsersNumbered
        <3> QED BY <2>2, <3>1
    <2> QED BY <2>2, <2>4, <2>6, <2>7, <2>8, <2>9, <2>10 DEF TypeOK
<1> QED BY <1>1, ChatsAlways, PTL

-----------------------------------------------------------------------------
(* One conversation for a chat.  The first message of a session makes the    *)
(* conversation and binds it only after the agent was reached; while nothing *)
(* overlaps, that message is alone with the session until it has bound it.   *)

\* The message is about session k; one of them will bind a conversation to it; and
\* a conversation that k's messages have reached, or are about to.
On(t, k)    == task[t].sess = {k}
First(k)    == \E t \in Tasks : task[t].first /\ On(t, k)
Sends(t, k, c) == ~task[t].first /\ On(t, k) /\ task[t].pc = "send" /\ c \in task[t].conv
Lives(k, c) == c \in reached[k] \/ \E t \in Tasks : Sends(t, k, c)

\* A row is told by its id, and no row or message has two conversations.
OneRow == \A s, r \in session : s.id = r.id => s = r
OneBound ==
    /\ \A s \in session : \A c, d \in s.conv : c = d
    /\ \A t \in Tasks : task[t].pc \in {"send", "bind"} => \A c, d \in task[t].conv : c = d

\* The person's chat has one row, and one task at most is to insert it.
OneSession == \A s, r \in session : s.user = r.user => s = r
OneInsert ==
    /\ \A t, o \in Tasks : task[t].pc = "insert" /\ task[o].pc = "insert" => t = o
    /\ \A t \in Tasks : task[t].pc = "insert" => Mine(t) = {}
\* The first message is alone with its session, which nothing has reached before it.
Alone(t, k) ==
    task[t].first /\ On(t, k) =>
        /\ \A c \in convs : Lives(k, c) => task[t].pc = "bind" /\ c \in task[t].conv
        /\ \A s \in session : s.id = k => s.conv = {}
        /\ \A o \in Tasks : task[o].first /\ On(o, k) => o = t
\* Without it, what the messages reach is what the row is bound to,
Kept(s) == s.id \in Ids /\ ~First(s.id) => \A c \in convs : Lives(s.id, c) => c \in s.conv
OneLive(k) == \A c, d \in convs : Lives(k, c) /\ Lives(k, d) => c = d
\* and the others find the row bound when they read it again.
Continues(t) ==
    /\ task[t].pc = "reread" /\ ~task[t].first =>
          \A s \in session : On(t, s.id) => s.conv # {}
    /\ task[t].pc = "converse" => task[t].first

Unraced ==
    /\ OneSession /\ OneInsert
    /\ \A t \in Tasks : \A k \in Ids : Alone(t, k)
    /\ \A s \in session : Kept(s)
    /\ \A k \in Ids : OneLive(k)
    /\ \A t \in Tasks : Continues(t)
SessInv == OneRow /\ OneBound /\ ("session" \notin raced => Unraced)

\* There is no session at first.
LEMMA SessInit == Init => SessInv
<1> SUFFICES ASSUME Init PROVE SessInv
    OBVIOUS
<1>1. session = {} /\ convs = {} /\ \A t \in Tasks : task[t] = Idle
    BY DEF Init
<1>2. OneRow /\ OneBound
    BY <1>1 DEF OneRow, OneBound, Idle
<1>3. Unraced
    BY <1>1 DEF Unraced, OneSession, OneInsert, Alone, OneLive, Continues, Idle
<1> QED BY <1>2, <1>3 DEF SessInv

\* What the types say of ids.
LEMMA IdsInRange ==
    ASSUME ChatsInv
    PROVE  /\ RowTypes /\ made.sessions \in Nat /\ made.convs \in Nat
           /\ \A s \in session : s.id \in Ids
           /\ \A t \in Tasks : task[t].sess \subseteq Ids /\ Stage(t)
           /\ \A t \in Tasks : \A k \in Ids : On(t, k) => k <= made.sessions
           /\ \A k \in Ids : reached[k] \subseteq convs
<1> USE DEF ChatsInv
<1>1. RowTypes /\ made.sessions \in Nat /\ made.convs \in Nat
    BY DEF AuthInv, RowTypes
<1>2. made.sessions <= MaxMessages
    <2>1. /\ Cardinality(Holders(SessPCs)) \in Nat
          /\ made.sessions + Cardinality(Holders(SessPCs)) <= counts.messages
        BY FS_CardinalityType DEF Budget, Room
    <2>2. counts.messages \in Nat /\ counts.messages <= MaxMessages
        BY DEF Budget
    <2> QED BY <1>1, <2>1, <2>2, ChatsAssumption
<1>3. 1..made.sessions \subseteq Ids
    BY <1>1, <1>2, ChatsAssumption DEF Ids
<1>4. \A s \in session : s.id \in Ids
    BY <1>3 DEF RowsNumbered
<1>5. \A t \in Tasks : task[t].sess \subseteq Ids /\ Stage(t)
    BY <1>3 DEF RowsNumbered, Numbers, Stages
<1>6. \A t \in Tasks : \A k \in Ids : On(t, k) => k <= made.sessions
    BY <1>1 DEF RowsNumbered, Numbers, On
<1>7. \A k \in Ids : reached[k] \subseteq convs
    BY DEF RowsNumbered
<1> QED BY <1>1, <1>4, <1>5, <1>6, <1>7

\* A task that leaves its session, or has none, takes nothing with it.
LEMMA AsideKeepsSession ==
    ASSUME ChatsInv, SessInv, NEW t \in Tasks, \A x \in Tasks : x # t => task'[x] = task[x], Aside(t)
    PROVE  SessInv'
<1> USE DEF SessInv, Aside, Serving
<1>1. OneRow' /\ OneBound'
    BY DEF OneRow, OneBound
<1>2. ASSUME "session" \notin raced' PROVE Unraced'
    <2> USE DEF Unraced
    <2>1. "session" \notin raced /\ task[t].pc # "bind"
        BY <1>2
    <2>2. \A k, c : Lives(k, c)' => Lives(k, c)
        BY DEF Lives, Sends, On
    <2>3. \A x \in Tasks : \A k : task'[x].first /\ On(x, k)' => x # t /\ task[x].first /\ On(x, k)
        BY DEF On
    <2>4. OneSession' /\ OneInsert'
        BY <2>1 DEF OneSession, OneInsert, Mine
    <2>5. ASSUME NEW x \in Tasks, NEW k \in Ids PROVE Alone(x, k)'
        BY <2>1, <2>2, <2>3 DEF Alone
    <2>6. ASSUME NEW s \in session' PROVE Kept(s)'
        <3> SUFFICES ASSUME s.id \in Ids, ~First(s.id)', NEW c \in convs, Lives(s.id, c) PROVE c \in s.conv
            BY <2>2 DEF Kept
        <3>1. CASE First(s.id)
            <4>1. PICK x \in Tasks : task[x].first /\ On(x, s.id)
                BY <3>1 DEF First
            <4>2. x = t
                BY <4>1 DEF First, On
            <4> QED BY <2>1, <4>1, <4>2 DEF Alone
        <3>2. CASE ~First(s.id)
            BY <2>1, <3>2 DEF Kept
        <3> QED BY <3>1, <3>2
    <2>7. ASSUME NEW k \in Ids PROVE OneLive(k)'
        BY <2>1, <2>2 DEF OneLive
    <2>8. ASSUME NEW x \in Tasks PROVE Continues(x)'
        BY <2>1 DEF Continues, On
    <2> QED BY <2>4, <2>5, <2>6, <2>7, <2>8
<1> QED BY <1>1, <1>2

\* get_or_create_session finds no row,
LEMMA MissKeepsSession ==
    ASSUME ChatsInv, SessInv, NEW t \in Tasks, \A x \in Tasks : x # t => task'[x] = task[x],
           task[t].pc = "find", ~task[t].first, UNCHANGED <<session, convs, reached>>,
           raced \subseteq raced', Mine(t) = {}, task'[t].pc = "insert", ~task'[t].first,
           task'[t].user = task[t].user,
           "session" \notin raced' => \A o \in Tasks \ {t} : task[o].pc # "insert"
    PROVE  SessInv'
<1> USE DEF SessInv
<1>1. OneRow' /\ OneBound'
    BY DEF OneRow, OneBound
<1>2. ASSUME "session" \notin raced' PROVE Unraced'
    <2> USE DEF Unraced
    <2>1. "session" \notin raced
        BY <1>2
    <2>2. \A k, c : Lives(k, c)' => Lives(k, c)
        BY DEF Lives, Sends, On
    <2>3. \A x \in Tasks : \A k : task'[x].first /\ On(x, k)' <=> task[x].first /\ On(x, k)
        BY DEF On
    <2>4. OneSession' /\ OneInsert'
        <3>1. \A x \in Tasks : Mine(x)' = Mine(x)
            BY DEF Mine
        <3> QED BY <1>2, <2>1, <3>1 DEF OneSession, OneInsert
    <2>5. ASSUME NEW x \in Tasks, NEW k \in Ids PROVE Alone(x, k)'
        BY <2>1, <2>2, <2>3 DEF Alone
    <2>6. ASSUME NEW s \in session PROVE Kept(s)'
        BY <2>1, <2>2, <2>3 DEF Kept, First
    <2>7. ASSUME NEW k \in Ids PROVE OneLive(k)'
        BY <2>1, <2>2 DEF OneLive
    <2>8. ASSUME NEW x \in Tasks PROVE Continues(x)'
        BY <2>1 DEF Continues, On
    <2> QED BY <2>4, <2>5, <2>6, <2>7, <2>8
<1> QED BY <1>1, <1>2

\* or finds one: alone, if it has no conversation yet.
LEMMA HitKeepsSession ==
    ASSUME ChatsInv, SessInv, NEW t \in Tasks, \A x \in Tasks : x # t => task'[x] = task[x],
           task[t].pc = "find", ~task[t].first, UNCHANGED <<session, convs, reached>>,
           raced \subseteq raced', NEW s \in Mine(t),
           task'[t].pc = "reread", task'[t].sess = {s.id}, task'[t].first = (s.conv = {}),
           s.conv = {} /\ "session" \notin raced' =>
               \A o \in Tasks \ {t} : ~(task[o].first /\ task[o].sess = {s.id})
    PROVE  SessInv'
<1> USE DEF SessInv
<1>0. s \in session /\ s.id \in Ids
    BY IdsInRange DEF Mine
<1>1. OneRow' /\ OneBound'
    BY DEF OneRow, OneBound
<1>2. ASSUME "session" \notin raced' PROVE Unraced'
    <2> USE DEF Unraced
    <2>1. "session" \notin raced
        BY <1>2
    <2>2. \A k, c : Lives(k, c)' => Lives(k, c)
        BY DEF Lives, Sends, On
    <2>3. \A x \in Tasks : \A k : x # t => (task'[x].first /\ On(x, k)' <=> task[x].first /\ On(x, k))
        BY DEF On
    <2>4. \A k : task'[t].first /\ On(t, k)' <=> (s.conv = {} /\ k = s.id)
        BY DEF On
    <2>5. s.conv = {} => ~First(s.id)
        BY <1>2 DEF First, On
    <2>6. OneSession' /\ OneInsert'
        <3>1. \A x \in Tasks : x # t => Mine(x)' = Mine(x)
            BY DEF Mine
        <3> QED BY <2>1, <3>1 DEF OneSession, OneInsert
    <2>7. ASSUME NEW x \in Tasks, NEW k \in Ids PROVE Alone(x, k)'
        <3>1. CASE x = t
            <4> SUFFICES ASSUME s.conv = {}, k = s.id
                         PROVE  /\ \A c \in convs : ~Lives(k, c)
                                /\ \A r \in session : r.id = k => r.conv = {}
                                /\ \A o \in Tasks : task'[o].first /\ On(o, k)' => o = t
                BY <2>2, <2>4, <3>1 DEF Alone
            <4>1. \A c \in convs : ~Lives(k, c)
                BY <1>0, <2>1, <2>5 DEF Kept
            <4>2. \A r \in session : r.id = k => r.conv = {}
                BY <1>0 DEF OneRow
            <4>3. \A o \in Tasks : task'[o].first /\ On(o, k)' => o = t
                BY <2>3, <2>5 DEF First
            <4> QED BY <4>1, <4>2, <4>3
        <3>2. CASE x # t
            <4> SUFFICES ASSUME task[x].first, On(x, k)
                         PROVE  /\ \A c \in convs : Lives(k, c) => task[x].pc = "bind" /\ c \in task[x].conv
                                /\ \A r \in session : r.id = k => r.conv = {}
                                /\ \A o \in Tasks : task'[o].first /\ On(o, k)' => o = x
                BY <2>2, <2>3, <3>2 DEF Alone
            <4>1. ~(task'[t].first /\ On(t, k)')
                BY <2>4, <2>5 DEF First
            <4> QED BY <2>1, <2>3, <4>1 DEF Alone
        <3> QED BY <3>1, <3>2
    <2>8. ASSUME NEW r \in session PROVE Kept(r)'
        <3>1. First(r.id) => First(r.id)'
            BY <2>3 DEF First
        <3> QED BY <2>1, <2>2, <3>1 DEF Kept
    <2>9. ASSUME NEW k \in Ids PROVE OneLive(k)'
        BY <2>1, <2>2 DEF OneLive
    <2>10. ASSUME NEW x \in Tasks PROVE Continues(x)'
        <3>1. CASE x = t
            <4>1. ~task'[t].first => s.conv # {}
                OBVIOUS
            <4>2. \A r \in session : task'[t].sess = {r.id} => r = s
                BY <1>0 DEF OneRow
            <4> QED BY <3>1, <4>1, <4>2 DEF Continues, On
        <3>2. CASE x # t
            BY <2>1, <3>2 DEF Continues, On
        <3> QED BY <3>1, <3>2
    <2> QED BY <2>6, <2>7, <2>8, <2>9, <2>10
<1> QED BY <1>1, <1>2

\* A row is inserted, and nothing knows its id yet.
LEMMA NewRowKeepsSession ==
    ASSUME ChatsInv, SessInv, NEW t \in Tasks, \A x \in Tasks : x # t => task'[x] = task[x],
           NEW u, NEW r, task[t].pc = "insert", ~task[t].first, task[t].user = {u},
           r.id = made.sessions + 1, r.user = u, r.conv = {},
           session' = session \cup {r}, UNCHANGED <<convs, reached, raced>>,
           \/ End(t)
           \/ task'[t].pc = "reread" /\ task'[t].sess = {r.id} /\ task'[t].first
    PROVE  SessInv'
<1> USE DEF SessInv
<1>0. /\ made.sessions \in Nat /\ \A q \in session : q.id # r.id
      /\ \A x \in Tasks : ~On(x, r.id)
      /\ r.id \in Ids => reached[r.id] = {}
    <2>1. made.sessions \in Nat
        BY IdsInRange
    <2>2. \A q \in session : q.id # r.id
        BY <2>1 DEF ChatsInv, RowsNumbered
    <2>3. \A x \in Tasks : ~On(x, r.id)
        BY <2>1 DEF ChatsInv, RowsNumbered, Numbers, On
    <2>4. r.id \in Ids => reached[r.id] = {}
        BY <2>1 DEF ChatsInv, RowsNumbered
    <2> QED BY <2>1, <2>2, <2>3, <2>4
<1>1. \/ task'[t].pc = "idle" /\ task'[t].first = FALSE
      \/ task'[t].pc = "reread" /\ task'[t].sess = {r.id} /\ task'[t].first
    BY IdsInRange, EndIs
<1>2. OneRow'
    BY <1>0 DEF OneRow
<1>3. OneBound'
    BY <1>1 DEF OneBound
<1>4. ASSUME "session" \notin raced PROVE Unraced'
    <2> USE DEF Unraced
    <2>1. \A k, c : Lives(k, c)' => Lives(k, c)
        BY <1>1 DEF Lives, Sends, On
    <2>2. \A x \in Tasks : \A k : x # t => (task'[x].first /\ On(x, k)' <=> task[x].first /\ On(x, k))
        BY DEF On
    <2>3. \A k : task'[t].first /\ On(t, k)' => k = r.id
        BY <1>1 DEF On
    <2>4. Mine(t) = {} /\ \A x \in Tasks : x # t => task[x].pc # "insert"
        BY <1>4 DEF OneInsert
    <2>5. OneSession'
        <3>1. \A q \in session : q.user # u
            BY <2>4 DEF Mine
        <3> QED BY <1>4, <3>1 DEF OneSession
    <2>6. OneInsert'
        BY <1>1, <2>4 DEF OneInsert
    <2>7. r.id \in Ids => \A c : ~Lives(r.id, c)
        BY <1>0 DEF Lives, Sends
    <2>8. ASSUME NEW x \in Tasks, NEW k \in Ids PROVE Alone(x, k)'
        <3>1. CASE x = t
            <4> SUFFICES ASSUME k = r.id
                         PROVE  /\ \A c \in convs : ~Lives(k, c)
                                /\ \A q \in session' : q.id = k => q.conv = {}
                                /\ \A o \in Tasks : task'[o].first /\ On(o, k)' => o = t
                BY <2>1, <2>3, <3>1 DEF Alone
            <4> QED BY <1>0, <2>2, <2>7
        <3>2. CASE x # t
            <4> SUFFICES ASSUME task[x].first, On(x, k)
                         PROVE  /\ \A c \in convs : Lives(k, c) => task[x].pc = "bind" /\ c \in task[x].conv
                                /\ \A q \in session' : q.id = k => q.conv = {}
                                /\ \A o \in Tasks : task'[o].first /\ On(o, k)' => o = x
                BY <2>1, <2>2, <3>2 DEF Alone
            <4>1. k # r.id
                BY <1>0
            <4> QED BY <1>4, <2>2, <2>3, <4>1 DEF Alone
        <3> QED BY <3>1, <3>2
    <2>9. ASSUME NEW q \in session' PROVE Kept(q)'
        <3>1. CASE q = r
            BY <2>1, <2>7, <3>1 DEF Kept
        <3>2. CASE q \in session
            <4>1. First(q.id) => First(q.id)'
                BY <2>2 DEF First
            <4> QED BY <1>4, <2>1, <3>2, <4>1 DEF Kept
        <3> QED BY <3>1, <3>2
    <2>10. ASSUME NEW k \in Ids PROVE OneLive(k)'
        BY <1>4, <2>1 DEF OneLive
    <2>11. ASSUME NEW x \in Tasks PROVE Continues(x)'
        <3>1. CASE x = t
            BY <1>1, <3>1 DEF Continues
        <3>2. CASE x # t
            BY <1>0, <1>4, <3>2 DEF Continues, On
        <3> QED BY <3>1, <3>2
    <2> QED BY <2>5, <2>6, <2>8, <2>9, <2>10, <2>11
<1> QED BY <1>2, <1>3, <1>4

\* The row is read again: bound, unless the message is its first.
LEMMA RereadKeepsSession ==
    ASSUME ChatsInv, SessInv, NEW t \in Tasks, \A x \in Tasks : x # t => task'[x] = task[x],
           task[t].pc = "reread", UNCHANGED <<session, convs, reached, raced>>,
           NEW s \in session, On(t, s.id), task'[t].conv = s.conv,
           task'[t].pc = IF s.conv = {} THEN "converse" ELSE "send",
           task'[t].sess = task[t].sess, task'[t].first = task[t].first
    PROVE  SessInv'
<1> USE DEF SessInv
<1>0. s.id \in Ids
    BY IdsInRange
<1>1. OneRow' /\ OneBound'
    BY DEF OneRow, OneBound
<1>2. ASSUME "session" \notin raced PROVE Unraced'
    <2> USE <1>2 DEF Unraced
    <2>1. \A x \in Tasks : \A k : task'[x].first /\ On(x, k)' <=> task[x].first /\ On(x, k)
        BY DEF On
    <2>2. s.conv = {} <=> task[t].first
        <3>1. task[t].first => s.conv = {}
            BY <1>0 DEF Alone
        <3>2. ~task[t].first => s.conv # {}
            BY DEF Continues
        <3> QED BY <3>1, <3>2
    <2>3. \A k, c : Lives(k, c)' => Lives(k, c) \/ (s.conv # {} /\ k = s.id /\ c \in s.conv)
        BY <2>2 DEF Lives, Sends, On
    <2>4. OneSession' /\ OneInsert'
        <3>1. \A x \in Tasks : x # t => Mine(x)' = Mine(x)
            BY DEF Mine
        <3> QED BY <3>1 DEF OneSession, OneInsert
    <2>5. s.conv # {} => ~First(s.id)
        BY <1>0 DEF First, Alone
    <2>6. ASSUME NEW x \in Tasks, NEW k \in Ids PROVE Alone(x, k)'
        <3> SUFFICES ASSUME task[x].first, On(x, k)
                     PROVE  /\ \A c \in convs : Lives(k, c)' => task'[x].pc = "bind" /\ c \in task'[x].conv
                            /\ \A r \in session : r.id = k => r.conv = {}
                            /\ \A o \in Tasks : task[o].first /\ On(o, k) => o = x
            BY <2>1 DEF Alone
        <3>1. \A c \in convs : Lives(k, c)' => Lives(k, c)
            BY <2>3, <2>5 DEF First
        <3>2. \A c \in convs : Lives(k, c) => task[x].pc = "bind" /\ c \in task[x].conv /\ x # t
            BY DEF Alone
        <3> QED BY <3>1, <3>2 DEF Alone
    <2>7. ASSUME NEW r \in session PROVE Kept(r)'
        <3>1. First(r.id) => First(r.id)'
            BY <2>1 DEF First
        <3>2. r.id = s.id => r = s
            BY DEF OneRow
        <3> QED BY <2>3, <3>1, <3>2 DEF Kept
    <2>8. ASSUME NEW k \in Ids PROVE OneLive(k)'
        <3>1. ASSUME s.conv # {}, k = s.id, NEW c \in convs, Lives(k, c)' PROVE c \in s.conv
            BY <2>3, <2>5, <3>1 DEF Kept
        <3>2. \A c, d \in s.conv : c = d
            BY DEF OneBound
        <3>3. CASE s.conv # {} /\ k = s.id
            BY <3>1, <3>2, <3>3 DEF OneLive
        <3>4. CASE ~(s.conv # {} /\ k = s.id)
            BY <2>3, <3>4 DEF OneLive
        <3> QED BY <3>3, <3>4
    <2>9. ASSUME NEW x \in Tasks PROVE Continues(x)'
        BY <2>2 DEF Continues, On
    <2> QED BY <2>4, <2>6, <2>7, <2>8, <2>9
<1> QED BY <1>1, <1>2

\* A conversation is made for it, which nothing has reached.
LEMMA CreateKeepsSession ==
    ASSUME ChatsInv, SessInv, NEW t \in Tasks, \A x \in Tasks : x # t => task'[x] = task[x],
           CreateConversation(t)
    PROVE  SessInv'
<1> USE DEF SessInv
<1> DEFINE n == made.convs + 1
<1>0. /\ task[t].pc = "converse" /\ task'[t].pc = "send" /\ task'[t].conv = {n} /\ convs' = convs \cup {n}
      /\ task'[t].sess = task[t].sess /\ task'[t].first = task[t].first
      /\ UNCHANGED <<session, reached, raced>>
    BY IdsInRange, CreateIs
<1>1. /\ \A x \in Tasks : n \notin task[x].conv
      /\ \A k \in Ids : n \notin reached[k]
    <2>1. made.convs \in Nat /\ convs \subseteq 1..made.convs
        BY IdsInRange DEF ChatsInv, RowsNumbered
    <2>2. n \notin 1..made.convs
        BY <2>1
    <2>3. \A x \in Tasks : task[x].conv \subseteq 1..made.convs
        BY DEF ChatsInv, RowsNumbered, Numbers
    <2>4. \A k \in Ids : reached[k] \subseteq 1..made.convs
        BY <2>1, IdsInRange
    <2> QED BY <2>2, <2>3, <2>4
<1> HIDE DEF n
<1>2. OneRow' /\ OneBound'
    BY <1>0 DEF OneRow, OneBound
<1>3. ASSUME "session" \notin raced PROVE Unraced'
    <2> USE <1>3 DEF Unraced
    <2>1. \A x \in Tasks : \A k : task'[x].first /\ On(x, k)' <=> task[x].first /\ On(x, k)
        BY <1>0 DEF On
    <2>2. task[t].first
        BY <1>0 DEF Continues
    <2>3. \A k \in Ids : \A c : Lives(k, c)' => Lives(k, c) /\ c # n
        BY <1>0, <1>1, <2>2 DEF Lives, Sends, On
    <2>4. OneSession' /\ OneInsert'
        <3>1. \A x \in Tasks : x # t => Mine(x)' = Mine(x)
            BY <1>0 DEF Mine
        <3> QED BY <1>0, <3>1 DEF OneSession, OneInsert
    <2>5. ASSUME NEW x \in Tasks, NEW k \in Ids PROVE Alone(x, k)'
        <3> SUFFICES ASSUME task[x].first, On(x, k)
                     PROVE  /\ \A c \in convs' : Lives(k, c)' => task'[x].pc = "bind" /\ c \in task'[x].conv
                            /\ \A r \in session : r.id = k => r.conv = {}
                            /\ \A o \in Tasks : task[o].first /\ On(o, k) => o = x
            BY <1>0, <2>1 DEF Alone
        <3>1. \A c \in convs' : Lives(k, c)' => c \in convs /\ Lives(k, c)
            BY <1>0, <2>3
        <3>2. \A c \in convs : Lives(k, c) => task[x].pc = "bind" /\ c \in task[x].conv /\ x # t
            BY <1>0 DEF Alone
        <3> QED BY <3>1, <3>2 DEF Alone
    <2>6. ASSUME NEW r \in session PROVE Kept(r)'
        <3>1. First(r.id) => First(r.id)'
            BY <2>1 DEF First
        <3> QED BY <1>0, <2>3, <3>1 DEF Kept
    <2>7. ASSUME NEW k \in Ids PROVE OneLive(k)'
        BY <1>0, <2>3 DEF OneLive
    <2>8. ASSUME NEW x \in Tasks PROVE Continues(x)'
        BY <1>0, <2>2 DEF Continues, On
    <2> QED BY <1>0, <2>4, <2>5, <2>6, <2>7, <2>8
<1> QED BY <1>0, <1>2, <1>3

\* The agent is reached.
LEMMA SendKeepsSession ==
    ASSUME ChatsInv, SessInv, NEW t \in Tasks, \A x \in Tasks : x # t => task'[x] = task[x], Send(t)
    PROVE  SessInv'
<1> USE DEF SessInv
<1>0. /\ task[t].pc = "send" /\ task[t].conv \subseteq convs
      /\ reached' = [s \in Ids |-> IF s \in task[t].sess THEN reached[s] \cup task[t].conv
                                                        ELSE reached[s]]
      /\ UNCHANGED <<session, convs, made, raced>>
      /\ task[t].first =>
            /\ task'[t].pc = "bind" /\ task'[t].conv = task[t].conv
            /\ task'[t].sess = task[t].sess /\ task'[t].first
      /\ ~task[t].first => task'[t].pc = "idle" /\ task'[t].first = FALSE
    BY IdsInRange, SendIs, EndIs
<1>1. PICK h \in Ids : task[t].sess = {h}
    <2>1. Stage(t) /\ task[t].sess \subseteq Ids
        BY IdsInRange
    <2> QED BY <1>0, <2>1 DEF Stage, Serving
<1>2. OneRow' /\ OneBound'
    BY <1>0 DEF OneRow, OneBound
<1>3. ASSUME "session" \notin raced PROVE Unraced'
    <2> USE <1>3 DEF Unraced
    <2>1. \A x \in Tasks : \A k : task'[x].first /\ On(x, k)' <=> task[x].first /\ On(x, k)
        BY <1>0 DEF On
    <2>2. \A k \in Ids : \A c : Lives(k, c)' => Lives(k, c) \/ (task[t].first /\ k = h /\ c \in task[t].conv)
        <3>1. \A k \in Ids : \A c : c \in reached'[k] => c \in reached[k] \/ (k = h /\ c \in task[t].conv)
            BY <1>0, <1>1
        <3>2. ~task[t].first => \A c \in task[t].conv : Sends(t, h, c)
            BY <1>0, <1>1 DEF Sends, On
        <3>3. \A x \in Tasks : \A k, c : Sends(x, k, c)' => Sends(x, k, c)
            BY <1>0 DEF Sends, On
        <3> QED BY <3>1, <3>2, <3>3 DEF Lives
    <2>3. OneSession' /\ OneInsert'
        <3>1. \A x \in Tasks : x # t => Mine(x)' = Mine(x)
            BY <1>0 DEF Mine
        <3> QED BY <1>0, <3>1 DEF OneSession, OneInsert
    <2>4. task[t].first => \A c \in convs : ~Lives(h, c)
        BY <1>0, <1>1 DEF Alone, On
    <2>5. ASSUME NEW x \in Tasks, NEW k \in Ids PROVE Alone(x, k)'
        <3> SUFFICES ASSUME task[x].first, On(x, k)
                     PROVE  /\ \A c \in convs : Lives(k, c)' => task'[x].pc = "bind" /\ c \in task'[x].conv
                            /\ \A r \in session : r.id = k => r.conv = {}
                            /\ \A o \in Tasks : task[o].first /\ On(o, k) => o = x
            BY <1>0, <2>1 DEF Alone
        <3>1. CASE x = t
            <4>1. k = h
                BY <1>1, <3>1 DEF On
            <4> QED BY <1>0, <2>2, <2>4, <3>1, <4>1 DEF Alone
        <3>2. CASE x # t
            <4>1. task[t].first => k # h
                BY <1>1, <3>2 DEF Alone, On
            <4> QED BY <2>2, <3>2, <4>1 DEF Alone
        <3> QED BY <3>1, <3>2
    <2>6. ASSUME NEW r \in session PROVE Kept(r)'
        <3>1. First(r.id) => First(r.id)'
            BY <2>1 DEF First
        <3>2. task[t].first => First(h)
            BY <1>1 DEF First, On
        <3> QED BY <1>0, <2>2, <3>1, <3>2 DEF Kept
    <2>7. ASSUME NEW k \in Ids PROVE OneLive(k)'
        <3>1. \A c, d \in task[t].conv : c = d
            BY <1>0 DEF OneBound
        <3>2. CASE task[t].first /\ k = h
            BY <1>0, <2>2, <2>4, <3>1, <3>2 DEF OneLive
        <3>3. CASE ~(task[t].first /\ k = h)
            BY <1>0, <2>2, <3>3 DEF OneLive
        <3> QED BY <3>2, <3>3
    <2>8. ASSUME NEW x \in Tasks PROVE Continues(x)'
        BY <1>0 DEF Continues, On
    <2> QED BY <1>0, <2>3, <2>5, <2>6, <2>7, <2>8
<1> QED BY <1>0, <1>2, <1>3

\* The first message binds what it has reached.
LEMMA BindKeepsSession ==
    ASSUME ChatsInv, SessInv, NEW t \in Tasks, \A x \in Tasks : x # t => task'[x] = task[x], Bind(t)
    PROVE  SessInv'
<1> USE DEF SessInv
<1>0. /\ task[t].pc = "bind" /\ task[t].first /\ UNCHANGED <<convs, reached, made, raced>>
      /\ task'[t].pc = "idle" /\ task'[t].first = FALSE
    BY IdsInRange, EndIs DEF Bind, Stage
<1>1. PICK h \in Ids : task[t].sess = {h}
    <2>1. Stage(t) /\ task[t].sess \subseteq Ids
        BY IdsInRange
    <2> QED BY <1>0, <2>1 DEF Stage, Serving
<1> DEFINE bound(s) == IF h = s.id /\ task[t].conv \subseteq convs
                       THEN [s EXCEPT !.conv = task[t].conv] ELSE s
<1>2. \A q \in session' : \E s \in session : q = bound(s)
    <2>1. session' = IF task[t].conv \subseteq convs
                     THEN {IF task[t].sess = {s.id} THEN [s EXCEPT !.conv = task[t].conv] ELSE s
                           : s \in session}
                     ELSE session
        BY DEF Bind
    <2>2. \A s : task[t].sess = {s.id} <=> h = s.id
        BY <1>1
    <2>3. CASE task[t].conv \subseteq convs
        BY <2>1, <2>2, <2>3
    <2>4. CASE ~(task[t].conv \subseteq convs)
        BY <2>1, <2>4
    <2> QED BY <2>3, <2>4
<1>3. ASSUME NEW s \in session
      PROVE  /\ bound(s).id = s.id /\ bound(s).user = s.user
             /\ bound(s).conv = IF h = s.id /\ task[t].conv \subseteq convs THEN task[t].conv ELSE s.conv
    <2>1. s \in [id : Nat, user : Nat, conv : SUBSET Nat]
        BY IdsInRange DEF RowTypes
    <2> QED BY <2>1
<1> HIDE DEF bound
<1>4. OneRow'
    BY <1>2, <1>3 DEF OneRow
<1>5. OneBound'
    BY <1>0, <1>2, <1>3 DEF OneBound
<1>6. ASSUME "session" \notin raced PROVE Unraced'
    <2> USE <1>6 DEF Unraced
    <2>1. \A k, c : Lives(k, c)' => Lives(k, c)
        BY <1>0 DEF Lives, Sends, On
    <2>2. \A x \in Tasks : \A k \in Ids : task'[x].first /\ On(x, k)' => x # t /\ k # h /\ task[x].first /\ On(x, k)
        BY <1>0, <1>1 DEF On, Alone
    <2>3. \A k : k # h /\ First(k) => First(k)'
        BY <1>1 DEF First, On
    <2>4. OneSession'
        BY <1>2, <1>3 DEF OneSession
    <2>5. OneInsert'
        <3>1. ASSUME NEW x \in Tasks, task'[x].pc = "insert" PROVE Mine(x)' = {}
            <4>1. x # t /\ Mine(x) = {}
                BY <1>0, <3>1 DEF OneInsert
            <4> QED BY <1>2, <1>3, <4>1 DEF Mine
        <3> QED BY <1>0, <3>1 DEF OneInsert
    <2>6. ASSUME NEW x \in Tasks, NEW k \in Ids PROVE Alone(x, k)'
        <3> SUFFICES ASSUME x # t, k # h, task[x].first, On(x, k)
                     PROVE  /\ \A c \in convs : Lives(k, c) => task[x].pc = "bind" /\ c \in task[x].conv
                            /\ \A q \in session' : q.id = k => q.conv = {}
                            /\ \A o \in Tasks : task[o].first /\ On(o, k) => o = x
            BY <1>0, <2>1, <2>2 DEF Alone
        <3> QED BY <1>2, <1>3 DEF Alone
    <2>7. ASSUME NEW q \in session' PROVE Kept(q)'
        <3>1. PICK s \in session : q = bound(s)
            BY <1>2
        <3> SUFFICES ASSUME s.id \in Ids, ~First(s.id)', NEW c \in convs, Lives(s.id, c) PROVE c \in q.conv
            BY <1>0, <1>3, <2>1, <3>1 DEF Kept
        <3>2. CASE s.id = h
            <4>1. c \in task[t].conv
                BY <1>0, <1>1, <3>2 DEF Alone, On
            <4>2. task[t].conv \subseteq convs
                BY <1>0, <4>1 DEF OneBound
            <4> QED BY <1>3, <3>1, <3>2, <4>1, <4>2
        <3>3. CASE s.id # h
            BY <1>3, <2>3, <3>1, <3>3 DEF Kept
        <3> QED BY <3>2, <3>3
    <2>8. ASSUME NEW k \in Ids PROVE OneLive(k)'
        BY <1>0, <2>1 DEF OneLive
    <2>9. ASSUME NEW x \in Tasks PROVE Continues(x)'
        <3>1. CASE x = t
            BY <1>0, <3>1 DEF Continues
        <3>2. CASE x # t
            <4>1. ASSUME task[x].pc = "reread", ~task[x].first, NEW q \in session', On(x, q.id)
                  PROVE  q.conv # {}
                <5>1. PICK s \in session : q = bound(s) /\ s.id = q.id
                    BY <1>2, <1>3
                <5>2. s.conv # {}
                    BY <4>1, <5>1 DEF Continues
                <5>3. s.id # h
                    BY <1>0, <1>1, <5>2 DEF Alone, On
                <5> QED BY <1>3, <5>1, <5>2, <5>3
            <4> QED BY <3>2, <4>1 DEF Continues, On
        <3> QED BY <3>1, <3>2
    <2> QED BY <1>0, <2>4, <2>5, <2>6, <2>7, <2>8, <2>9
<1> QED BY <1>0, <1>4, <1>5, <1>6

\* A conversation is deleted, and its session loses it.
LEMMA DeletionKeepsSession ==
    ASSUME ChatsInv, SessInv, NEW e \in Ids, DeleteConversation(e)
    PROVE  SessInv'
<1> USE DEF SessInv
<1>0. /\ convs' = convs \ {e} /\ reached' = [s \in Ids |-> reached[s] \ {e}]
      /\ session' = {[s EXCEPT !.conv = s.conv \ {e}] : s \in session} /\ UNCHANGED task
      /\ raced \subseteq raced'
    BY DEF DeleteConversation
<1>1. "session" \notin raced' =>
          \A s \in session : \A t \in Tasks :
              ~(e \in s.conv /\ task[t].pc = "reread" /\ task[t].sess = {s.id} /\ ~task[t].first)
    BY DEF DeleteConversation
<1>2. \A q \in session' : \E s \in session : q = [s EXCEPT !.conv = s.conv \ {e}]
    BY <1>0
<1> DEFINE less(s) == [s EXCEPT !.conv = s.conv \ {e}]
<1>3. \A s \in session : less(s).id = s.id /\ less(s).user = s.user /\ less(s).conv = s.conv \ {e}
    BY IdsInRange DEF RowTypes
<1>4. \A q \in session' : \E s \in session : q = less(s)
    BY <1>2
<1> HIDE DEF less
<1>5. OneRow'
    BY <1>3, <1>4 DEF OneRow
<1>6. OneBound'
    BY <1>0, <1>3, <1>4 DEF OneBound
<1>7. ASSUME "session" \notin raced' PROVE Unraced'
    <2> USE DEF Unraced
    <2>0. "session" \notin raced
        BY <1>0, <1>7
    <2>1. \A k \in Ids : \A c : Lives(k, c)' => Lives(k, c)
        BY <1>0 DEF Lives, Sends, On
    <2>2. \A x \in Tasks : \A k : task'[x].first /\ On(x, k)' <=> task[x].first /\ On(x, k)
        BY <1>0 DEF On
    <2>3. OneSession' /\ OneInsert'
        <3>1. OneSession'
            BY <1>3, <1>4, <2>0 DEF OneSession
        <3>2. ASSUME NEW x \in Tasks, task[x].pc = "insert" PROVE Mine(x)' = {}
            <4>1. Mine(x) = {}
                BY <2>0, <3>2 DEF OneInsert
            <4> QED BY <1>0, <1>3, <1>4, <4>1 DEF Mine
        <3> QED BY <1>0, <2>0, <3>1, <3>2 DEF OneInsert
    <2>4. ASSUME NEW x \in Tasks, NEW k \in Ids PROVE Alone(x, k)'
        <3> SUFFICES ASSUME task[x].first, On(x, k)
                     PROVE  /\ \A c \in convs' : Lives(k, c) => task[x].pc = "bind" /\ c \in task[x].conv
                            /\ \A q \in session' : q.id = k => q.conv = {}
                            /\ \A o \in Tasks : task[o].first /\ On(o, k) => o = x
            BY <1>0, <2>1, <2>2 DEF Alone
        <3>1. \A s \in session : s.id = k => s.conv = {}
            BY <2>0 DEF Alone
        <3>2. \A q \in session' : q.id = k => q.conv = {}
            BY <1>3, <1>4, <3>1
        <3> QED BY <1>0, <2>0, <3>2 DEF Alone
    <2>5. ASSUME NEW q \in session' PROVE Kept(q)'
        <3>1. PICK s \in session : q = less(s)
            BY <1>4
        <3>2. q.id = s.id /\ q.conv = s.conv \ {e} /\ (First(s.id) => First(s.id)')
            BY <1>3, <2>2, <3>1 DEF First
        <3> QED BY <1>0, <2>0, <2>1, <3>2 DEF Kept
    <2>6. ASSUME NEW k \in Ids PROVE OneLive(k)'
        BY <1>0, <2>0, <2>1 DEF OneLive
    <2>7. ASSUME NEW x \in Tasks PROVE Continues(x)'
        <3>1. ASSUME task[x].pc = "reread", ~task[x].first, NEW q \in session', On(x, q.id) PROVE q.conv # {}
            <4>1. PICK s \in session : q = less(s)
                BY <1>4
            <4>2. q.id = s.id /\ q.conv = s.conv \ {e}
                BY <1>3, <4>1
            <4>3. s.conv # {} /\ e \notin s.conv
                BY <1>1, <1>7, <2>0, <3>1, <4>2 DEF Continues, On
            <4> QED BY <4>2, <4>3
        <3> QED BY <1>0, <2>0, <3>1 DEF Continues, On
    <2> QED BY <2>3, <2>4, <2>5, <2>6, <2>7
<1> QED BY <1>5, <1>6, <1>7

\* Every step keeps the chat on one session and one conversation.
LEMMA SessStep == ChatsInv /\ SessInv /\ [Next]_vars => SessInv'
<1> SUFFICES ASSUME ChatsInv, SessInv, [Next]_vars PROVE SessInv'
    OBVIOUS
<1>0. RowTypes /\ AuthInv
    BY DEF ChatsInv, AuthInv
<1>1. ASSUME NEW t \in Messages, MessageStep(t) PROVE SessInv'
    <2>1. t \in Tasks /\ Stage(t)
        BY IdsInRange DEF Tasks
    <2>2. \A x \in Tasks : x # t => task'[x] = task[x]
        BY <1>0, <1>1, <2>1, OthersStay
    <2>3. CASE Aside(t)
        BY <2>1, <2>2, <2>3, AsideKeepsSession
    <2>4. CASE FindSession(t)
        <3>1. /\ task[t].pc = "find" /\ ~task[t].first
              /\ UNCHANGED <<session, convs, reached, made>> /\ raced \subseteq raced'
            BY <1>0, <2>1, <2>4, FindIs
        <3>2. CASE End(t)
            <4>1. Aside(t)
                BY <1>0, <2>1, <3>1, <3>2, EndsAside
            <4> QED BY <2>1, <2>2, <4>1, AsideKeepsSession
        <3>3. CASE \E s \in Mine(t) :
                      /\ task'[t].pc = "reread" /\ task'[t].sess = {s.id} /\ task'[t].first = (s.conv = {})
                      /\ s.conv = {} /\ "session" \notin raced' =>
                             \A o \in Tasks \ {t} : ~(task[o].first /\ task[o].sess = {s.id})
            BY <2>1, <2>2, <3>1, <3>3, HitKeepsSession
        <3>4. CASE /\ Mine(t) = {} /\ task'[t].pc = "insert" /\ ~task'[t].first
                   /\ task'[t].user = task[t].user
                   /\ "session" \notin raced' => \A o \in Tasks \ {t} : task[o].pc # "insert"
            BY <2>1, <2>2, <3>1, <3>4, MissKeepsSession
        <3> QED BY <1>0, <2>1, <2>4, <3>2, <3>3, <3>4, FindIs
    <2>5. CASE InsertSession(t) /\ References(t)
        <3>1. PICK u \in Nat, r \in [id : Nat, user : Nat, conv : SUBSET Nat] :
                  /\ task[t].pc = "insert" /\ ~task[t].first /\ task[t].user = {u}
                  /\ r.id = made.sessions + 1 /\ r.user = u /\ r.conv = {}
                  /\ session' = session \cup {r} /\ UNCHANGED <<convs, reached, raced>>
                  /\ \/ End(t)
                     \/ task'[t].pc = "reread" /\ task'[t].sess = {r.id} /\ task'[t].first
            BY <1>0, <2>1, <2>5, InsertIs
        <3> QED BY <2>1, <2>2, <3>1, NewRowKeepsSession
    <2>6. CASE Reread(t)
        <3>1. task[t].pc = "reread" /\ UNCHANGED <<session, convs, reached, made, raced>>
            BY <1>0, <2>1, <2>6, RereadIs
        <3>2. CASE End(t)
            <4>1. Aside(t)
                BY <1>0, <2>1, <3>1, <3>2, EndsAside
            <4> QED BY <2>1, <2>2, <4>1, AsideKeepsSession
        <3>3. CASE \E s \in session :
                      /\ task[t].sess = {s.id} /\ task'[t].conv = s.conv
                      /\ task'[t].pc = IF s.conv = {} THEN "converse" ELSE "send"
                      /\ task'[t].sess = task[t].sess /\ task'[t].first = task[t].first
            <4>1. PICK s \in session :
                      /\ task[t].sess = {s.id} /\ task'[t].conv = s.conv
                      /\ task'[t].pc = IF s.conv = {} THEN "converse" ELSE "send"
                      /\ task'[t].sess = task[t].sess /\ task'[t].first = task[t].first
                BY <3>3
            <4>2. On(t, s.id)
                BY <4>1 DEF On
            <4> QED BY <2>1, <2>2, <3>1, <4>1, <4>2, RereadKeepsSession
        <3> QED BY <1>0, <2>1, <2>6, <3>2, <3>3, RereadIs
    <2>7. CASE CreateConversation(t)
        BY <2>1, <2>2, <2>7, CreateKeepsSession
    <2>8. CASE Send(t)
        BY <2>1, <2>2, <2>8, SendKeepsSession
    <2>9. CASE Bind(t)
        BY <2>1, <2>2, <2>9, BindKeepsSession
    <2> QED BY <1>0, <1>1, <2>1, <2>3, <2>4, <2>5, <2>6, <2>7, <2>8, <2>9, MessageCases
<1>2. ASSUME NEW t \in Admins, AdminStep(t) PROVE SessInv'
    <2>1. t \in Tasks /\ Stage(t)
        BY IdsInRange DEF Tasks
    <2>2. \A x \in Tasks : x # t => task'[x] = task[x]
        BY <1>0, <1>2, <2>1, OthersStay
    <2>3. Aside(t)
        BY <1>0, <1>2, <2>1, RequestAside
    <2> QED BY <2>1, <2>2, <2>3, AsideKeepsSession
<1>3. ASSUME NEW t \in Tasks, CutOff(t) PROVE SessInv'
    <2>1. \A x \in Tasks : x # t => task'[x] = task[x]
        BY <1>0, <1>3, OthersStay
    <2>2. Aside(t)
        BY <1>0, <1>3, CutAside
    <2> QED BY <2>1, <2>2, AsideKeepsSession
<1>4. ASSUME NEW c \in Ids, DeleteConversation(c) PROVE SessInv'
    BY <1>4, DeletionKeepsSession
<1>5. CASE Age \/ Cleanup \/ UNCHANGED vars
    <2>1. UNCHANGED <<session, convs, reached, task, raced>>
        BY <1>5 DEF Age, Cleanup, vars, chats
    <2> QED BY <2>1 DEF SessInv, OneRow, OneBound, Unraced, OneSession, OneInsert, Alone, Kept,
                        OneLive, Continues, On, First, Lives, Sends, Mine
<1> QED BY <1>1, <1>2, <1>3, <1>4, <1>5 DEF Next

\* While no two first messages overlap, no deletion meets a message between its two
\* reads of the session and no task is cut off before its bind, a chat has one session
\* and all messages of a session reach the same conversation: get_or_create_session,
\* send_to_agent and bind_conversation, which are not one step, then work as one.
THEOREM OneConversationAlways == Spec => []OneConversation
<1>1. ASSUME ChatsInv, SessInv PROVE OneConversation
    <2> SUFFICES ASSUME "session" \notin raced
                 PROVE  /\ \A s, r \in session : s.user = r.user => s = r
                        /\ \A k \in Ids : Cardinality(reached[k]) <= 1
        BY DEF OneConversation
    <2>1. \A s, r \in session : s.user = r.user => s = r
        BY <1>1 DEF SessInv, Unraced, OneSession
    <2>2. ASSUME NEW k \in Ids PROVE Cardinality(reached[k]) <= 1
        <3>1. \A c, d \in reached[k] : c = d
            <4>1. reached[k] \subseteq convs /\ OneLive(k)
                BY <1>1, IdsInRange DEF SessInv, Unraced
            <4> QED BY <4>1 DEF OneLive, Lives
        <3>2. CASE reached[k] = {}
            BY <3>2, FS_EmptySet
        <3>3. CASE reached[k] # {}
            <4>1. PICK c : c \in reached[k]
                BY <3>3
            <4>2. reached[k] = {c}
                BY <3>1, <4>1
            <4>3. Cardinality({c}) = 1
                BY FS_Singleton
            <4>4. Cardinality(reached[k]) = 1
                BY <4>2, <4>3
            <4> QED BY <4>4
        <3> QED BY <3>2, <3>3
    <2> QED BY <2>1, <2>2
<1>2. Spec => []SessInv
    <2>1. ChatsInv /\ SessInv /\ [Next]_vars => SessInv'
        BY SessStep
    <2> QED BY SessInit, <2>1, ChatsAlways, PTL DEF Spec
<1> QED BY <1>1, <1>2, ChatsAlways, PTL
=============================================================================
