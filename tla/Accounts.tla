------------------------------ MODULE Accounts ------------------------------
(***************************************************************************)
(* The accounts and friendships that MessageHandler keeps in the users and *)
(* friends tables: handle_register, handle_security_question,              *)
(* handle_reset_password, handle_add_friend and handle_friend_list with    *)
(* the DatabasePool functions they call, on the schema of sql/init.sql.    *)
(*                                                                         *)
(* Every DatabasePool function is one SQL statement, committed on its own: *)
(* a handler with several statements is several actions, and the server    *)
(* may die between two of them.  The server has one thread, so only one    *)
(* handler is in progress.  The primary key AUTO_INCREMENT identifies a    *)
(* user as the UNIQUE username does; the model uses the name for both.     *)
(* Hashes are modelled as the secret they are computed from.               *)
(***************************************************************************)
EXTENDS Integers, Sequences, FiniteSets

CONSTANTS
    Names,      \* usernames of 1 to 64 characters
    LongNames,  \* those of more than 64 bytes in utf8mb4
    Passwords, Answers,
    NoAccount, NoJob,
    MaxRows,    \* bound: rows of the friends table
    DbFaults    \* statements may fail, and the server may die

ASSUME ConstantsAssumption ==
    /\ LongNames \subseteq Names
    /\ NoAccount \notin [pw : Passwords, answer : Answers]
    /\ MaxRows \in Nat
    /\ DbFaults \in BOOLEAN

Account == [pw : Passwords, answer : Answers]
Codes == {"SUCCESS", "USER_NOT_FOUND", "DATABASE_ERROR", "FRIEND_REQUEST_EXISTS",
          "CANNOT_ADD_SELF", "USERNAME_EXISTS", "INVALID_ANSWER", "NONE"}

\* The handler in progress, by the statement it executes next.
Job == [next : {"insert_user"}, name : Names, pw : Passwords, answer : Answers]
       \union [next : {"update_password"}, name : Names, pw : Passwords, answer : Answers]
       \union [next : {"insert_friend", "insert_reverse"}, user : Names, friend : Names]

ASSUME NoJobAssumption == NoJob \notin Job

VARIABLES
    users,      \* the users table
    friends,    \* the friends table, row by row
    job,        \* the handler in progress
    reply,      \* the error code of the last response
    believed,   \* history: passwords that a user has reason to believe in
    befriended, \* history: <<user, friend>> whose request was answered SUCCESS
    faulted     \* history: pairs whose handler met a fault after a row was inserted

historyVars == <<believed, befriended, faulted>>
vars == <<users, friends, job, reply, historyVars>>

TypeOK ==
    /\ users \in [Names -> Account \union {NoAccount}]
    /\ friends \in Seq(Names \X Names)
    /\ job \in Job \union {NoJob}
    /\ reply \in Codes
    /\ believed \in [Names -> SUBSET Passwords]
    /\ befriended \subseteq Names \X Names
    /\ faulted \subseteq SUBSET Names

Init ==
    /\ users = [n \in Names |-> NoAccount]
    /\ friends = <<>>
    /\ job = NoJob
    /\ reply = "NONE"
    /\ believed = [n \in Names |-> {}]
    /\ befriended = {} /\ faulted = {}

Exists(n) == users[n] # NoAccount
RowExists(u, f) == \E i \in 1..Len(friends) : friends[i] = <<u, f>>

Respond(code) == reply' = code /\ job' = NoJob

-----------------------------------------------------------------------------
(* DatabasePool *)

\* mysql_stmt_fetch reports a column that does not fit its 64-byte buffer as
\* truncated, and the callers take any result but 0 for a missing row.
NameFits(n) == n \notin LongNames

\* verify_user
VerifyUser(n, p) == Exists(n) /\ NameFits(n) /\ users[n].pw = p

\* get_friends stops at the first row that does not fit; the rows come in no
\* particular order.
ListsAllFriends(u) == \A i \in 1..Len(friends) : friends[i][1] = u => NameFits(friends[i][2])

\* A statement is executed and reports so ("done"), fails ("failed"), or is
\* executed while the connection, or the server itself, is lost before the
\* result arrives ("lost").
Outcomes == IF DbFaults THEN {"done", "failed", "lost"} ELSE {"done"}
Executed(outcome) == outcome \in {"done", "lost"}

-----------------------------------------------------------------------------
(* handle_register *)

\* username_exists, which a failing database answers with false.
HandleRegister(n, p, a) ==
    /\ job = NoJob
    /\ \/ /\ Exists(n)
          /\ Respond("USERNAME_EXISTS")
       \/ /\ Exists(n) => DbFaults
          /\ job' = [next |-> "insert_user", name |-> n, pw |-> p, answer |-> a]
          /\ UNCHANGED reply
    /\ UNCHANGED <<users, friends, historyVars>>

\* Mutation: the parameters are bound in the wrong order.
InsertUserSwapped(outcome) ==
    /\ job # NoJob /\ job.next = "insert_user"
    /\ users' = [users EXCEPT ![job.name] = [pw |-> job.answer, answer |-> job.pw]]
    /\ Respond("SUCCESS")
    /\ UNCHANGED <<friends, historyVars>>

\* Mutation: the result of the insert is not looked at.
InsertUserUnchecked(outcome) ==
    /\ job # NoJob /\ job.next = "insert_user"
    /\ LET n == job.name
           inserted == Executed(outcome) /\ ~Exists(n)
       IN  /\ users' = IF inserted
                       THEN [users EXCEPT ![n] = [pw |-> job.pw, answer |-> job.answer]]
                       ELSE users
           /\ believed' = [believed EXCEPT ![n] = {job.pw}]
    /\ Respond("SUCCESS")
    /\ UNCHANGED <<friends, befriended, faulted>>

\* register_user: the UNIQUE username makes the insert of a taken name fail.
InsertUser(outcome) ==
    /\ job # NoJob /\ job.next = "insert_user"
    /\ LET n == job.name
           inserted == Executed(outcome) /\ ~Exists(n)
       IN  /\ users' = IF inserted
                       THEN [users EXCEPT ![n] = [pw |-> job.pw, answer |-> job.answer]]
                       ELSE users
           /\ Respond(IF inserted /\ outcome = "done" THEN "SUCCESS" ELSE "DATABASE_ERROR")
           /\ believed' = [believed EXCEPT ![n] = IF inserted THEN {job.pw} ELSE @]
    /\ UNCHANGED <<friends, befriended, faulted>>

-----------------------------------------------------------------------------
(* handle_reset_password *)

\* Mutation: the answer is not compared.
HandleResetUnchecked(n, p, a) ==
    /\ job = NoJob /\ Exists(n)
    /\ job' = [next |-> "update_password", name |-> n, pw |-> p, answer |-> a]
    /\ UNCHANGED <<users, friends, reply, historyVars>>

\* get_security_question, then the comparison of the answers.
HandleReset(n, p, a) ==
    /\ job = NoJob
    /\ \/ /\ Exists(n) => DbFaults
          /\ Respond("USER_NOT_FOUND")
       \/ /\ Exists(n) /\ users[n].answer # a
          /\ Respond("INVALID_ANSWER")
       \/ /\ Exists(n) /\ users[n].answer = a
          /\ job' = [next |-> "update_password", name |-> n, pw |-> p, answer |-> a]
          /\ UNCHANGED reply
    /\ UNCHANGED <<users, friends, historyVars>>

\* Mutation: a failed update is answered as a success.
UpdatePasswordUnchecked(outcome) ==
    /\ job # NoJob /\ job.next = "update_password"
    /\ users' = IF Executed(outcome) THEN [users EXCEPT ![job.name].pw = job.pw] ELSE users
    /\ Respond("SUCCESS")
    /\ believed' = [believed EXCEPT ![job.name] = {job.pw}]
    /\ UNCHANGED <<friends, befriended, faulted>>

\* reset_password
UpdatePassword(outcome) ==
    /\ job # NoJob /\ job.next = "update_password"
    /\ users' = IF Executed(outcome) THEN [users EXCEPT ![job.name].pw = job.pw] ELSE users
    /\ Respond(IF outcome = "done" THEN "SUCCESS" ELSE "DATABASE_ERROR")
    /\ believed' = [believed EXCEPT ![job.name] =
                       IF outcome = "done" THEN {job.pw} ELSE @ \union {job.pw}]
    /\ UNCHANGED <<friends, befriended, faulted>>

-----------------------------------------------------------------------------
(* handle_add_friend *)

\* The user of the request logged in: a connection's user_id_ comes from
\* verify_user.  In the model no request comes once the table could overflow.
HandleAddFriend(u, f) ==
    /\ job = NoJob
    /\ Exists(u) /\ NameFits(u)
    /\ Len(friends) + 2 <= MaxRows
    /\ \/ u = f /\ Respond("CANNOT_ADD_SELF")
       \/ /\ u # f
          /\ Exists(f) /\ NameFits(f) => DbFaults
          /\ Respond("USER_NOT_FOUND")
       \/ /\ u # f /\ Exists(f) /\ NameFits(f)
          /\ job' = [next |-> "insert_friend", user |-> u, friend |-> f]
          /\ UNCHANGED reply
    /\ UNCHANGED <<users, friends, historyVars>>

\* Mutation: the answer does not wait for the insert to succeed.
InsertFriendUnchecked(outcome) ==
    /\ job # NoJob /\ job.next = "insert_friend"
    /\ friends' = IF Executed(outcome) THEN Append(friends, <<job.user, job.friend>>)
                  ELSE friends
    /\ Respond("SUCCESS")
    /\ befriended' = befriended \union {<<job.user, job.friend>>}
    /\ UNCHANGED <<users, believed, faulted>>

\* The first add_friend: any failure is answered as an existing request.
InsertFriend(outcome) ==
    /\ job # NoJob /\ job.next = "insert_friend"
    /\ friends' = IF Executed(outcome) THEN Append(friends, <<job.user, job.friend>>)
                  ELSE friends
    /\ IF outcome = "done"
       THEN job' = [job EXCEPT !.next = "insert_reverse"] /\ UNCHANGED <<reply, faulted>>
       ELSE /\ Respond("FRIEND_REQUEST_EXISTS")
            /\ faulted' = IF Executed(outcome) THEN faulted \union {{job.user, job.friend}}
                          ELSE faulted
    /\ UNCHANGED <<users, believed, befriended>>

\* Mutation: only one direction of the friendship is stored.
InsertReverseSkipped(outcome) ==
    /\ job # NoJob /\ job.next = "insert_reverse"
    /\ Respond("SUCCESS")
    /\ befriended' = befriended \union {<<job.user, job.friend>>}
    /\ UNCHANGED <<users, friends, believed, faulted>>

\* The second add_friend: its result is not looked at.
InsertReverse(outcome) ==
    /\ job # NoJob /\ job.next = "insert_reverse"
    /\ friends' = IF Executed(outcome) THEN Append(friends, <<job.friend, job.user>>)
                  ELSE friends
    /\ Respond("SUCCESS")
    /\ befriended' = befriended \union {<<job.user, job.friend>>}
    /\ faulted' = IF outcome = "done" THEN faulted
                  ELSE faulted \union {{job.user, job.friend}}
    /\ UNCHANGED <<users, believed>>

-----------------------------------------------------------------------------

\* The server dies between two statements of a handler and is started again:
\* the tables stay, nobody is answered.
Crash ==
    /\ DbFaults /\ job # NoJob
    /\ job' = NoJob
    /\ faulted' = IF job.next = "insert_reverse"
                  THEN faulted \union {{job.user, job.friend}} ELSE faulted
    /\ UNCHANGED <<users, friends, reply, believed, befriended>>

Next ==
    \/ \E n \in Names, p \in Passwords, a \in Answers :
         HandleRegister(n, p, a) \/ HandleReset(n, p, a)
    \/ \E u, f \in Names : HandleAddFriend(u, f)
    \/ \E outcome \in Outcomes :
         \/ InsertUser(outcome) \/ UpdatePassword(outcome)
         \/ InsertFriend(outcome) \/ InsertReverse(outcome)
    \/ Crash

Spec == Init /\ [][Next]_vars

-----------------------------------------------------------------------------
(* Properties *)

\* handle_add_friend makes friends of both: a friendship that is stored in one
\* direction only belongs to a handler in progress or to one that met a fault.
SymmetricUnlessFaulted ==
    \A i \in 1..Len(friends) :
        LET u == friends[i][1]  f == friends[i][2]
        IN  \/ RowExists(f, u)
            \/ {u, f} \in faulted
            \/ job # NoJob /\ job.next = "insert_reverse" /\ {job.user, job.friend} = {u, f}

\* A friend who was added with SUCCESS is in the user's friend list, whatever
\* failed meanwhile, and get_friends returns the whole list.
AddedFriendIsListed ==
    \A pair \in befriended : RowExists(pair[1], pair[2]) /\ ListsAllFriends(pair[1])

\* The stored password is one the user has reason to believe in: that of the
\* last acknowledged registration or reset, or of an unacknowledged one since.
PasswordIsBelieved ==
    \A n \in Names : Exists(n) => users[n].pw \in believed[n]

\* An account is created once, its security answer stays, and its password
\* changes only in a reset that gave the answer.
OnlyTheAnswerChangesThePassword ==
    [][\A n \in Names : Exists(n) =>
         /\ users'[n] # NoAccount
         /\ users'[n].answer = users[n].answer
         /\ users'[n].pw # users[n].pw =>
              /\ job.next = "update_password" /\ job.name = n
              /\ job.answer = users[n].answer]_vars

\* The password that the server last confirmed, by answering a registration or
\* a reset with SUCCESS and leaving no later one in doubt, logs its user in, and
\* no other password does: neither a refused registration of the same name nor a
\* reset that failed takes the account over or locks its user out.  A name that
\* does not fit the 64-byte buffer of verify_user logs in with no password.
ConfirmedPasswordLogsIn ==
    \A n \in Names, p, q \in Passwords :
        believed[n] = {p} => (VerifyUser(n, q) <=> NameFits(n) /\ q = p)

\* message_handler.cpp:227 logs a refused insert as FRIEND_EXISTS and answers
\* FRIEND_REQUEST_EXISTS: who is a friend already cannot be added once more.
FriendIsAddedOnce ==
    \A i, j \in 1..Len(friends) : friends[i] = friends[j] => i = j
=============================================================================
