---------------------------- MODULE Accounts_proofs ----------------------------
(***************************************************************************)
(* Proofs about Accounts: all its properties but FriendIsAddedOnce, which  *)
(* does not hold.                                                          *)
(***************************************************************************)
EXTENDS Accounts, TLAPS

\* The rows of the friends table, without their order and multiplicity.
Rows == {friends[i] : i \in 1..Len(friends)}

\* What a handler in progress has found in the tables still holds: nobody else
\* writes them.
JobHolds ==
    job # NoJob =>
        /\ job.next = "update_password" =>
              Exists(job.name) /\ users[job.name].answer = job.answer
        /\ job.next \in {"insert_friend", "insert_reverse"} =>
              NameFits(job.user) /\ NameFits(job.friend)
        /\ job.next = "insert_reverse" => <<job.user, job.friend>> \in Rows

\* Reversing(u, f): the handler in progress still inserts the reverse row.
Reversing(u, f) ==
    job # NoJob /\ job.next = "insert_reverse" /\ {job.user, job.friend} = {u, f}

Mutual ==
    \A u, f \in Names :
        <<u, f>> \in Rows => <<f, u>> \in Rows \/ {u, f} \in faulted \/ Reversing(u, f)

Friendships ==
    /\ \A u, f \in Names : <<u, f>> \in Rows => NameFits(u) /\ NameFits(f)
    /\ befriended \subseteq Rows

Credentials ==
    /\ PasswordIsBelieved
    /\ \A n \in Names : believed[n] # {} => Exists(n)

IInv == TypeOK /\ JobHolds /\ Mutual /\ Friendships /\ Credentials

-----------------------------------------------------------------------------
(* Lemmas *)

LEMMA RowsAreNamePairs == TypeOK => Rows \subseteq Names \X Names
  BY DEF TypeOK, Rows

LEMMA RowsAppend ==
  ASSUME NEW s \in Seq(Names \X Names), NEW r \in Names \X Names
  PROVE  /\ Append(s, r) \in Seq(Names \X Names)
         /\ {Append(s, r)[i] : i \in 1..Len(Append(s, r))} =
              {s[i] : i \in 1..Len(s)} \union {r}
<1>1. /\ Append(s, r) \in Seq(Names \X Names)
      /\ Len(Append(s, r)) = Len(s) + 1 /\ Len(s) \in Nat
      /\ Append(s, r)[Len(s) + 1] = r
      /\ \A i \in 1..Len(s) : Append(s, r)[i] = s[i]
  OBVIOUS
<1> DEFINE t == Append(s, r)
<1> HIDE DEF t
<1>2. ASSUME NEW i \in 1..Len(t) PROVE t[i] \in {s[j] : j \in 1..Len(s)} \union {r}
  <2>1. CASE i = Len(s) + 1
    BY <2>1, <1>1 DEF t
  <2>2. CASE i # Len(s) + 1
    <3>1. i \in 1..Len(s)
      BY <2>2, <1>1 DEF t
    <3> QED
      BY <3>1, <1>1 DEF t
  <2> QED
    BY <2>1, <2>2
<1>3. ASSUME NEW j \in 1..Len(s) PROVE s[j] \in {t[i] : i \in 1..Len(t)}
  <2>1. j \in 1..Len(t) /\ t[j] = s[j]
    BY <1>1 DEF t
  <2> QED
    BY <2>1
<1>4. r \in {t[i] : i \in 1..Len(t)}
  <2>1. Len(s) + 1 \in 1..Len(t) /\ t[Len(s) + 1] = r
    BY <1>1 DEF t
  <2> QED
    BY <2>1
<1>5. {t[i] : i \in 1..Len(t)} = {s[i] : i \in 1..Len(s)} \union {r}
  BY <1>2, <1>3, <1>4
<1> QED
  BY <1>1, <1>5 DEF t

\* A job of each kind has the fields of that kind.
LEMMA JobFields ==
  ASSUME TypeOK, job # NoJob
  PROVE  /\ job.next \in {"insert_user", "update_password", "insert_friend", "insert_reverse"}
         /\ job.next \in {"insert_user", "update_password"} =>
              job.name \in Names /\ job.pw \in Passwords /\ job.answer \in Answers
         /\ job.next \in {"insert_friend", "insert_reverse"} =>
              job.user \in Names /\ job.friend \in Names
  BY DEF TypeOK, Job

-----------------------------------------------------------------------------
(* The invariant *)

LEMMA InitIInv == Init => IInv
<1> SUFFICES ASSUME Init PROVE IInv
  OBVIOUS
<1>1. Rows = {}
  BY DEF Init, Rows
<1>2. TypeOK
  BY DEF Init, TypeOK, Codes
<1>3. JobHolds /\ Mutual /\ Friendships
  BY <1>1 DEF Init, JobHolds, Mutual, Friendships
<1>4. Credentials
  BY DEF Init, Credentials, PasswordIsBelieved, Exists
<1> QED
  BY <1>2, <1>3, <1>4 DEF IInv

\* The tables and the histories stay, and what becomes the job in progress has
\* been looked up in them.
LEMMA StepLookUp ==
  ASSUME IInv, job = NoJob, UNCHANGED <<users, friends, historyVars>>,
         reply' \in Codes, job' \in Job \union {NoJob},
         job' # NoJob =>
           /\ job'.next # "insert_reverse"
           /\ job'.next = "update_password" =>
                Exists(job'.name) /\ users[job'.name].answer = job'.answer
           /\ job'.next = "insert_friend" => NameFits(job'.user) /\ NameFits(job'.friend)
  PROVE  IInv'
<1>1. Rows' = Rows
  BY DEF Rows
<1>2. TypeOK'
  BY DEF IInv, TypeOK, historyVars
<1>3. JobHolds'
  BY DEF JobHolds, Exists, NameFits
<1>4. Mutual'
  BY <1>1 DEF IInv, Mutual, Reversing, historyVars
<1>5. Friendships' /\ Credentials'
  BY <1>1 DEF IInv, Friendships, Credentials, PasswordIsBelieved, Exists, NameFits, historyVars
<1> QED
  BY <1>2, <1>3, <1>4, <1>5 DEF IInv

LEMMA StepRegister ==
  ASSUME IInv, NEW n \in Names, NEW p \in Passwords, NEW a \in Answers, HandleRegister(n, p, a)
  PROVE  IInv'
<1>1. CASE Respond("USERNAME_EXISTS")
  BY <1>1, StepLookUp DEF HandleRegister, Respond, Codes
<1>2. CASE job' = [next |-> "insert_user", name |-> n, pw |-> p, answer |-> a] /\ UNCHANGED reply
  <2>1. job' \in Job /\ job'.next = "insert_user" /\ reply' \in Codes
    BY <1>2 DEF Job, IInv, TypeOK
  <2> QED
    BY <2>1, StepLookUp DEF HandleRegister
<1> QED
  BY <1>1, <1>2 DEF HandleRegister

LEMMA StepReset ==
  ASSUME IInv, NEW n \in Names, NEW p \in Passwords, NEW a \in Answers, HandleReset(n, p, a)
  PROVE  IInv'
<1>1. CASE \E code \in Codes : Respond(code)
  BY <1>1, StepLookUp DEF HandleReset, Respond
<1>2. CASE /\ Exists(n) /\ users[n].answer = a
           /\ job' = [next |-> "update_password", name |-> n, pw |-> p, answer |-> a]
           /\ UNCHANGED reply
  <2>1. job' \in Job /\ job'.next = "update_password" /\ reply' \in Codes
        /\ job'.name = n /\ job'.answer = a
    BY <1>2 DEF Job, IInv, TypeOK
  <2> QED
    BY <1>2, <2>1, StepLookUp DEF HandleReset
<1> QED
  BY <1>1, <1>2 DEF HandleReset, Codes

LEMMA StepAddFriend ==
  ASSUME IInv, NEW u \in Names, NEW f \in Names, HandleAddFriend(u, f)
  PROVE  IInv'
<1>1. CASE \E code \in Codes : Respond(code)
  BY <1>1, StepLookUp DEF HandleAddFriend, Respond
<1>2. CASE /\ NameFits(u) /\ NameFits(f)
           /\ job' = [next |-> "insert_friend", user |-> u, friend |-> f]
           /\ UNCHANGED reply
  <2>1. job' \in Job /\ job'.next = "insert_friend" /\ reply' \in Codes
        /\ job'.user = u /\ job'.friend = f
    BY <1>2 DEF Job, IInv, TypeOK
  <2> QED
    BY <1>2, <2>1, StepLookUp DEF HandleAddFriend
<1> QED
  BY <1>1, <1>2 DEF HandleAddFriend, Codes

LEMMA StepInsertUser ==
  ASSUME IInv, NEW outcome \in Outcomes, InsertUser(outcome)
  PROVE  IInv'
<1> DEFINE n == job.name
<1>1. /\ job # NoJob /\ job.next = "insert_user" /\ n \in Names
      /\ job.pw \in Passwords /\ job.answer \in Answers
  BY JobFields DEF InsertUser, IInv
<1>2. job' = NoJob /\ reply' \in Codes
  BY DEF InsertUser, Respond, Codes
<1>3. Rows' = Rows
  BY DEF InsertUser, Rows
<1>4. \/ /\ ~Exists(n)
         /\ users' = [users EXCEPT ![n] = [pw |-> job.pw, answer |-> job.answer]]
         /\ believed' = [believed EXCEPT ![n] = {job.pw}]
      \/ /\ users' = users
         /\ believed' = [believed EXCEPT ![n] = believed[n]]
  BY DEF InsertUser
<1>5. TypeOK'
  <2>1. users' \in [Names -> Account \union {NoAccount}]
    BY <1>1, <1>4 DEF IInv, TypeOK, Account
  <2>2. believed' \in [Names -> SUBSET Passwords] 
    BY <1>1, <1>4 DEF IInv, TypeOK
  <2> QED
    BY <1>2, <2>1, <2>2 DEF InsertUser, IInv, TypeOK
<1>6. JobHolds'
  BY <1>2 DEF JobHolds
<1>7. Mutual' /\ Friendships'
  BY <1>1, <1>2, <1>3 DEF InsertUser, IInv, Mutual, Reversing, Friendships, NameFits
<1>8. Credentials'
  <2>1. [pw |-> job.pw, answer |-> job.answer] # NoAccount
    BY <1>1, ConstantsAssumption
  <2>2. ASSUME NEW m \in Names PROVE
          /\ believed'[m] # {} => Exists(m)'
          /\ Exists(m)' => users'[m].pw \in believed'[m]
    BY <1>1, <1>4, <2>1 DEF IInv, TypeOK, Credentials, PasswordIsBelieved, Exists
  <2> QED
    BY <1>5, <2>2 DEF TypeOK, Credentials, PasswordIsBelieved
<1> QED
  BY <1>5, <1>6, <1>7, <1>8 DEF IInv

LEMMA StepUpdatePassword ==
  ASSUME IInv, NEW outcome \in Outcomes, UpdatePassword(outcome)
  PROVE  IInv'
<1> DEFINE n == job.name
<1>1. /\ job # NoJob /\ job.next = "update_password" /\ n \in Names /\ job.pw \in Passwords
      /\ Exists(n)
  BY JobFields DEF UpdatePassword, IInv, JobHolds
<1>2. job' = NoJob /\ reply' \in Codes
  BY DEF UpdatePassword, Respond, Codes
<1>3. Rows' = Rows
  BY DEF UpdatePassword, Rows
<1>4. users[n] \in Account
  BY <1>1 DEF IInv, TypeOK, Exists
<1>5. \/ /\ users' = [users EXCEPT ![n] = [pw |-> job.pw, answer |-> users[n].answer]]
         /\ job.pw \in believed'[n]
      \/ users' = users /\ believed[n] \subseteq believed'[n]
  <2>1. [users[n] EXCEPT !.pw = job.pw] = [pw |-> job.pw, answer |-> users[n].answer]
    BY <1>4 DEF Account
  <2>2. users' = [users EXCEPT ![n] = [users[n] EXCEPT !.pw = job.pw]] \/ users' = users
    BY DEF UpdatePassword
  <2>3. /\ job.pw \in believed'[n]
        /\ ~Executed(outcome) => believed[n] \subseteq believed'[n]
    BY <1>1 DEF UpdatePassword, Executed, IInv, TypeOK
  <2> QED
    BY <2>1, <2>2, <2>3 DEF UpdatePassword
<1>6. /\ \A m \in Names \ {n} : believed'[m] = believed[m]
      /\ believed' \in [Names -> SUBSET Passwords]
  BY <1>1 DEF UpdatePassword, IInv, TypeOK
<1>7. TypeOK'
  <2>1. users' \in [Names -> Account \union {NoAccount}]
    BY <1>1, <1>4, <1>5 DEF IInv, TypeOK, Account
  <2> QED
    BY <1>2, <1>6, <2>1 DEF UpdatePassword, IInv, TypeOK
<1>8. JobHolds'
  BY <1>2 DEF JobHolds
<1>9. Mutual' /\ Friendships'
  BY <1>1, <1>2, <1>3 DEF UpdatePassword, IInv, Mutual, Reversing, Friendships, NameFits
<1>10. Credentials'
  <2>1. [pw |-> job.pw, answer |-> users[n].answer] # NoAccount
    BY <1>1, <1>4, ConstantsAssumption DEF Account
  <2>2. ASSUME NEW m \in Names PROVE
          /\ believed'[m] # {} => Exists(m)'
          /\ Exists(m)' => users'[m].pw \in believed'[m]
    BY <1>1, <1>5, <1>6, <2>1 DEF IInv, TypeOK, Credentials, PasswordIsBelieved, Exists
  <2> QED
    BY <2>2 DEF Credentials, PasswordIsBelieved
<1> QED
  BY <1>7, <1>8, <1>9, <1>10 DEF IInv

\* What an insert into the friends table leaves: the old rows or one more.
LEMMA StepInsertRow ==
  ASSUME IInv, NEW outcome \in Outcomes, NEW u \in Names, NEW f \in Names,
         friends' = IF Executed(outcome) THEN Append(friends, <<u, f>>) ELSE friends
  PROVE  /\ friends' \in Seq(Names \X Names)
         /\ Rows' = IF Executed(outcome) THEN Rows \union {<<u, f>>} ELSE Rows
<1>1. friends \in Seq(Names \X Names) /\ <<u, f>> \in Names \X Names
  BY DEF IInv, TypeOK
<1>2. CASE Executed(outcome)
  <2>1. friends' = Append(friends, <<u, f>>)
    BY <1>2
  <2> QED
    BY <1>1, <1>2, <2>1, RowsAppend DEF Rows
<1>3. CASE ~Executed(outcome)
  BY <1>1, <1>3 DEF Rows
<1> QED
  BY <1>2, <1>3

LEMMA StepInsertFriend ==
  ASSUME IInv, NEW outcome \in Outcomes, InsertFriend(outcome)
  PROVE  IInv'
<1> DEFINE u == job.user  f == job.friend
<1>1. /\ job # NoJob /\ job.next = "insert_friend" /\ u \in Names /\ f \in Names
      /\ NameFits(u) /\ NameFits(f)
  BY JobFields DEF InsertFriend, IInv, JobHolds
<1>2. /\ friends' \in Seq(Names \X Names)
      /\ Rows' = IF Executed(outcome) THEN Rows \union {<<u, f>>} ELSE Rows
  BY <1>1, StepInsertRow DEF InsertFriend
<1>3. \/ /\ outcome = "done" /\ faulted' = faulted /\ reply' = reply
         /\ job' = [next |-> "insert_reverse", user |-> u, friend |-> f]
      \/ /\ outcome # "done" /\ job' = NoJob /\ reply' \in Codes
         /\ faulted' = IF Executed(outcome) THEN faulted \union {{u, f}} ELSE faulted
  <2>1. job \in [next : {"insert_friend", "insert_reverse"}, user : Names, friend : Names]
    BY <1>1 DEF IInv, TypeOK, Job
  <2>2. [job EXCEPT !.next = "insert_reverse"] =
          [next |-> "insert_reverse", user |-> u, friend |-> f]
    BY <2>1
  <2> QED
    BY <2>2 DEF InsertFriend, Respond, Codes
<1>4. outcome = "done" => Executed(outcome)
  BY DEF Executed
<1>5. TypeOK'
  <2>1. job' \in Job \union {NoJob}
    BY <1>1, <1>3 DEF Job
  <2>2. faulted' \subseteq SUBSET Names /\ reply' \in Codes
    BY <1>1, <1>3 DEF IInv, TypeOK
  <2> QED
    BY <1>2, <2>1, <2>2 DEF InsertFriend, IInv, TypeOK
<1>6. JobHolds'
  BY <1>1, <1>2, <1>3, <1>4 DEF JobHolds, NameFits
<1>7. Mutual'
  <2>1. \/ /\ job' # NoJob /\ job'.next = "insert_reverse"
           /\ job'.user = u /\ job'.friend = f
        \/ {u, f} \in faulted'
        \/ Rows' = Rows
    <3>1. [next |-> "insert_reverse", user |-> u, friend |-> f] \in Job
      BY <1>1 DEF Job
    <3> QED
      BY <1>2, <1>3, <3>1, NoJobAssumption
  <2>2. ~Reversing(f, u) /\ \A x, y \in Names : ~Reversing(x, y)
    BY <1>1 DEF Reversing
  <2>3. ASSUME NEW x \in Names, NEW y \in Names, <<x, y>> \in Rows'
        PROVE  <<y, x>> \in Rows' \/ {x, y} \in faulted' \/ Reversing(x, y)'
    <3>1. CASE <<x, y>> \in Rows
      BY <3>1, <2>2, <1>2, <1>3 DEF IInv, Mutual
    <3>2. CASE x = u /\ y = f
      BY <2>3, <3>1, <3>2, <2>1 DEF Reversing
    <3> QED
      BY <2>3, <3>1, <3>2, <1>2
  <2> QED
    BY <2>3 DEF Mutual
<1>8. Friendships'
  BY <1>1, <1>2 DEF InsertFriend, IInv, Friendships, NameFits
<1>9. Credentials'
  BY DEF InsertFriend, IInv, Credentials, PasswordIsBelieved, Exists
<1> QED
  BY <1>5, <1>6, <1>7, <1>8, <1>9 DEF IInv

LEMMA StepInsertReverse ==
  ASSUME IInv, NEW outcome \in Outcomes, InsertReverse(outcome)
  PROVE  IInv'
<1> DEFINE u == job.user  f == job.friend
<1>1. /\ job # NoJob /\ job.next = "insert_reverse" /\ u \in Names /\ f \in Names
      /\ NameFits(u) /\ NameFits(f) /\ <<u, f>> \in Rows
  BY JobFields DEF InsertReverse, IInv, JobHolds
<1>2. /\ friends' \in Seq(Names \X Names)
      /\ Rows' = IF Executed(outcome) THEN Rows \union {<<f, u>>} ELSE Rows
  BY <1>1, StepInsertRow DEF InsertReverse
<1>3. /\ job' = NoJob /\ reply' \in Codes
      /\ befriended' = befriended \union {<<u, f>>}
      /\ faulted' = IF outcome = "done" THEN faulted ELSE faulted \union {{u, f}}
  BY DEF InsertReverse, Respond, Codes
<1>4. <<f, u>> \in Rows' \/ {u, f} \in faulted'
  BY <1>2, <1>3 DEF Executed
<1>5. TypeOK'
  <2>1. faulted' \subseteq SUBSET Names /\ befriended' \subseteq Names \X Names
    BY <1>1, <1>3 DEF IInv, TypeOK
  <2> QED
    BY <1>2, <1>3, <2>1 DEF InsertReverse, IInv, TypeOK
<1>6. JobHolds'
  BY <1>3 DEF JobHolds
<1>7. Mutual'
  <2>1. ASSUME NEW x \in Names, NEW y \in Names, <<x, y>> \in Rows'
        PROVE  <<y, x>> \in Rows' \/ {x, y} \in faulted'
    <3>1. CASE <<x, y>> \in Rows /\ ~Reversing(x, y)
      BY <3>1, <1>2, <1>3 DEF IInv, Mutual
    <3>2. CASE Reversing(x, y)
      <4>1. (x = u /\ y = f) \/ (x = f /\ y = u)
        BY <3>2 DEF Reversing
      <4>2. {x, y} = {u, f}
        BY <4>1
      <4> QED
        BY <4>1, <4>2, <1>1, <1>2, <1>4
    <3>3. CASE x = f /\ y = u
      BY <3>3, <1>1, <1>2
    <3> QED
      BY <2>1, <3>1, <3>2, <3>3, <1>2
  <2> QED
    BY <2>1 DEF Mutual
<1>8. Friendships'
  BY <1>1, <1>2, <1>3 DEF IInv, Friendships, NameFits
<1>9. Credentials'
  BY DEF InsertReverse, IInv, Credentials, PasswordIsBelieved, Exists
<1> QED
  BY <1>5, <1>6, <1>7, <1>8, <1>9 DEF IInv

LEMMA StepCrash == ASSUME IInv, Crash PROVE IInv'
<1>1. Rows' = Rows
  BY DEF Crash, Rows
<1>2. TypeOK' /\ JobHolds'
  <2>1. faulted' \subseteq SUBSET Names
    BY JobFields DEF Crash, IInv, TypeOK
  <2> QED
    BY <2>1 DEF Crash, IInv, TypeOK, JobHolds
<1>3. Mutual'
  <2>1. ASSUME NEW x \in Names, NEW y \in Names, Reversing(x, y) PROVE {x, y} \in faulted'
    BY <2>1 DEF Reversing, Crash
  <2>2. faulted \subseteq faulted'
    BY DEF Crash
  <2> QED
    BY <1>1, <2>1, <2>2 DEF IInv, Mutual
<1>4. Friendships' /\ Credentials'
  BY <1>1 DEF Crash, IInv, Friendships, Credentials, PasswordIsBelieved, Exists, NameFits
<1> QED
  BY <1>2, <1>3, <1>4 DEF IInv

LEMMA StepIInv == IInv /\ [Next]_vars => IInv'
<1> SUFFICES ASSUME IInv, [Next]_vars PROVE IInv'
  OBVIOUS
<1>1. ASSUME Next PROVE IInv'
  BY <1>1, StepRegister, StepReset, StepAddFriend, StepInsertUser, StepUpdatePassword,
     StepInsertFriend, StepInsertReverse, StepCrash DEF Next
<1>2. ASSUME UNCHANGED vars PROVE IInv'
  <2>1. Rows' = Rows
    BY <1>2 DEF vars, Rows
  <2>2. TypeOK' /\ JobHolds'
    BY <1>2, <2>1 DEF vars, historyVars, IInv, TypeOK, JobHolds, Exists, NameFits
  <2>3. Mutual' /\ Friendships' /\ Credentials'
    BY <1>2, <2>1 DEF vars, historyVars, IInv, Mutual, Reversing, Friendships, Credentials,
                      PasswordIsBelieved, Exists, NameFits
  <2> QED
    BY <2>2, <2>3 DEF IInv
<1> QED
  BY <1>1, <1>2

LEMMA Invariance == Spec => []IInv
  BY InitIInv, StepIInv, PTL DEF Spec

-----------------------------------------------------------------------------
(* Theorems *)

\* The tables and the histories keep their types.
THEOREM AccountsTyped == Spec => []TypeOK
  BY Invariance, PTL DEF IInv

\* Friendship is mutual but for the pairs whose handler met a fault or is still
\* in progress, whatever statements fail and whenever the server dies.
THEOREM FriendshipIsMutual == Spec => []SymmetricUnlessFaulted
<1>1. IInv => SymmetricUnlessFaulted
  <2> SUFFICES ASSUME IInv, NEW i \in 1..Len(friends)
               PROVE  LET u == friends[i][1]  f == friends[i][2]
                      IN RowExists(f, u) \/ {u, f} \in faulted \/ Reversing(u, f)
    BY DEF SymmetricUnlessFaulted, Reversing
  <2> DEFINE u == friends[i][1]  f == friends[i][2]
  <2>1. u \in Names /\ f \in Names /\ friends[i] = <<u, f>> /\ <<u, f>> \in Rows
    <3>1. friends[i] \in Names \X Names /\ friends[i] \in Rows
      BY DEF IInv, TypeOK, Rows
    <3> QED
      BY <3>1
  <2>2. <<f, u>> \in Rows => RowExists(f, u)
    BY DEF Rows, RowExists
  <2> QED
    BY <2>1, <2>2 DEF IInv, Mutual
<1> QED
  BY Invariance, <1>1, PTL

\* A friend who was added with SUCCESS is listed, and no row hides another.
THEOREM AddedFriendsAreListed == Spec => []AddedFriendIsListed
<1>1. IInv => AddedFriendIsListed
  <2> SUFFICES ASSUME IInv, NEW pair \in befriended
               PROVE  RowExists(pair[1], pair[2]) /\ ListsAllFriends(pair[1])
    BY DEF AddedFriendIsListed
  <2>1. pair = <<pair[1], pair[2]>> /\ pair \in Rows
    BY DEF IInv, TypeOK, Friendships
  <2>2. RowExists(pair[1], pair[2])
    BY <2>1 DEF Rows, RowExists
  <2>3. ASSUME NEW i \in 1..Len(friends) PROVE NameFits(friends[i][2])
    <3>1. friends[i] \in Names \X Names /\ friends[i] \in Rows
      BY DEF IInv, TypeOK, Rows
    <3>2. friends[i] = <<friends[i][1], friends[i][2]>>
      BY <3>1
    <3> QED
      BY <3>1, <3>2 DEF IInv, Friendships
  <2> QED
    BY <2>2, <2>3 DEF ListsAllFriends
<1> QED
  BY Invariance, <1>1, PTL

\* The stored password is one that the user has reason to believe in.
THEOREM StoredPasswordIsBelieved == Spec => []PasswordIsBelieved
  BY Invariance, PTL DEF IInv, Credentials

\* The password that the server last confirmed logs its user in and no other
\* does, whatever statements fail and whenever the server dies, unless the name
\* is longer than the buffer.
THEOREM ConfirmedPasswordsLogIn == Spec => []ConfirmedPasswordLogsIn
<1>1. IInv => ConfirmedPasswordLogsIn
  <2> SUFFICES ASSUME IInv, NEW n \in Names, NEW p \in Passwords, NEW q \in Passwords,
                      believed[n] = {p}
               PROVE  VerifyUser(n, q) <=> NameFits(n) /\ q = p
    BY DEF ConfirmedPasswordLogsIn
  <2>1. Exists(n)
    BY DEF IInv, Credentials
  <2>2. users[n].pw = p
    BY <2>1 DEF IInv, Credentials, PasswordIsBelieved
  <2> QED
    BY <2>1, <2>2 DEF VerifyUser
<1> QED
  BY Invariance, <1>1, PTL

\* No step but the update of a reset that gave the right answer changes a
\* password, and no step changes an answer or removes an account.
THEOREM PasswordsAreGuarded == Spec => OnlyTheAnswerChangesThePassword
<1> DEFINE Guarded ==
      \A n \in Names : Exists(n) =>
        /\ users'[n] # NoAccount
        /\ users'[n].answer = users[n].answer
        /\ users'[n].pw # users[n].pw =>
             /\ job.next = "update_password" /\ job.name = n
             /\ job.answer = users[n].answer
<1>1. IInv /\ [Next]_vars => [Guarded]_vars
  <2> SUFFICES ASSUME IInv, Next, NEW n \in Names, Exists(n)
               PROVE  /\ users'[n] # NoAccount
                      /\ users'[n].answer = users[n].answer
                      /\ users'[n].pw # users[n].pw =>
                           /\ job.next = "update_password" /\ job.name = n
                           /\ job.answer = users[n].answer
    OBVIOUS
  <2>1. CASE users' = users
    BY <2>1 DEF Exists
  <2>2. ASSUME NEW outcome \in Outcomes, InsertUser(outcome)
        PROVE  users'[n] = users[n]
    <3>1. users' = users \/ (~Exists(job.name) /\ \E v : users' = [users EXCEPT ![job.name] = v])
      BY <2>2 DEF InsertUser
    <3> QED
      BY <3>1 DEF IInv, TypeOK
  <2>3. ASSUME NEW outcome \in Outcomes, UpdatePassword(outcome), users' # users
        PROVE  /\ users'[n] # NoAccount
               /\ users'[n].answer = users[n].answer
               /\ users'[n].pw # users[n].pw =>
                    job.next = "update_password" /\ job.name = n /\ job.answer = users[n].answer
    <3>1. /\ job # NoJob /\ job.next = "update_password"
          /\ users' = [users EXCEPT ![job.name] = [users[job.name] EXCEPT !.pw = job.pw]]
          /\ job.answer = users[job.name].answer /\ job.name \in Names /\ job.pw \in Passwords
      BY <2>3, JobFields DEF UpdatePassword, IInv, JobHolds
    <3>2. CASE job.name = n
      <4>1. users[n] \in Account
        BY DEF IInv, TypeOK, Exists
      <4>2. users'[n] = [users[n] EXCEPT !.pw = job.pw]
        BY <3>1, <3>2 DEF IInv, TypeOK
      <4>3. users'[n] \in Account /\ users'[n].answer = users[n].answer
        BY <3>1, <4>1, <4>2 DEF Account
      <4> QED
        BY <3>1, <3>2, <4>3, ConstantsAssumption DEF Account
    <3>3. CASE job.name # n
      BY <3>1, <3>3 DEF IInv, TypeOK, Exists
    <3> QED
      BY <3>2, <3>3
  <2>4. \/ users' = users
        \/ \E outcome \in Outcomes : InsertUser(outcome)
        \/ \E outcome \in Outcomes : UpdatePassword(outcome)
    BY DEF Next, HandleRegister, HandleReset, HandleAddFriend, InsertFriend, InsertReverse, Crash
  <2> QED
    BY <2>1, <2>2, <2>3, <2>4 DEF Exists
<1> QED
  BY Invariance, <1>1, PTL DEF Spec, OnlyTheAnswerChangesThePassword
=============================================================================
