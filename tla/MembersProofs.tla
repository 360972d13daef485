--------------------------- MODULE MembersProofs ---------------------------
(***************************************************************************)
(* The accounts for any number of connections, users and comments: types,  *)
(* files that follow the tables, and that nobody becomes an admin and no   *)
(* password changes but by an admin.  The inductive invariant is TypeOK    *)
(* with FilesFollow: what a restart reads back is known only through the   *)
(* files, so that neither action property holds without it.                *)
(*                                                                         *)
(* What a deletion by place takes needs more: until a save fails the lists *)
(* are in the order of posting, and no page has at any place a newer       *)
(* comment than the list has there now.  CommentsInv adds it.              *)
(***************************************************************************)
EXTENDS Members, DataTheorems

CommentSeq == Seq(Comment \cup {Damaged})

----------------------------------------------------------------------------
\* Files

\* What is read back of a file of users cut short is a dictionary of users.
LEMMA CutUsersType ==
  ASSUME NEW u, IsDicti(u, Login, User), NEW v \in CutUsers(u)
  PROVE  IsDicti(v, Login, User)
<1>1. CASE v = EmptyDicti
  BY <1>1, EmptyDictiType
<1>2. ASSUME NEW l \in DOMAIN u, v = keepItems(u, {k \in Login : k < l})
      PROVE  IsDicti(v, Login, User)
  BY <1>2, KeepItemsType
<1>3. ASSUME NEW l \in DOMAIN u,
             v = setItem(keepItems(u, {k \in Login : k < l}), l,
                         [pass |-> NoPass, access |-> u[l].access, created |-> FALSE])
      PROVE  IsDicti(v, Login, User)
  <2>1. l \in Login /\ u[l] \in User
    BY DEF IsDicti
  <2>2. [pass |-> NoPass, access |-> u[l].access, created |-> FALSE] \in User
    BY <2>1 DEF User
  <2>3. IsDicti(keepItems(u, {k \in Login : k < l}), Login, User)
    BY KeepItemsType
  <2> QED
    BY <1>3, <2>1, <2>2, <2>3, SetItemType
<1> QED
  BY <1>1, <1>2, <1>3 DEF CutUsers

LEMMA CutCommentsType ==
  ASSUME NEW s \in CommentSeq, NEW t \in CutComments(s)
  PROVE  t \in CommentSeq
<1>1. ASSUME NEW n \in 0 .. Len(s)
      PROVE  SubSeq(s, 1, n) \in CommentSeq /\ Append(SubSeq(s, 1, n), Damaged) \in CommentSeq
  <2>1. SubSeq(s, 1, n) \in CommentSeq
    BY DEF CommentSeq
  <2> QED
    BY <2>1 DEF CommentSeq
<1>2. <<>> \in CommentSeq
  BY DEF CommentSeq
<1>3. t = <<>> \/ \E n \in 0 .. Len(s) : t = SubSeq(s, 1, n) \/ t = Append(SubSeq(s, 1, n), Damaged)
  BY DEF CutComments
<1> QED
  BY <1>1, <1>2, <1>3

LEMMA SaveUsersType ==
  ASSUME TypeOK, IsDicti(m_pUsers', Login, User), saveUsers
  PROVE  IsDicti(usersFile', Login, User) /\ failed' \in BOOLEAN
BY CutUsersType DEF TypeOK, saveUsers, Saved

LEMMA SaveCommentsType ==
  ASSUME TypeOK, m_pComments' \in CommentSeq, saveComments
  PROVE  commentsFile' \in CommentSeq /\ failed' \in BOOLEAN
BY CutCommentsType DEF TypeOK, saveComments, Saved, CommentSeq

----------------------------------------------------------------------------
\* Requests

LEMMA AccessType ==
  ASSUME TypeOK, NEW l, NEW p
  PROVE  checkUser(l, p) \in SUBSET Right
<1>1. \A k \in DOMAIN m_pUsers : m_pUsers[k].access \in SUBSET Right
  BY DEF TypeOK, IsDicti, User
<1> QED
  BY <1>1, MembersAssumption DEF checkUser

LEMMA RespondType ==
  ASSUME TypeOK, NEW c \in Client, NEW R, Respond(c, R)
  PROVE  rqst' \in [Client -> Request \cup {NoRequest}]
BY DEF TypeOK, Respond

\* Pages that change users are for admins.
LEMMA AdminResponds ==
  ASSUME NEW c \in Client, Respond(c, UsersPageNeeds)
  PROVE  rqst[c] # NoRequest /\ IsAdmin(rqst[c].access)
BY DEF Respond, UsersPageNeeds, IsAdmin

LEMMA NewUser ==
  ASSUME NEW p \in Pass \cup {NoPass}, NEW access \in SUBSET Right
  PROVE  [pass |-> p, access |-> access, created |-> TRUE] \in User
BY DEF User

LEMMA AccessRights == Access \subseteq SUBSET Right /\ m_iMemberAccess \in SUBSET Right
BY MembersAssumption

\* What an edit makes of the users.
LEMMA EditUserType ==
  ASSUME TypeOK, NEW c \in Client, NEW l \in Login, NEW p \in Pass \cup {NoPass},
         NEW access \in Access, EditUser(c, l, p, access)
  PROVE  /\ IsDicti(m_pUsers', Login, User)
         /\ \A k \in DOMAIN m_pUsers' : m_pUsers'[k].created = m_pUsers[k].created
         /\ DOMAIN m_pUsers' = DOMAIN m_pUsers
<1> DEFINE u == [m_pUsers[l] EXCEPT !.pass = IF p = NoPass THEN @ ELSE p, !.access = access]
<1>1. m_pUsers' = [m_pUsers EXCEPT ![l] = u]
  BY DEF EditUser, TypeOK, IsDicti, User
<1>2. l \in DOMAIN m_pUsers /\ m_pUsers[l] \in User /\ m_pUsers \in [DOMAIN m_pUsers -> User]
  BY DEF EditUser, TypeOK, IsDicti
<1>3. u \in User /\ u.created = m_pUsers[l].created
  BY <1>2, AccessRights DEF User
<1> HIDE DEF u
<1> QED
  BY <1>1, <1>2, <1>3 DEF TypeOK, IsDicti

----------------------------------------------------------------------------
\* The invariant

Inv == TypeOK /\ FilesFollow

LEMMA InitInv == Init => Inv
<1> SUFFICES ASSUME Init PROVE Inv
  OBVIOUS
<1>1. TypeOK
  <2>1. IsDicti(m_pUsers, Login, User) /\ IsDicti(usersFile, Login, User)
    BY EmptyDictiType DEF Init, NoUsers
  <2>2. posted \in 0 .. MaxComments
    BY MembersAssumption DEF Init
  <2>3. <<>> \in Seq(Comment \cup {Damaged})
    OBVIOUS
  <2>4. rqst \in [Client -> Request \cup {NoRequest}]
    BY DEF Init
  <2> QED
    BY <2>1, <2>2, <2>3, <2>4 DEF Init, TypeOK
<1>2. FilesFollow
  BY DEF Init, FilesFollow, NoUsers, EmptyDicti
<1> QED
  BY <1>1, <1>2 DEF Inv

\* A user added, with a date, and saved.
LEMMA AddUserInv ==
  ASSUME Inv, NEW c \in Client, NEW R, Respond(c, R), NEW l \in Login, NEW p \in Pass,
         NEW access \in SUBSET Right, addUser(l, p, access), UNCHANGED <<comments, page>>
  PROVE  Inv'
<1>1. IsDicti(m_pUsers', Login, User)
  BY NewUser, SetItemType DEF addUser, Inv, TypeOK
<1>2. TypeOK'
  BY <1>1, SaveUsersType, RespondType DEF addUser, Inv, TypeOK, comments
<1>3. FilesFollow'
  BY DEF addUser, saveUsers, Saved, setItem, comments, Inv, FilesFollow
<1> QED
  BY <1>2, <1>3 DEF Inv

LEMMA ProcessHeadersInv ==
  ASSUME Inv, NEW c \in Client, NEW l, NEW p, NEW n \in Nat, ProcessHeaders(c, l, p, n)
  PROVE  Inv'
<1>1. [access |-> checkUser(l, p), del |-> n] \in Request
  BY AccessType DEF Request, Inv
<1>2. rqst' \in [Client -> Request \cup {NoRequest}]
  BY <1>1 DEF ProcessHeaders, Inv, TypeOK
<1> QED
  BY <1>2 DEF ProcessHeaders, Inv, TypeOK, FilesFollow, users, comments

LEMMA MakeResponseInv ==
  ASSUME Inv, NEW c \in Client, MakeResponse(c)
  PROVE  Inv'
<1>1. ASSUME NEW l \in Login, NEW p \in Pass, NEW access \in Access, CreateUser(c, l, p, access)
      PROVE  Inv'
  BY <1>1, AddUserInv, AccessRights DEF CreateUser
<1>2. ASSUME NEW l \in Login, NEW p \in Pass \cup {NoPass}, NEW access \in Access,
             EditUser(c, l, p, access)
      PROVE  Inv'
  <2>1. TypeOK'
    BY <1>2, EditUserType, SaveUsersType, RespondType DEF EditUser, Inv, TypeOK, comments
  <2>2. /\ \A k \in DOMAIN m_pUsers' : m_pUsers'[k].created = m_pUsers[k].created
        /\ DOMAIN m_pUsers' = DOMAIN m_pUsers
    BY <1>2, EditUserType DEF Inv
  <2>3. saveUsers /\ UNCHANGED <<comments, page>>
    BY <1>2 DEF EditUser
  <2>4. FilesFollow'
    BY <2>2, <2>3 DEF saveUsers, Saved, comments, Inv, FilesFollow
  <2> QED
    BY <2>1, <2>4 DEF Inv
<1>3. ASSUME NEW l \in Login, DeleteUser(c, l)
      PROVE  Inv'
  <2>1. IsDicti(m_pUsers', Login, User)
    BY <1>3, DelItemType DEF DeleteUser, Inv, TypeOK
  <2>2. TypeOK'
    BY <1>3, <2>1, SaveUsersType, RespondType DEF DeleteUser, Inv, TypeOK, comments
  <2>3. FilesFollow'
    BY <1>3 DEF DeleteUser, saveUsers, Saved, delItem, comments, Inv, FilesFollow
  <2> QED
    BY <2>2, <2>3 DEF Inv
<1>4. ASSUME NEW l \in Login, NEW p \in Pass, serverResponseSignup(c, l, p)
      PROVE  Inv'
  BY <1>4, AddUserInv, AccessRights DEF serverResponseSignup
<1>5. CASE ViewComments(c)
  BY <1>5, RespondType DEF ViewComments, Inv, TypeOK, FilesFollow, users, comments
<1>6. CASE AddComment(c)
  <2>1. posted' \in 0 .. MaxComments /\ posted' \in Comment
    BY <1>6, MembersAssumption DEF AddComment, Inv, TypeOK, Comment
  <2>2. m_pComments' \in CommentSeq
    BY <1>6, <2>1 DEF AddComment, Inv, TypeOK, CommentSeq
  <2>3. TypeOK'
    BY <1>6, <2>1, <2>2, SaveCommentsType, RespondType
    DEF AddComment, Inv, TypeOK, users, CommentSeq
  <2>4. FilesFollow'
    BY <1>6 DEF AddComment, saveComments, Saved, users, Inv, FilesFollow
  <2> QED
    BY <2>3, <2>4 DEF Inv
<1>7. CASE DeleteComment(c)
  <2>1. m_pComments \in CommentSeq /\ rqst[c] \in Request
    BY <1>7 DEF DeleteComment, Respond, Inv, TypeOK, CommentSeq
  <2>2. rqst[c].del \in 1 .. Len(m_pComments)
    BY <1>7, <2>1 DEF DeleteComment, iDel, Request, CommentSeq
  <2>3. m_pComments' \in CommentSeq
    BY <1>7, <2>1, <2>2 DEF DeleteComment, iDel, RemoveAt, CommentSeq
  <2>4. TypeOK'
    BY <1>7, <2>3, SaveCommentsType, RespondType
    DEF DeleteComment, Inv, TypeOK, users, CommentSeq
  <2>5. FilesFollow'
    BY <1>7 DEF DeleteComment, saveComments, Saved, users, Inv, FilesFollow
  <2> QED
    BY <2>4, <2>5 DEF Inv
<1>8. CASE DeleteAll(c)
  <2>1. m_pComments' \in CommentSeq
    BY <1>8 DEF DeleteAll, CommentSeq
  <2>2. TypeOK'
    BY <1>8, <2>1, SaveCommentsType, RespondType DEF DeleteAll, Inv, TypeOK, users, CommentSeq
  <2>3. FilesFollow'
    BY <1>8 DEF DeleteAll, saveComments, Saved, users, Inv, FilesFollow
  <2> QED
    BY <2>2, <2>3 DEF Inv
<1>9. CASE Nothing(c)
  BY <1>9, RespondType DEF Nothing, Inv, TypeOK, FilesFollow, users, comments
<1> QED
  BY <1>1, <1>2, <1>3, <1>4, <1>5, <1>6, <1>7, <1>8, <1>9 DEF MakeResponse

LEMMA LoadedInv ==
  ASSUME Inv, Loaded
  PROVE  Inv'
<1>1. TypeOK'
  BY DEF Loaded, Inv, TypeOK
<1>2. FilesFollow'
  BY DEF Loaded, Inv, FilesFollow
<1> QED
  BY <1>1, <1>2 DEF Inv

LEMMA NextInv == Inv /\ [Next]_vars => Inv'
<1> SUFFICES ASSUME Inv, [Next]_vars PROVE Inv'
  OBVIOUS
<1>1. ASSUME NEW c \in Client, NEW l \in Login \cup {NoLogin}, NEW p \in Pass,
             NEW n \in 0 .. MaxComments + 1, ProcessHeaders(c, l, p, n)
      PROVE  Inv'
  BY <1>1, ProcessHeadersInv, MembersAssumption
<1>2. ASSUME NEW c \in Client, MakeResponse(c)
      PROVE  Inv'
  BY <1>2, MakeResponseInv
<1>3. CASE Loaded
  BY <1>3, LoadedInv
<1>4. CASE UNCHANGED vars
  BY <1>4 DEF vars, Inv, TypeOK, FilesFollow
<1> QED
  BY <1>1, <1>2, <1>3, <1>4 DEF Next, Restart, CheckUserCrashes

\* Tables, files, requests and pages keep their types.
THEOREM TypeCorrect == Spec => []TypeOK
<1> QED
  BY InitInv, NextInv, PTL DEF Spec, Inv

\* The files hold the users and the comments, whole, until a save fails.
THEOREM FilesFollowAlways == Spec => []FilesFollow
<1> QED
  BY InitInv, NextInv, PTL DEF Spec, Inv

----------------------------------------------------------------------------
\* Rights

\* A response leaves no request that was not there.
LEMMA RespondLocked ==
  ASSUME Inv, Locked, NEW c \in Client, NEW R, Respond(c, R)
  PROVE  \A d \in Client : rqst'[d] # NoRequest => ~IsAdmin(rqst'[d].access)
BY DEF Respond, Locked, Inv, TypeOK

LEMMA LockedResponse ==
  ASSUME Inv, Locked, NEW c \in Client, MakeResponse(c)
  PROVE  Locked'
<1>1. ~Respond(c, UsersPageNeeds)
  BY AdminResponds DEF Locked
<1>2. ASSUME NEW l \in Login, NEW p \in Pass, serverResponseSignup(c, l, p)
      PROVE  Locked'
  <2>1. /\ m_pUsers' = setItem(m_pUsers, l, [pass |-> p, access |-> m_iMemberAccess,
                                             created |-> TRUE])
        /\ Respond(c, {"SIGNUP"})
    BY <1>2 DEF serverResponseSignup, addUser
  <2>2. l \in DOMAIN m_pUsers' /\ m_pUsers' # NoUsers
    BY <2>1 DEF setItem, NoUsers, EmptyDicti
  <2>3. \A k \in DOMAIN m_pUsers' : ~IsAdmin(m_pUsers'[k].access)
    BY <2>1 DEF setItem, Locked
  <2> QED
    BY <2>1, <2>2, <2>3, RespondLocked DEF Locked
<1>3. CASE \/ ViewComments(c) \/ AddComment(c) \/ DeleteComment(c)
           \/ DeleteAll(c) \/ Nothing(c)
  <2>1. m_pUsers' = m_pUsers
    BY <1>3 DEF ViewComments, AddComment, DeleteComment, DeleteAll, Nothing, users
  <2>2. \E R : Respond(c, R)
    BY <1>3 DEF ViewComments, AddComment, DeleteComment, DeleteAll, Nothing
  <2> QED
    BY <2>1, <2>2, RespondLocked DEF Locked
<1> QED
  BY <1>1, <1>2, <1>3 DEF MakeResponse, CreateUser, EditUser, DeleteUser

LEMMA LockedNext == Inv /\ [Next]_vars => (Locked /\ ~failed => Locked')
<1> SUFFICES ASSUME Inv, [Next]_vars, Locked, ~failed PROVE Locked'
  OBVIOUS
<1>1. ASSUME NEW c \in Client, NEW l, NEW p, NEW n, ProcessHeaders(c, l, p, n)
      PROVE  Locked'
  <2>1. ~IsAdmin(checkUser(l, p))
    BY DEF checkUser, Locked, NoUsers
  <2>2. m_pUsers' = m_pUsers
    BY <1>1 DEF ProcessHeaders, users
  <2>3. \A d \in Client : rqst'[d] # NoRequest => ~IsAdmin(rqst'[d].access)
    BY <1>1, <2>1 DEF ProcessHeaders, Locked, Inv, TypeOK
  <2> QED
    BY <2>2, <2>3 DEF Locked
<1>2. ASSUME NEW c \in Client, MakeResponse(c)
      PROVE  Locked'
  BY <1>2, LockedResponse
<1>3. CASE Loaded
  <2>1. m_pUsers' = m_pUsers
    BY <1>3 DEF Loaded, Inv, FilesFollow
  <2> QED
    BY <1>3, <2>1 DEF Loaded, Locked
<1>4. CASE UNCHANGED vars
  BY <1>4 DEF vars, Locked
<1> QED
  BY <1>1, <1>2, <1>3, <1>4 DEF Next, Restart, CheckUserCrashes

\* A tracker without admins stays without: no order of requests, restarts and
\* sign-ups makes one, unless the file of users was cut.
THEOREM NobodyBecomesAdmin == Spec => NoneBecomesAdmin
<1>1. Inv /\ [Next]_vars => [Locked /\ ~failed => Locked']_vars
  BY LockedNext
<1> QED
  BY <1>1, InitInv, NextInv, PTL DEF Spec, NoneBecomesAdmin

----------------------------------------------------------------------------
\* Passwords

ByAdmin ==
  \E c \in Client : rqst[c] # NoRequest /\ rqst'[c] = NoRequest /\ IsAdmin(rqst[c].access)

Kept ==
  \A l \in DOMAIN m_pUsers \cap DOMAIN m_pUsers' :
    m_pUsers'[l].pass # m_pUsers[l].pass /\ ~failed => ByAdmin

LEMMA KeptResponse ==
  ASSUME Inv, NEW c \in Client, MakeResponse(c)
  PROVE  Kept
<1>1. CASE Respond(c, UsersPageNeeds)
  <2>1. rqst[c] # NoRequest /\ rqst'[c] = NoRequest /\ IsAdmin(rqst[c].access)
    BY <1>1, AdminResponds DEF Respond, Inv, TypeOK
  <2> QED
    BY <2>1 DEF Kept, ByAdmin
<1>2. ASSUME NEW l \in Login, NEW p \in Pass, serverResponseSignup(c, l, p)
      PROVE  Kept
  BY <1>2 DEF serverResponseSignup, CanAdd, addUser, setItem, Kept
<1>3. CASE \/ ViewComments(c) \/ AddComment(c) \/ DeleteComment(c)
           \/ DeleteAll(c) \/ Nothing(c)
  BY <1>3 DEF ViewComments, AddComment, DeleteComment, DeleteAll, Nothing, users, Kept
<1> QED
  BY <1>1, <1>2, <1>3 DEF MakeResponse, CreateUser, EditUser, DeleteUser

LEMMA KeptNext == Inv /\ [Next]_vars => [Kept]_vars
<1> SUFFICES ASSUME Inv, Next PROVE Kept
  OBVIOUS
<1>1. ASSUME NEW c \in Client, NEW l, NEW p, NEW n, ProcessHeaders(c, l, p, n)
      PROVE  Kept
  BY <1>1 DEF ProcessHeaders, users, Kept
<1>2. ASSUME NEW c \in Client, MakeResponse(c)
      PROVE  Kept
  BY <1>2, KeptResponse
<1>3. CASE Loaded
  BY <1>3 DEF Loaded, Inv, FilesFollow, Kept
<1> QED
  BY <1>1, <1>2, <1>3 DEF Next, Restart, CheckUserCrashes

\* Whoever has a name keeps his password but for an admin's request, until a save
\* fails: signing up never takes an account over.
THEOREM PasswordsKeptAlways == Spec => PasswordsKept
<1>1. [Kept]_vars => [\A l \in DOMAIN m_pUsers \cap DOMAIN m_pUsers' :
       m_pUsers'[l].pass # m_pUsers[l].pass /\ ~failed =>
         \E c \in Client : /\ rqst[c] # NoRequest /\ rqst'[c] = NoRequest
                           /\ IsAdmin(rqst[c].access)]_vars
  BY DEF Kept, ByAdmin
<1> QED
  BY <1>1, InitInv, NextInv, KeptNext, PTL DEF Spec, PasswordsKept

----------------------------------------------------------------------------
\* Comments

\* Comments are numbered as they are posted: a list in that order, of those posted.
Ascending(s) == \A i, j \in 1 .. Len(s) : i < j => s[i] < s[j]
UpTo(s, m) == \A i \in 1 .. Len(s) : s[i] <= m

\* At no place has t an older comment than s: it went on from s.
NotBefore(s, t) == \A i \in 1 .. Len(s) : i <= Len(t) => s[i] <= t[i]

\* Every page is an earlier list, and lists only lose comments and get newer ones.
Ordered ==
  /\ Ascending(m_pComments) /\ UpTo(m_pComments, posted)
  /\ \A c \in Client : /\ Ascending(page[c]) /\ UpTo(page[c], posted)
                       /\ NotBefore(page[c], m_pComments)

\* Requests that delete have a comment on the client's page in mind.
Chosen == \A c \in Client : rqst[c] # NoRequest => rqst[c].del \in 0 .. Len(page[c])

CommentsInv == Inv /\ Chosen /\ (~failed => Ordered)

\* What remains when one comment is removed.
LEMMA Removed ==
  ASSUME NEW s \in CommentSeq, NEW n \in 1 .. Len(s)
  PROVE  LET r == RemoveAt(s, n)
         IN  /\ r \in CommentSeq /\ Len(r) = Len(s) - 1
             /\ \A i \in 1 .. Len(s) - 1 : r[i] = IF i < n THEN s[i] ELSE s[i + 1]
<1> DEFINE a == SubSeq(s, 1, n - 1)
           b == SubSeq(s, n + 1, Len(s))
<1>1. Len(s) \in Nat /\ n \in Nat /\ n >= 1 /\ n <= Len(s)
  BY DEF CommentSeq
<1>2. /\ a \in CommentSeq /\ Len(a) = n - 1
      /\ \A i \in 1 .. n - 1 : a[i] = s[i]
  BY <1>1 DEF CommentSeq
<1>3. /\ b \in CommentSeq /\ Len(b) = Len(s) - n
      /\ \A i \in 1 .. Len(s) - n : b[i] = s[n + i]
  BY <1>1 DEF CommentSeq
<1>4. RemoveAt(s, n) = a \o b
  BY DEF RemoveAt
<1> HIDE DEF a, b
<1>5. /\ a \o b \in CommentSeq /\ Len(a \o b) = Len(a) + Len(b)
      /\ \A i \in 1 .. Len(a) + Len(b) :
           (a \o b)[i] = IF i <= Len(a) THEN a[i] ELSE b[i - Len(a)]
  <2>1. a \in CommentSeq /\ b \in CommentSeq
    BY <1>2, <1>3
  <2> QED
    BY <2>1, ConcatProperties DEF CommentSeq
<1>6. ASSUME NEW i \in 1 .. Len(s) - 1
      PROVE  (a \o b)[i] = IF i < n THEN s[i] ELSE s[i + 1]
  <2>1. CASE i < n
    BY <1>1, <1>2, <1>3, <1>5, <2>1
  <2>2. CASE ~ (i < n)
    <3>1. i - (n - 1) \in 1 .. Len(s) - n /\ n + (i - (n - 1)) = i + 1
      BY <1>1, <2>2
    <3>2. b[i - (n - 1)] = s[i + 1]
      BY <1>3, <3>1
    <3> QED
      BY <1>1, <1>2, <1>3, <1>5, <2>2, <3>2
  <2> QED
    BY <2>1, <2>2
<1> QED
  BY <1>1, <1>2, <1>3, <1>4, <1>5, <1>6

\* Removing a comment leaves the order, and a list that went on from the same ones.
LEMMA RemovedOrder ==
  ASSUME NEW s \in CommentSeq, NEW n \in 1 .. Len(s), NEW m, Ascending(s), UpTo(s, m)
  PROVE  /\ Ascending(RemoveAt(s, n)) /\ UpTo(RemoveAt(s, n), m)
         /\ \A p \in CommentSeq : NotBefore(p, s) => NotBefore(p, RemoveAt(s, n))
<1> DEFINE r == RemoveAt(s, n)
<1>1. /\ Len(s) \in Nat /\ n \in Nat
      /\ Len(r) = Len(s) - 1
      /\ \A i \in 1 .. Len(s) - 1 : r[i] = IF i < n THEN s[i] ELSE s[i + 1]
  BY Removed DEF CommentSeq
<1>2. \A i \in 1 .. Len(s) : s[i] \in Nat
  BY MembersAssumption DEF CommentSeq, Comment, Damaged
<1> HIDE DEF r
<1>3. UpTo(r, m)
  BY <1>1 DEF UpTo
<1>4. Ascending(r)
  BY <1>1 DEF Ascending
<1>5. ASSUME NEW p \in CommentSeq, NotBefore(p, s)
      PROVE  NotBefore(p, r)
  <2> SUFFICES ASSUME NEW i \in 1 .. Len(p), i <= Len(r)
               PROVE  p[i] <= r[i]
    BY DEF NotBefore
  <2>1. i \in 1 .. Len(s) - 1 /\ p[i] \in Nat /\ p[i] <= s[i]
    BY <1>1, <1>5, MembersAssumption DEF CommentSeq, Comment, Damaged, NotBefore
  <2>2. s[i] < s[i + 1]
    BY <1>1, <2>1 DEF Ascending
  <2>3. s[i] \in Nat /\ s[i + 1] \in Nat /\ (r[i] = s[i] \/ r[i] = s[i + 1])
    BY <1>1, <1>2, <2>1
  <2> QED
    BY <2>1, <2>2, <2>3
<1> QED
  BY <1>3, <1>4, <1>5 DEF r

\* The rest of the state of the comments does not change.
LEMMA CommentsStay ==
  ASSUME CommentsInv, Inv', Chosen', UNCHANGED <<comments, page>>, failed => failed'
  PROVE  CommentsInv'
BY DEF CommentsInv, comments, Ordered

\* The response to a request leaves the others what they chose.
LEMMA RespondChosen ==
  ASSUME CommentsInv, NEW c \in Client, NEW R, Respond(c, R),
         \A d \in Client \ {c} : page'[d] = page[d]
  PROVE  Chosen'
BY DEF CommentsInv, Inv, TypeOK, Chosen, Respond

LEMMA CommentsInit == Init => CommentsInv
<1> SUFFICES ASSUME Init PROVE CommentsInv
  OBVIOUS
<1>1. Inv
  BY InitInv
<1>2. Chosen
  BY DEF Init, Chosen
<1>3. Ascending(<<>>) /\ UpTo(<<>>, 0) /\ NotBefore(<<>>, <<>>)
  BY DEF Ascending, UpTo, NotBefore
<1> QED
  BY <1>1, <1>2, <1>3 DEF Init, CommentsInv, Ordered

\* A save that failed is remembered.
LEMMA FailedStays ==
  ASSUME NEW c \in Client, MakeResponse(c)
  PROVE  failed => failed'
BY DEF MakeResponse, CreateUser, EditUser, DeleteUser, serverResponseSignup, addUser,
       ViewComments, AddComment, DeleteComment, DeleteAll, Nothing, saveUsers,
       saveComments, Saved

\* What the four responses about comments leave of the order.
LEMMA OrderAfter ==
  ASSUME Inv, Ordered, Inv', NEW c \in Client,
         \/ ViewComments(c) \/ AddComment(c) \/ DeleteAll(c)
         \/ DeleteComment(c) /\ rqst[c].del \in 1 .. Len(m_pComments)
  PROVE  Ordered'
<1>1. /\ m_pComments \in CommentSeq /\ posted \in Nat
      /\ page \in [Client -> CommentSeq]
      /\ \A i \in 1 .. Len(m_pComments) : m_pComments[i] \in Nat
  BY MembersAssumption DEF Inv, TypeOK, CommentSeq, Comment, Damaged
<1>2. CASE ViewComments(c)
  <2>1. /\ m_pComments' = m_pComments /\ posted' = posted
        /\ page' = [page EXCEPT ![c] = m_pComments]
    BY <1>2 DEF ViewComments, comments
  <2>2. NotBefore(m_pComments, m_pComments)
    BY <1>1 DEF NotBefore
  <2> QED
    BY <1>1, <2>1, <2>2 DEF Ordered
<1>3. CASE AddComment(c)
  <2>1. posted' = posted + 1 /\ m_pComments' = Append(m_pComments, posted') /\ page' = page
    BY <1>3 DEF AddComment
  <2>2. /\ Len(m_pComments) \in Nat
        /\ Len(m_pComments') = Len(m_pComments) + 1
        /\ m_pComments'[Len(m_pComments) + 1] = posted + 1
        /\ \A i \in 1 .. Len(m_pComments) : m_pComments'[i] = m_pComments[i]
    BY <1>1, <2>1 DEF CommentSeq
  <2>3. \A i \in 1 .. Len(m_pComments') :
          i \in 1 .. Len(m_pComments) \/ i = Len(m_pComments) + 1
    BY <2>2
  <2>4. Ascending(m_pComments') /\ UpTo(m_pComments', posted')
    <3>1. \A i \in 1 .. Len(m_pComments) : m_pComments'[i] \in Nat /\ m_pComments'[i] <= posted
      BY <1>1, <2>2 DEF Ordered, UpTo
    <3>2. UpTo(m_pComments', posted')
      BY <1>1, <2>1, <2>2, <2>3, <3>1 DEF UpTo
    <3>3. ASSUME NEW i \in 1 .. Len(m_pComments'), NEW j \in 1 .. Len(m_pComments'), i < j
          PROVE  m_pComments'[i] < m_pComments'[j]
      <4>1. i \in 1 .. Len(m_pComments)
        BY <2>2, <2>3, <3>3
      <4>2. CASE j \in 1 .. Len(m_pComments)
        BY <2>2, <3>3, <4>1, <4>2 DEF Ordered, Ascending
      <4>3. CASE j = Len(m_pComments) + 1
        BY <1>1, <2>2, <3>1, <4>1, <4>3
      <4> QED
        BY <2>3, <4>2, <4>3
    <3> QED
      BY <3>2, <3>3 DEF Ascending
  <2>5. ASSUME NEW d \in Client
        PROVE  UpTo(page[d], posted') /\ NotBefore(page[d], m_pComments')
    <3>1. \A i \in 1 .. Len(page[d]) : page[d][i] \in Nat /\ page[d][i] <= posted
      BY <1>1, MembersAssumption DEF CommentSeq, Comment, Damaged, Ordered, UpTo
    <3>2. UpTo(page[d], posted')
      BY <1>1, <2>1, <3>1 DEF UpTo
    <3>3. ASSUME NEW i \in 1 .. Len(page[d]), i <= Len(m_pComments')
          PROVE  page[d][i] <= m_pComments'[i]
      <4>1. i \in 1 .. Len(m_pComments')
        BY <1>1, <3>3 DEF CommentSeq
      <4>2. CASE i \in 1 .. Len(m_pComments)
        BY <2>2, <4>2 DEF Ordered, NotBefore
      <4>3. CASE i = Len(m_pComments) + 1
        BY <1>1, <2>2, <3>1, <4>3
      <4> QED
        BY <2>3, <4>1, <4>2, <4>3
    <3> QED
      BY <3>2, <3>3 DEF NotBefore
  <2> QED
    BY <2>1, <2>4, <2>5 DEF Ordered
<1>4. CASE DeleteAll(c)
  <2>1. m_pComments' = <<>> /\ posted' = posted /\ page' = page
    BY <1>4 DEF DeleteAll
  <2>2. /\ Ascending(<<>>) /\ UpTo(<<>>, posted)
        /\ \A d \in Client : NotBefore(page[d], <<>>)
    BY <1>1 DEF Ascending, UpTo, NotBefore, CommentSeq
  <2> QED
    BY <2>1, <2>2 DEF Ordered
<1>5. CASE DeleteComment(c) /\ rqst[c].del \in 1 .. Len(m_pComments)
  <2>1. /\ m_pComments' = RemoveAt(m_pComments, rqst[c].del)
        /\ posted' = posted /\ page' = page
    BY <1>5 DEF DeleteComment, iDel
  <2> QED
    BY <1>1, <1>5, <2>1, RemovedOrder DEF Ordered
<1> QED
  BY <1>2, <1>3, <1>4, <1>5

LEMMA CommentsResponse ==
  ASSUME CommentsInv, Inv', NEW c \in Client, MakeResponse(c)
  PROVE  CommentsInv'
<1>1. CASE \/ \E l \in Login, p \in Pass, access \in Access : CreateUser(c, l, p, access)
           \/ \E l \in Login, p \in Pass \cup {NoPass}, access \in Access :
                 EditUser(c, l, p, access)
           \/ \E l \in Login : DeleteUser(c, l)
           \/ \E l \in Login, p \in Pass : serverResponseSignup(c, l, p)
           \/ Nothing(c)
  <2>1. UNCHANGED <<comments, page>> /\ \E R : Respond(c, R)
    BY <1>1 DEF CreateUser, EditUser, DeleteUser, serverResponseSignup, Nothing
  <2> QED
    BY <2>1, RespondChosen, CommentsStay, FailedStays
<1>2. CASE ViewComments(c) \/ AddComment(c) \/ DeleteComment(c) \/ DeleteAll(c)
  <2>1. \A d \in Client \ {c} : page'[d] = page[d]
    BY <1>2 DEF ViewComments, AddComment, DeleteComment, DeleteAll, CommentsInv, Inv, TypeOK
  <2>2. Chosen'
    BY <1>2, <2>1, RespondChosen DEF ViewComments, AddComment, DeleteComment, DeleteAll
  <2>3. ASSUME DeleteComment(c) PROVE rqst[c].del \in 1 .. Len(m_pComments)
    <3>1. rqst[c] \in Request /\ m_pComments \in CommentSeq
      BY <2>3 DEF DeleteComment, Respond, CommentsInv, Inv, TypeOK, CommentSeq
    <3> QED
      BY <2>3, <3>1 DEF DeleteComment, iDel, Request, CommentSeq
  <2>4. ~failed' => Ordered'
    BY <1>2, <2>3, OrderAfter, FailedStays DEF CommentsInv
  <2> QED
    BY <2>2, <2>4 DEF CommentsInv
<1> QED
  BY <1>1, <1>2 DEF MakeResponse

LEMMA CommentsNext == CommentsInv /\ [Next]_vars => CommentsInv'
<1> SUFFICES ASSUME CommentsInv, [Next]_vars PROVE CommentsInv'
  OBVIOUS
<1>1. Inv'
  BY NextInv DEF CommentsInv
<1>2. ASSUME NEW c \in Client, NEW l, NEW p, NEW n, ProcessHeaders(c, l, p, n)
      PROVE  CommentsInv'
  <2>1. Chosen'
    BY <1>2 DEF ProcessHeaders, CommentsInv, Inv, TypeOK, Chosen
  <2> QED
    BY <1>1, <1>2, <2>1, CommentsStay DEF ProcessHeaders
<1>3. ASSUME NEW c \in Client, MakeResponse(c)
      PROVE  CommentsInv'
  BY <1>1, <1>3, CommentsResponse
<1>4. CASE Loaded
  <2>1. ~failed => m_pComments' = m_pComments
    BY <1>4 DEF Loaded, CommentsInv, Inv, FilesFollow
  <2> QED
    BY <1>1, <1>4, <2>1 DEF Loaded, CommentsInv, Chosen, Ordered
<1>5. CASE UNCHANGED vars
  BY <1>1, <1>5 DEF vars, CommentsInv, Chosen, Ordered
<1> QED
  BY <1>2, <1>3, <1>4, <1>5 DEF Next, Restart, CheckUserCrashes

\* What goes when a list in order loses one of its comments.
LEMMA RemovedRange ==
  ASSUME NEW s \in CommentSeq, NEW n \in 1 .. Len(s), Ascending(s)
  PROVE  Range(RemoveAt(s, n)) = Range(s) \ {s[n]}
<1> DEFINE r == RemoveAt(s, n)
<1>1. /\ Len(s) \in Nat /\ n \in Nat
      /\ Len(r) = Len(s) - 1 /\ r \in CommentSeq
      /\ \A i \in 1 .. Len(s) - 1 : r[i] = IF i < n THEN s[i] ELSE s[i + 1]
      /\ \A i \in 1 .. Len(s) : s[i] \in Nat
  BY Removed, MembersAssumption DEF CommentSeq, Comment, Damaged
<1> HIDE DEF r
<1>2. /\ Range(s) = {s[i] : i \in 1 .. Len(s)}
      /\ Range(r) = {r[i] : i \in 1 .. Len(s) - 1}
  <2>1. DOMAIN s = 1 .. Len(s) /\ DOMAIN r = 1 .. Len(s) - 1
    BY <1>1 DEF CommentSeq
  <2> QED
    BY <2>1 DEF Range
<1>3. ASSUME NEW i \in 1 .. Len(s) - 1
      PROVE  r[i] \in Range(s) \ {s[n]}
  <2>1. PICK k \in 1 .. Len(s) : k # n /\ r[i] = s[k]
    BY <1>1
  <2>2. k < n \/ n < k
    BY <1>1, <2>1
  <2>3. s[k] < s[n] \/ s[n] < s[k]
    BY <2>1, <2>2 DEF Ascending
  <2> QED
    BY <1>1, <1>2, <2>1, <2>3
<1>4. ASSUME NEW k \in 1 .. Len(s), s[k] # s[n]
      PROVE  s[k] \in Range(r)
  <2>1. CASE k < n
    BY <1>1, <1>2, <2>1
  <2>2. CASE k > n
    <3>1. k - 1 \in 1 .. Len(s) - 1 /\ r[k - 1] = s[k]
      BY <1>1, <2>2
    <3> QED
      BY <1>2, <3>1
  <2> QED
    BY <1>1, <1>4, <2>1, <2>2
<1> QED
  BY <1>2, <1>3, <1>4 DEF r

\* Where the first n comments of s are all still on t, the n-th is at its place: none
\* of the n can have moved on, and they do not fit into fewer places.
LEMMA AllThere ==
  ASSUME NEW s \in CommentSeq, NEW t \in CommentSeq, Ascending(s), Ascending(t),
         NotBefore(s, t), NEW n \in 1 .. Len(s), n <= Len(t),
         {s[i] : i \in 1 .. n} \subseteq Range(t)
  PROVE  t[n] = s[n]
<1>1. /\ Len(s) \in Nat /\ Len(t) \in Nat /\ n \in Nat
      /\ DOMAIN t = 1 .. Len(t)
      /\ \A i \in 1 .. Len(s) : s[i] \in Nat
      /\ \A i \in 1 .. Len(t) : t[i] \in Nat
  BY MembersAssumption DEF CommentSeq, Comment, Damaged
<1> DEFINE f == [i \in 1 .. n |-> CHOOSE j \in 1 .. Len(t) : t[j] = s[i]]
<1>2. ASSUME NEW i \in 1 .. n
      PROVE  f[i] \in 1 .. Len(t) /\ t[f[i]] = s[i]
  <2>1. \E j \in 1 .. Len(t) : t[j] = s[i]
    BY <1>1 DEF Range
  <2> QED
    BY <2>1
<1> HIDE DEF f
<1>3. SUFFICES ASSUME t[n] # s[n] PROVE FALSE
  OBVIOUS
\* The n-th was at an earlier place already, so all of them are.
<1>4. ASSUME NEW i \in 1 .. n
      PROVE  f[i] \in 1 .. n - 1
  <2>1. s[i] <= s[n]
    BY <1>1 DEF Ascending
  <2>2. s[n] < t[n]
    BY <1>1, <1>3 DEF NotBefore
  <2>3. ~ (n <= f[i])
    <3>1. SUFFICES ASSUME n <= f[i] PROVE FALSE
      OBVIOUS
    <3>2. f[i] \in 1 .. Len(t) /\ n \in 1 .. Len(t)
      BY <1>1, <1>2
    <3>3. n = f[i] \/ t[n] < t[f[i]]
      BY <1>1, <3>1, <3>2 DEF Ascending
    <3>4. t[n] <= t[f[i]] /\ t[f[i]] = s[i]
      BY <1>1, <1>2, <3>2, <3>3
    <3> QED
      <4>1. t[n] \in Nat /\ s[i] \in Nat /\ s[n] \in Nat
        BY <1>1, <3>2
      <4> QED
        BY <2>1, <2>2, <3>4, <4>1
  <2> QED
    BY <1>1, <1>2, <2>3
<1>5. \A i, j \in 1 .. n : i # j => f[i] # f[j]
  <2>1. \A i, j \in 1 .. n : i < j => f[i] # f[j]
    BY <1>1, <1>2 DEF Ascending
  <2> QED
    BY <1>1, <2>1
<1>6. \E i, j \in 1 .. n : i # j /\ f[i] = f[j]
  <2>1. /\ IsFiniteSet(1 .. n) /\ Cardinality(1 .. n) = n
        /\ IsFiniteSet(1 .. n - 1) /\ Cardinality(1 .. n - 1) = n - 1
    <3>1. /\ IsFiniteSet(1 .. n) /\ Cardinality(1 .. n) = IF 1 > n THEN 0 ELSE n - 1 + 1
          /\ IsFiniteSet(1 .. n - 1)
          /\ Cardinality(1 .. n - 1) = IF 1 > n - 1 THEN 0 ELSE n - 1 - 1 + 1
      <4>1. 1 \in Int /\ n \in Int /\ n - 1 \in Int
        BY <1>1
      <4> QED
        BY <4>1, FS_Interval
    <3>2. n >= 1
      OBVIOUS
    <3> QED
      BY <1>1, <3>1, <3>2
  <2>2. f \in [1 .. n -> 1 .. n - 1]
    BY <1>4 DEF f
  <2> HIDE DEF f
  <2>3. Cardinality(1 .. n - 1) < Cardinality(1 .. n)
    BY <1>1, <2>1
  <2> QED
    BY <2>1, <2>2, <2>3, FS_PigeonHole
<1> QED
  BY <1>5, <1>6

ChosenGoes ==
  \A c \in Client :
    DeleteComment(c) /\ ~failed =>
      LET chosen == page[c][rqst[c].del]
          pageTo == {page[c][i] : i \in 1 .. rqst[c].del}
      IN  \E x \in Range(m_pComments) :
            /\ Range(m_pComments') = Range(m_pComments) \ {x}
            /\ x >= chosen
            /\ pageTo \subseteq Range(m_pComments) => x = chosen

LEMMA ChosenGoesNext == CommentsInv => ChosenGoes
<1> SUFFICES ASSUME CommentsInv, NEW c \in Client, DeleteComment(c), ~failed
             PROVE  LET chosen == page[c][rqst[c].del]
                        pageTo == {page[c][i] : i \in 1 .. rqst[c].del}
                    IN  \E x \in Range(m_pComments) :
                          /\ Range(m_pComments') = Range(m_pComments) \ {x}
                          /\ x >= chosen
                          /\ pageTo \subseteq Range(m_pComments) => x = chosen
  BY DEF ChosenGoes
<1> DEFINE n == rqst[c].del
<1>1. m_pComments \in CommentSeq /\ page[c] \in CommentSeq
  BY DEF CommentsInv, Inv, TypeOK, CommentSeq
<1>2. /\ n \in 1 .. Len(page[c]) /\ n \in 1 .. Len(m_pComments)
      /\ m_pComments' = RemoveAt(m_pComments, n)
  BY <1>1 DEF DeleteComment, Respond, iDel, CommentsInv, Chosen, CommentSeq
<1>3. /\ Ascending(m_pComments) /\ Ascending(page[c])
      /\ NotBefore(page[c], m_pComments)
  BY DEF CommentsInv, Ordered
<1> HIDE DEF n
<1>4. Range(m_pComments') = Range(m_pComments) \ {m_pComments[n]}
  BY <1>1, <1>2, <1>3, RemovedRange
<1>5. m_pComments[n] \in Range(m_pComments)
  <2>1. DOMAIN m_pComments = 1 .. Len(m_pComments)
    BY <1>1 DEF CommentSeq
  <2> QED
    BY <1>2, <2>1 DEF Range
<1>6. n <= Len(m_pComments) /\ m_pComments[n] >= page[c][n]
  <2>1. Len(m_pComments) \in Nat /\ m_pComments[n] \in Nat /\ page[c][n] \in Nat
    BY <1>1, <1>2, MembersAssumption DEF CommentSeq, Comment, Damaged
  <2> QED
    BY <1>2, <1>3, <2>1 DEF NotBefore
<1>7. {page[c][i] : i \in 1 .. n} \subseteq Range(m_pComments) =>
        m_pComments[n] = page[c][n]
  BY <1>1, <1>2, <1>3, <1>6, AllThere
<1> QED
  BY <1>4, <1>5, <1>6, <1>7 DEF n

\* A moderator's deletion takes one comment, the one he chose where nothing of his page
\* up to it went, and never an older one, whatever the others posted, deleted and
\* cleaned up since the page was made and however often the tracker was restarted.
THEOREM ChosenGoesAlways == Spec => ChosenCommentGoes
<1>1. [ChosenGoes]_vars =>
        [\A c \in Client :
           DeleteComment(c) /\ ~failed =>
             LET chosen == page[c][rqst[c].del]
                 pageTo == {page[c][i] : i \in 1 .. rqst[c].del}
             IN  \E x \in Range(m_pComments) :
                   /\ Range(m_pComments') = Range(m_pComments) \ {x}
                   /\ x >= chosen
                   /\ pageTo \subseteq Range(m_pComments) => x = chosen]_vars
  BY DEF ChosenGoes
<1> QED
  BY <1>1, CommentsInit, CommentsNext, ChosenGoesNext, PTL DEF Spec, ChosenCommentGoes

=============================================================================
