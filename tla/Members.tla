------------------------------ MODULE Members ------------------------------
(***************************************************************************)
(* The people who use the tracker's pages: their accounts (m_pUsers), the  *)
(* rights a request has, and the comments on a torrent, which moderators   *)
(* delete by their number on the page.                                     *)
(*                                                                         *)
(* A request's rights are read when its headers are processed and used     *)
(* when its response is made, a round of the server later for a GET: every *)
(* other connection may get its response in between.  Users and comments   *)
(* are saved in place at every change.                                     *)
(***************************************************************************)
EXTENDS Dicti, Naturals, Sequences, SequencesExt

CONSTANTS
  Client,          \* connections
  Login,           \* user names, numbered in the order of their keys
  NoLogin,         \* a request without a login
  Pass, NoPass,    \* passwords (with the login, the md5); none
  Access,          \* the access an admin may give: sets of rights
  m_iGuestAccess, m_iMemberAccess,
  NoRequest,
  MaxComments      \* bound on the comments ever posted

Right == {"VIEW", "COMMENTS", "EDIT", "ADMIN", "SIGNUP"}

ASSUME MembersAssumption ==
  /\ Login \subseteq Nat /\ NoLogin \notin Login /\ NoPass \notin Pass
  /\ Access \subseteq SUBSET Right
  /\ m_iGuestAccess \subseteq Right /\ m_iMemberAccess \subseteq Right
  /\ MaxComments \in Nat

VARIABLES
  m_pUsers,      \* [pass, access, created] by login
  m_pComments,   \* of one torrent, by the order they were posted in
  usersFile, commentsFile,
  posted,        \* the comments ever posted
  rqst,          \* per client, a request whose headers have been processed
  page,          \* per client, the comments on the page it has
  failed         \* history: a save failed

vars == <<m_pUsers, m_pComments, usersFile, commentsFile, posted, rqst, page, failed>>
users == <<m_pUsers, usersFile>>
comments == <<m_pComments, commentsFile, posted>>

\* A comment is known by its number among those posted; 0 is one cut short.
Damaged == 0
Comment == 1 .. MaxComments

User == [pass : Pass \cup {NoPass}, access : SUBSET Right, created : BOOLEAN]
Request == [access : SUBSET Right, del : Nat]

----------------------------------------------------------------------------
\* Saving: the file is truncated, then written.

\* What is read back of a file of users cut short: nothing, or the users before
\* the cut and the one it is in, without a password or even a date.
CutUsers(u) ==
  {EmptyDicti} \cup
  UNION {{keepItems(u, {k \in Login : k < l}),
          setItem(keepItems(u, {k \in Login : k < l}), l,
                  [pass |-> NoPass, access |-> u[l].access, created |-> FALSE])}
         : l \in DOMAIN u}

\* And of a file of comments.
CutComments(s) ==
  {<<>>} \cup UNION {{SubSeq(s, 1, n), Append(SubSeq(s, 1, n), Damaged)}
                     : n \in 0 .. Len(s)}

\* One save at most fails, by not opening the file or by being cut.
Saved(file, content, cut) ==
  \/ file' = content /\ UNCHANGED failed
  \/ ~failed /\ failed' = TRUE /\ (UNCHANGED file \/ file' \in cut)

saveUsers == Saved(usersFile, m_pUsers', CutUsers(m_pUsers'))

\* Mutant: saved before the change.
saveCommentsEarly == Saved(commentsFile, m_pComments, CutComments(m_pComments))
saveComments == Saved(commentsFile, m_pComments', CutComments(m_pComments'))

----------------------------------------------------------------------------
\* Headers

\* Full access when there are no users.
checkUser(l, p) ==
  IF l \in DOMAIN m_pUsers /\ m_pUsers[l].pass = p THEN m_pUsers[l].access
  ELSE IF m_pUsers = EmptyDicti THEN Right ELSE m_iGuestAccess

\* checkUser reads the date of any user whose password fits.
Undated(l, p) ==
  l \in DOMAIN m_pUsers /\ m_pUsers[l].pass = p /\ ~m_pUsers[l].created

\* A request arrives from client c; n is the number of a comment on its page
\* whose link it follows, or 0.
ProcessHeaders(c, l, p, n) ==
  /\ rqst[c] = NoRequest
  /\ ~Undated(l, p)
  /\ n \in 0 .. Len(page[c])
  /\ rqst' = [rqst EXCEPT ![c] = [access |-> checkUser(l, p), del |-> n]]
  /\ UNCHANGED <<users, comments, page, failed>>

----------------------------------------------------------------------------
\* Responses

\* The response to c's request, which needs the rights R, is made.
Respond(c, R) ==
  /\ rqst[c] # NoRequest
  /\ R \subseteq rqst[c].access
  /\ rqst' = [rqst EXCEPT ![c] = NoRequest]

\* Mutant: the user's name is free.
CanAddOver(l) == TRUE

CanAdd(l) == l \notin DOMAIN m_pUsers

\* Mutant: the date is not set.
addUserUndated(l, p, access) ==
  /\ m_pUsers' = setItem(m_pUsers, l, [pass |-> p, access |-> access])
  /\ saveUsers

addUser(l, p, access) ==
  /\ m_pUsers' = setItem(m_pUsers, l, [pass |-> p, access |-> access, created |-> TRUE])
  /\ saveUsers

\* Mutant: as on the pages that show something.
UsersPageNeedsView == {"VIEW"}

UsersPageNeeds == {"ADMIN"}

\* users.html with us_login, by an admin.
CreateUser(c, l, p, access) ==
  /\ Respond(c, UsersPageNeeds)
  /\ CanAdd(l)
  /\ addUser(l, p, access)
  /\ UNCHANGED <<comments, page>>

\* users.html?action=edit by an admin: the password when one is given, the
\* access and the mail in any case.  Passwords that differ change nothing.
EditUser(c, l, p, access) ==
  /\ Respond(c, UsersPageNeeds)
  /\ l \in DOMAIN m_pUsers
  /\ m_pUsers' = [m_pUsers EXCEPT
       ![l].pass = IF p = NoPass THEN @ ELSE p,
       ![l].access = access]
  /\ saveUsers
  /\ UNCHANGED <<comments, page>>

\* users.html?action=delete by an admin, of himself or of anybody.
DeleteUser(c, l) ==
  /\ Respond(c, UsersPageNeeds)
  /\ m_pUsers' = delItem(m_pUsers, l)
  /\ saveUsers
  /\ UNCHANGED <<comments, page>>

\* signup.html with us_login.
serverResponseSignup(c, l, p) ==
  /\ Respond(c, {"SIGNUP"})
  /\ CanAdd(l)
  /\ addUser(l, p, m_iMemberAccess)
  /\ UNCHANGED <<comments, page>>

\* Not a deletion: no number, not by a moderator, or of a torrent without comments.
NoDeletion(c) == rqst[c].del = 0 \/ "EDIT" \notin rqst[c].access \/ m_pComments = <<>>

\* comments.html shows the comments there are.
ViewComments(c) ==
  /\ Respond(c, {"VIEW"})
  /\ NoDeletion(c)
  /\ page' = [page EXCEPT ![c] = m_pComments]
  /\ UNCHANGED <<users, comments, failed>>

AddComment(c) ==
  /\ Respond(c, {"VIEW", "COMMENTS"})
  /\ NoDeletion(c)
  /\ posted < MaxComments
  /\ posted' = posted + 1
  /\ m_pComments' = Append(m_pComments, posted')
  /\ saveComments
  /\ UNCHANGED <<users, page>>

\* Mutant: the number is taken for the index.
iDelIsNumber(n) == n + 1

\* atoi( strDel ) - 1, as a position from 1.
iDel(n) == n

\* comments.html?del=n by a moderator; numbers past the end change nothing.
DeleteComment(c) ==
  /\ Respond(c, {"VIEW", "EDIT"})
  /\ rqst[c].del > 0
  /\ iDel(rqst[c].del) <= Len(m_pComments)
  /\ m_pComments' = RemoveAt(m_pComments, iDel(rqst[c].del))
  /\ saveComments
  /\ UNCHANGED <<users, posted, page>>

\* comments.html?delall=1 by a moderator, whatever number is beside it.
DeleteAll(c) ==
  /\ Respond(c, {"VIEW", "EDIT"})
  /\ m_pComments' = <<>>
  /\ saveComments
  /\ UNCHANGED <<users, posted, page>>

\* Every other request, and the refusals, change nothing.
Nothing(c) == Respond(c, {}) /\ UNCHANGED <<users, comments, page, failed>>

----------------------------------------------------------------------------
NoUsers == EmptyDicti

Loaded ==
  /\ m_pUsers' = usersFile
  /\ m_pComments' = commentsFile
  /\ rqst' = [c \in Client |-> NoRequest]
  /\ UNCHANGED <<usersFile, commentsFile, posted, page, failed>>

\* The process is ended and started again at any moment.
Restart == Loaded

\* A user without a date logs in: checkUser dereferences NULL.
CheckUserCrashes(l, p) == Undated(l, p) /\ Loaded

Init ==
  /\ m_pUsers = NoUsers /\ usersFile = NoUsers
  /\ m_pComments = <<>> /\ commentsFile = <<>> /\ posted = 0
  /\ rqst = [c \in Client |-> NoRequest]
  /\ page = [c \in Client |-> <<>>]
  /\ failed = FALSE

MakeResponse(c) ==
  \/ \E l \in Login, p \in Pass, access \in Access : CreateUser(c, l, p, access)
  \/ \E l \in Login, p \in Pass \cup {NoPass}, access \in Access :
        EditUser(c, l, p, access)
  \/ \E l \in Login : DeleteUser(c, l)
  \/ \E l \in Login, p \in Pass : serverResponseSignup(c, l, p)
  \/ ViewComments(c)
  \/ AddComment(c)
  \/ DeleteComment(c)
  \/ DeleteAll(c)
  \/ Nothing(c)

Next ==
  \/ \E c \in Client, l \in Login \cup {NoLogin}, p \in Pass, n \in 0 .. MaxComments + 1 :
        ProcessHeaders(c, l, p, n)
  \/ \E c \in Client : MakeResponse(c)
  \/ Restart
  \/ \E l \in Login, p \in Pass : CheckUserCrashes(l, p)

Spec == Init /\ [][Next]_vars

----------------------------------------------------------------------------
\* Properties

\* The users, the comments, their files, requests and pages keep their types.
TypeOK ==
  /\ IsDicti(m_pUsers, Login, User)
  /\ IsDicti(usersFile, Login, User)
  /\ m_pComments \in Seq(Comment \cup {Damaged})
  /\ commentsFile \in Seq(Comment \cup {Damaged})
  /\ posted \in 0 .. MaxComments
  /\ rqst \in [Client -> Request \cup {NoRequest}]
  /\ page \in [Client -> Seq(Comment \cup {Damaged})]
  /\ failed \in BOOLEAN

IsAdmin(access) == "ADMIN" \in access

\* Nobody can administrate the tracker: there are users, none of them, no guest
\* and no request on its way is an admin.
Locked ==
  /\ m_pUsers # NoUsers
  /\ ~IsAdmin(m_iGuestAccess) /\ ~IsAdmin(m_iMemberAccess)
  /\ \A l \in DOMAIN m_pUsers : ~IsAdmin(m_pUsers[l].access)
  /\ \A c \in Client : rqst[c] # NoRequest => ~IsAdmin(rqst[c].access)

\* "If there are no admin users, you won't be able to administrate your tracker"
\* (the users page): by no order of sign-ups, logins, comments and restarts does
\* anybody become one, unless the file of users was cut.
NoneBecomesAdmin == [][Locked /\ ~failed => Locked']_vars

\* Whoever signs up first under a name keeps it: the password of a user is changed
\* by an admin's request or, after a save that failed, by a restart only.
PasswordsKept ==
  [][\A l \in DOMAIN m_pUsers \cap DOMAIN m_pUsers' :
       m_pUsers'[l].pass # m_pUsers[l].pass /\ ~failed =>
         \E c \in Client : /\ rqst[c] # NoRequest /\ rqst'[c] = NoRequest
                           /\ IsAdmin(rqst[c].access)]_vars

\* What pages have reported as done survives a restart: the files hold the users
\* and the comments, whole, until a save fails.
FilesFollow ==
  ~failed => /\ usersFile = m_pUsers
             /\ commentsFile = m_pComments
             /\ \A l \in DOMAIN m_pUsers : m_pUsers[l].created

\* Comments are deleted by their place on a page that may be old: others may have
\* posted, deleted and cleaned up since.  One comment goes, never one older than the
\* one chosen, and the chosen one itself where those of the page up to it are all
\* still there; where one of them went meanwhile it may be a newer one, even one the
\* page never showed.  (Until a save fails: a restart then brings comments back.)
ChosenCommentGoes ==
  [][\A c \in Client :
       DeleteComment(c) /\ ~failed =>
         LET chosen == page[c][rqst[c].del]
             pageTo == {page[c][i] : i \in 1 .. rqst[c].del}
         IN  \E x \in Range(m_pComments) :
               /\ Range(m_pComments') = Range(m_pComments) \ {x}
               /\ x >= chosen
               /\ pageTo \subseteq Range(m_pComments) => x = chosen]_vars
=============================================================================
