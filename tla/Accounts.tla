------------------------------ MODULE Accounts ------------------------------
(***************************************************************************)
(* Signing in: magic links (auth.go), Google (oauth.go), the handle a      *)
(* first sign-in is given, and renaming it (settings.go).                  *)
(*                                                                         *)
(* Every SQL statement is a step.  A transaction reads what is committed   *)
(* when the statement runs (READ COMMITTED); its row lock on a link lasts  *)
(* until it ends.  An INSERT of a user is the last statement before the    *)
(* COMMIT and the unique indexes decide then, so both are one step.        *)
(***************************************************************************)
EXTENDS Integers, Sequences

CONSTANTS
    Addresses,      \* e-mail addresses without their casing
    Base,           \* handleFromEmail of each address
    LegacyUsers,    \* the users tables a deployment may start from
    Links,          \* magic links that can be issued
    SignIns,        \* requests the server handles at a time
    MaxCollisions,  \* cfg.MaxCollisions
    MaxUsers,       \* bound on the rows of users
    Nobody          \* no user, no request, no link

\* An address as typed: the magic-link form lowercases it, Google's answer and
\* rows older than the form do not.
Emails == Addresses \X {"lower", "mixed"}
Lower(email) == <<email[1], "lower">>

\* uniqueHandle counts from 2 and leaves its last candidate untried.
HandleSuffixes == 1 .. MaxCollisions - 1
Handles == {Base[a] : a \in Addresses} \X HandleSuffixes

User == [email : Emails, handle : Handles]
ASSUME AccountsAssumption ==
    /\ MaxCollisions \in Nat \ {0, 1} /\ MaxUsers \in Nat
    /\ \A table \in LegacyUsers : table \in Seq(User) /\ Len(table) <= MaxUsers

VARIABLES
    users,      \* rows of users, oldest first
    links,      \* auth_tokens
    signIns,    \* per request what its handler holds between two statements
    sessions,   \* who was signed in with which address (history)
    linkLocks   \* links whose row an open transaction has updated

accountsVars == <<users, links, signIns, sessions, linkLocks>>

Link == [email : Emails, used : BOOLEAN]
ASSUME NobodyAssumption == Nobody \notin Link

SignIn ==
    [step : {"mark", "find", "probe", "insert", "commit", "cookie", "rename"},
     link : Links \cup {Nobody}, email : Emails,
     user : Nat,                   \* position in users, 0 for none yet
     suffix : HandleSuffixes]            \* the handle candidate

Session == [address : Addresses, user : Nat]

AccountsTypeOK ==
    /\ users \in Seq(User) /\ Len(users) <= MaxUsers
    /\ links \in [Links -> Link \cup {Nobody}]
    /\ signIns \in [SignIns -> SignIn \cup {Nobody}]
    /\ \A s \in sessions : s \in Session /\ s.user \in 1 .. Len(users)
    /\ linkLocks \subseteq Links

AccountsInit ==
    /\ users \in LegacyUsers
    /\ links = [l \in Links |-> Nobody]
    /\ signIns = [e \in SignIns |-> Nobody]
    /\ sessions = {}
    /\ linkLocks = {}

----------------------------------------------------------------------------
(* Links *)

IssueToken(l, a) ==
    /\ links[l] = Nobody
    /\ links' = [links EXCEPT ![l] = [email |-> <<a, "lower">>, used |-> FALSE]]
    /\ UNCHANGED <<users, signIns, sessions, linkLocks>>

\* ConsumeToken reads the link without locking it.  A link that expired is
\* refused like one that was used.
ConsumeToken(e, l) ==
    /\ signIns[e] = Nobody
    /\ links[l] # Nobody
    /\ ~links[l].used
    /\ signIns' = [signIns EXCEPT ![e] =
                      [step |-> "mark", link |-> l, email |-> links[l].email,
                       user |-> 0, suffix |-> 1]]
    /\ UNCHANGED <<users, links, sessions, linkLocks>>

Goto(e, step) == signIns' = [signIns EXCEPT ![e].step = step]

\* Its UPDATE waits for another transaction that updated the row, and does
\* not look at used_at again.
MarkUsed(e) ==
    /\ signIns[e] # Nobody /\ signIns[e].step = "mark"
    /\ signIns[e].link \notin linkLocks
    /\ linkLocks' = linkLocks \cup {signIns[e].link}
    /\ Goto(e, "find")
    /\ UNCHANGED <<users, links, sessions>>

\* HandleGoogleCallback after Google vouched for the address, in any casing.
GoogleCallback(e, email) ==
    /\ signIns[e] = Nobody
    /\ signIns' = [signIns EXCEPT ![e] =
                      [step |-> "find", link |-> Nobody, email |-> email,
                       user |-> 0, suffix |-> 1]]
    /\ UNCHANGED <<users, links, sessions, linkLocks>>

----------------------------------------------------------------------------
(* findOrCreateUser *)

SameEmail(email) == {i \in 1 .. Len(users) : Lower(users[i].email) = Lower(email)}

Oldest(S) == CHOOSE i \in S : \A j \in S : i <= j

FindUser(e) ==
    /\ signIns[e] # Nobody /\ signIns[e].step = "find"
    /\ LET found == SameEmail(signIns[e].email) IN
       signIns' = [signIns EXCEPT ![e].step = IF found = {} THEN "probe" ELSE "commit",
                                  ![e].user = IF found = {} THEN 0 ELSE Oldest(found)]
    /\ UNCHANGED <<users, links, sessions, linkLocks>>

Candidate(e) == <<Base[signIns[e].email[1]], signIns[e].suffix>>
HandleTaken(handle) == \E i \in 1 .. Len(users) : users[i].handle = handle

\* One round of uniqueHandle.
ProbeHandle(e) ==
    /\ signIns[e] # Nobody /\ signIns[e].step = "probe"
    /\ signIns[e].suffix <= MaxCollisions - 2
    /\ IF HandleTaken(Candidate(e))
       THEN signIns' = [signIns EXCEPT ![e].suffix = @ + 1]
       ELSE Goto(e, "insert")
    /\ UNCHANGED <<users, links, sessions, linkLocks>>

\* COMMIT.  Its answer arrives, or it is lost and the handler shows an error
\* though the link is spent and the account made.
Committed(e, user) ==
    /\ links' = IF signIns[e].link = Nobody THEN links
                ELSE [links EXCEPT ![signIns[e].link].used = TRUE]
    /\ linkLocks' = linkLocks \ {signIns[e].link}
    /\ \/ signIns' = [signIns EXCEPT ![e].step = "cookie", ![e].user = user]
       \/ signIns' = [signIns EXCEPT ![e] = Nobody]
    /\ UNCHANGED sessions

\* Mutant of StoredEmail: the address is stored as Google spells it.
StoredAsGiven(email) == email

StoredEmail(email) == Lower(email)

\* UNIQUE(email) and UNIQUE(handle_ci).
Insertable(email, handle) ==
    ~HandleTaken(handle) /\ \A i \in 1 .. Len(users) : users[i].email # email

InsertUser(e) ==
    /\ signIns[e] # Nobody /\ signIns[e].step = "insert"
    /\ Len(users) < MaxUsers
    /\ Insertable(StoredEmail(signIns[e].email), Candidate(e))
    /\ users' = Append(users, [email |-> StoredEmail(signIns[e].email), handle |-> Candidate(e)])
    /\ Committed(e, Len(users) + 1)

\* Nothing to insert: the user was there.
CommitSignIn(e) ==
    /\ signIns[e] # Nobody /\ signIns[e].step = "commit"
    /\ Committed(e, signIns[e].user)
    /\ UNCHANGED users

\* The handler sets the session cookie, and the browser gets it.
SetSession(e) ==
    /\ signIns[e] # Nobody /\ signIns[e].step = "cookie"
    /\ sessions' = sessions \cup {[address |-> signIns[e].email[1], user |-> signIns[e].user]}
    /\ signIns' = [signIns EXCEPT ![e] = Nobody]
    /\ UNCHANGED <<users, links, linkLocks>>

\* Mutant of Abandoned: used_at is set in a transaction of its own.
AbandonedSpent(l) == [links EXCEPT ![l].used = TRUE]

\* What a rollback leaves of the link.
Abandoned(l) == links

\* Its transaction has updated its link.
HasMarked(e) == signIns[e].link \in linkLocks /\ signIns[e].step \notin {"mark", "cookie"}

\* An error, a unique index or a client that hung up, before any of the steps: the
\* transaction is rolled back, or it is committed and nobody is signed in.
Abandon(e) ==
    /\ signIns[e] # Nobody
    /\ links' = IF HasMarked(e) THEN Abandoned(signIns[e].link) ELSE links
    /\ signIns' = [signIns EXCEPT ![e] = Nobody]
    /\ linkLocks' = IF HasMarked(e) THEN linkLocks \ {signIns[e].link} ELSE linkLocks
    /\ UNCHANGED <<users, sessions>>

----------------------------------------------------------------------------
(* Renaming, by a user who is signed in *)

\* PostHandleSetting looks whether the handle is free, then updates.
RenameCheck(e, i, handle) ==
    /\ signIns[e] = Nobody
    /\ \E s \in sessions : s.user = i
    /\ handle # users[i].handle
    /\ \A j \in 1 .. Len(users) \ {i} : users[j].handle # handle
    /\ signIns' = [signIns EXCEPT ![e] =
                      [step |-> "rename", link |-> Nobody, email |-> users[i].email,
                       user |-> i, suffix |-> handle[2]]]
    /\ UNCHANGED <<users, links, sessions, linkLocks>>

Rename(e) ==
    /\ signIns[e] # Nobody /\ signIns[e].step = "rename"
    /\ \A j \in 1 .. Len(users) \ {signIns[e].user} : users[j].handle # Candidate(e)
    /\ users' = [users EXCEPT ![signIns[e].user].handle = Candidate(e)]
    /\ signIns' = [signIns EXCEPT ![e] = Nobody]
    /\ UNCHANGED <<links, sessions, linkLocks>>

----------------------------------------------------------------------------
AccountsNext ==
    \/ \E l \in Links, a \in Addresses : IssueToken(l, a)
    \/ \E e \in SignIns, l \in Links : ConsumeToken(e, l)
    \/ \E e \in SignIns, email \in Emails : GoogleCallback(e, email)
    \/ \E e \in SignIns :
          \/ MarkUsed(e) \/ FindUser(e) \/ ProbeHandle(e) \/ InsertUser(e)
          \/ CommitSignIn(e) \/ SetSession(e) \/ Abandon(e) \/ Rename(e)
    \/ \E e \in SignIns, i \in 1 .. Len(users), s \in HandleSuffixes :
          RenameCheck(e, i, <<users[i].handle[1], s>>)

AccountsSpec == AccountsInit /\ [][AccountsNext]_accountsVars

----------------------------------------------------------------------------
(* What must hold *)

\* An address always opens the same account (oauth.go: "Same email = same
\* account"), in whatever casing Google sends it, when two first sign-ins race,
\* and among old rows that differ in casing alone.
SameEmailSameAccount ==
    \A s, t \in sessions : s.address = t.address => s.user = t.user

\* A link that is spent has its account, though the request that spent it need not
\* have signed anybody in: who finds it used asks for another and comes in there.
\* A first sign-in that loses the race for its address or its handle, or is cut off
\* before the COMMIT, leaves the link valid for the retry.
SpentLinkHasAccount ==
    \A l \in Links : links[l] # Nobody /\ links[l].used => SameEmail(links[l].email) # {}
=============================================================================
