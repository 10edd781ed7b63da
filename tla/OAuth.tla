------------------------------- MODULE OAuth --------------------------------
(***************************************************************************)
(* crates/auth/src/oauth/service.rs over storage's oauth_repo.rs, for one  *)
(* provider.  finish_login consumes the state, asks the provider who is    *)
(* there, finds or makes the user and stores the link, each in a statement *)
(* of its own, beside other logins and beside registrations with a         *)
(* password, which delete their user again when they fail (Accounts has    *)
(* them in full).                                                          *)
(***************************************************************************)
EXTENDS Handlers

CONSTANTS
    Identities,     \* accounts of the provider (provider_user_id)
    Emails,         \* an account may change its address at the provider
    States          \* login states handed out

ASSUME OAuthAssumption ==
    None \notin Identities /\ None \notin Emails /\ None \notin States

VARIABLES
    loginState,     \* loginState[s]: unused, issued, or consumed
    account,        \* account[u], the email of u's row, or None; ids are never reused
    signup,         \* signup[u]: the call of register that made u is open, or undid it
    verified,       \* the users whose email is marked verified
    link,           \* link[i], the user_id of i's oauth_accounts row, or None
    linkEmail,      \* linkEmail[i], the address i had when it was linked (history)
    login           \* login[p], the finish_login of each handler

oauthVars == <<loginState, account, signup, verified, link, linkEmail, login>>

\* known (history): the owner of the identity when the provider answered,
\* None again when that user is undone.
Login == [pc : {"idle", "exchange", "find", "email", "insert", "reread", "verify",
                "upsert", "done"},
          state : States \cup {None}, identity : Identities \cup {None},
          email : Emails \cup {None}, user : Users \cup {None}, known : Users \cup {None}]
NoLogin == [pc |-> "idle", state |-> None, identity |-> None, email |-> None,
            user |-> None, known |-> None]

OAuthTypeOK ==
    /\ loginState \in [States -> {"unused", "issued", "consumed"}]
    /\ account \in [Users -> Emails \cup {None}]
    /\ signup \in [Users -> {"none", "open", "undone"}]
    /\ verified \subseteq Users
    /\ link \in [Identities -> Users \cup {None}]
    /\ linkEmail \in [Identities -> Emails \cup {None}]
    /\ login \in [Procs -> Login]

OAuthInit ==
    /\ loginState = [s \in States |-> "unused"]
    /\ account = [u \in Users |-> None]
    /\ signup = [u \in Users |-> "none"]
    /\ verified = {}
    /\ link = [i \in Identities |-> None]
    /\ linkEmail = [i \in Identities |-> None]
    /\ login = [p \in Procs |-> NoLogin]

-----------------------------------------------------------------------------
\* Users whose row is not there any more.
Undone == {u \in Users : signup[u] = "undone"}

Owners(email) == {u \in Users \ Undone : account[u] = email}

StartLogin(s) ==
    /\ loginState[s] = "unused"
    /\ loginState' = [loginState EXCEPT ![s] = "issued"]
    /\ UNCHANGED <<account, signup, verified, link, linkEmail, login>>

\* DELETE .. RETURNING: of two callbacks with one state the second finds no
\* row, as does one with another redirect or after expires_at.
Consume(p, s) ==
    /\ login[p].pc \in {"idle", "done"}
    /\ loginState[s] = "issued"
    /\ loginState' = [loginState EXCEPT ![s] = "consumed"]
    /\ login' = [login EXCEPT ![p] = [NoLogin EXCEPT !.pc = "exchange", !.state = s]]
    /\ UNCHANGED <<account, signup, verified, link, linkEmail>>

\* The provider vouches for the identity and for the address it has now.
Exchange(p, i, email) ==
    /\ login[p].pc = "exchange"
    /\ login' = [login EXCEPT ![p] = [@ EXCEPT !.pc = "find", !.identity = i,
                                               !.email = email, !.known = link[i]]]
    /\ UNCHANGED <<loginState, account, signup, verified, link, linkEmail>>

\* find_user_id_by_provider_identity, then lookup_user_or_internal: if the
\* user is still there, so is the link, and if not, the login fails.
FindLink(p) ==
    LET i == login[p].identity
    IN  /\ login[p].pc = "find"
        /\ \/ /\ link[i] # None
              /\ login' = [login EXCEPT ![p] = [@ EXCEPT !.pc = "upsert", !.user = link[i]]]
           \/ /\ link[i] = None
              /\ login' = [login EXCEPT ![p] = [@ EXCEPT !.pc = "email"]]
        /\ UNCHANGED <<loginState, account, signup, verified, link, linkEmail>>

\* find_user_by_email: the first read of link_or_create_user, and the one
\* after an INSERT that hit the UNIQUE constraint.
FindEmail(p) ==
    LET owners == Owners(login[p].email)
    IN  /\ login[p].pc \in {"email", "reread"}
        /\ \/ \E u \in owners :
                login' = [login EXCEPT ![p] = [@ EXCEPT !.pc = "verify", !.user = u]]
           \/ /\ owners = {} /\ login[p].pc = "email"
              /\ login' = [login EXCEPT ![p] = [@ EXCEPT !.pc = "insert"]]
        /\ UNCHANGED <<loginState, account, signup, verified, link, linkEmail>>

InsertUser(p, u) ==
    /\ login[p].pc = "insert"
    /\ \/ /\ Owners(login[p].email) = {}
          /\ account[u] = None
          /\ account' = [account EXCEPT ![u] = login[p].email]
          /\ login' = [login EXCEPT ![p] = [@ EXCEPT !.pc = "verify", !.user = u]]
       \/ /\ Owners(login[p].email) # {}
          /\ login' = [login EXCEPT ![p] = [@ EXCEPT !.pc = "reread"]]
          /\ UNCHANGED account
    /\ UNCHANGED <<loginState, signup, verified, link, linkEmail>>

\* mark_email_verified and the re-read of the row, which must be there.
VerifyEmail(p) ==
    /\ login[p].pc = "verify" /\ login[p].user \notin Undone
    /\ verified' = verified \cup {login[p].user}
    /\ login' = [login EXCEPT ![p] = [@ EXCEPT !.pc = "upsert"]]
    /\ UNCHANGED <<loginState, account, signup, link, linkEmail>>

\* Mutant: a table without UNIQUE (user_id, provider) and the foreign key.
UpsertUnkeyed(p) ==
    LET i == login[p].identity
    IN  /\ login[p].pc = "upsert"
        /\ \/ link[i] # None /\ UNCHANGED <<link, linkEmail>>
           \/ /\ link[i] = None
              /\ link' = [link EXCEPT ![i] = login[p].user]
              /\ linkEmail' = [linkEmail EXCEPT ![i] = login[p].email]
        /\ login' = [login EXCEPT ![p] = [@ EXCEPT !.pc = "done"]]
        /\ UNCHANGED <<loginState, account, signup, verified>>

\* INSERT .. ON CONFLICT (provider, provider_user_id) DO UPDATE, of the
\* tokens only.  A user with another identity of the provider violates
\* UNIQUE (user_id, provider), one that is undone the foreign key, and the
\* login fails.
UpsertLink(p) ==
    LET i == login[p].identity
        u == login[p].user
        taken == u \in Undone \/ \E j \in Identities \ {i} : link[j] = u
    IN  /\ login[p].pc = "upsert"
        /\ \/ /\ link[i] # None
              /\ login' = [login EXCEPT ![p] = [@ EXCEPT !.pc = "done"]]
              /\ UNCHANGED <<link, linkEmail>>
           \/ /\ link[i] = None /\ ~taken
              /\ link' = [link EXCEPT ![i] = u]
              /\ linkEmail' = [linkEmail EXCEPT ![i] = login[p].email]
              /\ login' = [login EXCEPT ![p] = [@ EXCEPT !.pc = "done"]]
           \/ /\ link[i] = None /\ taken
              /\ login' = [login EXCEPT ![p] = NoLogin]
              /\ UNCHANGED <<link, linkEmail>>
        /\ UNCHANGED <<loginState, account, signup, verified>>

\* The provider refuses, a statement fails, the client hangs up.
LoginFails(p) ==
    /\ login[p].pc \notin {"idle", "done"}
    /\ login' = [login EXCEPT ![p] = NoLogin]
    /\ UNCHANGED <<loginState, account, signup, verified, link, linkEmail>>

\* AuthService::register as far as its INSERT, which says "taken" of an
\* address that has an owner.
SignUp(u, email) ==
    /\ account[u] = None /\ Owners(email) = {}
    /\ account' = [account EXCEPT ![u] = email]
    /\ signup' = [signup EXCEPT ![u] = "open"]
    /\ UNCHANGED <<loginState, verified, link, linkEmail, login>>

\* The link is on its way, or the worker stops.
EndSignUp(u) ==
    /\ signup[u] = "open"
    /\ signup' = [signup EXCEPT ![u] = "none"]
    /\ UNCHANGED <<loginState, account, verified, link, linkEmail, login>>

\* delete_user: no link could be sent.  Whatever the user has got meanwhile
\* goes along (ON DELETE CASCADE), a provider account included.
UndoSignUp(u) ==
    /\ signup[u] = "open"
    /\ signup' = [signup EXCEPT ![u] = "undone"]
    /\ verified' = verified \ {u}
    /\ link' = [i \in Identities |-> IF link[i] = u THEN None ELSE link[i]]
    /\ login' = [p \in Procs |-> IF login[p].known = u THEN [login[p] EXCEPT !.known = None]
                                                      ELSE login[p]]
    /\ UNCHANGED <<loginState, account, linkEmail>>

\* A callback whose state was consumed, or never issued: InvalidState.
BadState(s) ==
    /\ loginState[s] # "issued"
    /\ UNCHANGED oauthVars

OAuthNext ==
    \/ \E s \in States : StartLogin(s) \/ BadState(s) \/ \E p \in Procs : Consume(p, s)
    \/ \E p \in Procs :
          \/ \E i \in Identities, email \in Emails : Exchange(p, i, email)
          \/ FindLink(p) \/ FindEmail(p) \/ VerifyEmail(p) \/ UpsertLink(p) \/ LoginFails(p)
          \/ \E u \in Users : InsertUser(p, u)
    \/ \E u \in Users : EndSignUp(u) \/ UndoSignUp(u) \/ \E email \in Emails : SignUp(u, email)

OAuthSpec == OAuthInit /\ [][OAuthNext]_oauthVars
-----------------------------------------------------------------------------
Bound(p) ==
    LET l == login[p]
    IN  /\ l.known # None => link[l.identity] = l.known
        /\ l.pc = "done" => \/ l.user = link[l.identity]
                            \/ l.known = None /\ l.email # linkEmail[l.identity]
                            \/ l.user \in Undone

\* A login answers with the owner of the provider account, and that owner is
\* for ever the same: if the account was linked when the provider vouched for
\* it, to that very user.  Two first logins at once may answer otherwise only
\* when the provider gave them different addresses; and only the undoing of
\* a registration whose user they found takes an owner away
\* (oauth/service.rs:153-212).  No user owns two accounts of the provider, and
\* nobody who is undone owns one (0009_oauth.sql).
LoginsBound ==
    /\ \A p \in Procs : Bound(p)
    /\ \A i, j \in Identities : link[i] # None /\ link[i] = link[j] => i = j
    /\ \A i \in Identities : link[i] \notin Undone

\* What the addresses are worth: an address has one owner, a link was made
\* for the owner of the address it was made with, and only who has had an
\* address has a registration.
AddressInv ==
    /\ \A u \in Users : account[u] = None => signup[u] = "none"
    /\ \A u, v \in Users \ Undone : account[u] # None /\ account[u] = account[v] => u = v
    /\ \A i \in Identities :
          link[i] # None => account[link[i]] # None /\ account[link[i]] = linkEmail[i]

\* Who a login takes the user for: the owner of the link it found, who is
\* the one that was known, or else the owner of the address.
LoginOK(p) ==
    LET l == login[p]
    IN  /\ l.pc \notin {"idle", "exchange"} => l.identity # None /\ l.email # None
        /\ l.pc \in {"idle", "exchange"} => l.known = None
        /\ l.known # None => l.pc \in {"find", "upsert", "done"}
        /\ l.known # None /\ l.pc \in {"upsert", "done"} => l.user = l.known
        /\ l.pc \in {"verify", "upsert", "done"} =>
              /\ l.user # None
              /\ \/ account[l.user] = l.email \/ l.user = link[l.identity]
                 \/ l.user \in Undone

LoginInv == \A p \in Procs : LoginOK(p)

OAuthIInv == OAuthTypeOK /\ AddressInv /\ LoginInv /\ LoginsBound
=============================================================================
