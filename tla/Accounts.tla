------------------------------ MODULE Accounts -------------------------------
(***************************************************************************)
(* crates/auth/src/service.rs over crates/storage/src/auth_repo.rs: the    *)
(* email-and-password flows that write, statement by statement, run by the *)
(* request handlers Handlers, and the background tasks that send mail.     *)
(* `login` only reads.  A handler may lose its request, its connection or  *)
(* its process between any two statements.                                 *)
(***************************************************************************)
EXTENDS Integers, FiniteSets

CONSTANTS
    Accounts,   \* values of users.id, never used twice
    Emails, Passwords,
    Tokens,     \* values of auth_tokens.token_hash, never used twice
    Handlers,
    Cap,        \* max_inflight_sends
    Nil

ASSUME AccountAssumption ==
    /\ Cap \in Nat \ {0}
    /\ IsFiniteSet(Handlers)
    /\ Nil \notin Emails /\ Nil \notin Passwords /\ Nil \notin Accounts
    /\ Nil \notin Tokens

VARIABLES
    user,   \* user[a], a row of `users`
    token,  \* token[t], a row of `auth_tokens`
    mail,   \* tokens whose mail is being sent
    inbox,  \* tokens whose mail has been delivered
    call,   \* the call each handler runs
    orphan  \* accounts whose registration neither ended nor was undone

accountVars == <<user, token, mail, inbox, call, orphan>>

Kinds == {"verify", "reset"}
User == [state : {"present", "gone"}, email : Emails, password : Passwords,
         verified : BOOLEAN]
NoUser == [state |-> "new", email |-> Nil, password |-> Nil, verified |-> FALSE]

\* "live" is consumed_at IS NULL, "gone" a row that was deleted.
Token == [state : {"live", "consumed", "gone"}, owner : Accounts, kind : Kinds]
NoToken == [state |-> "new", owner |-> Nil, kind |-> Nil]

CallSteps == {"idle", "permit", "token", "undo", "supersede", "invalidate", "insert", "commit",
       "mark", "update"}
Call == [pc : CallSteps, flow : {"none", "register", "resend", "reset"}, account : Accounts \cup {Nil},
         token : Tokens \cup {Nil}, password : Passwords \cup {Nil}, kills : SUBSET Tokens]
NoCall == [pc |-> "idle", flow |-> "none", account |-> Nil, token |-> Nil,
           password |-> Nil, kills |-> {}]

AccountsTypeOK ==
    /\ user \in [Accounts -> User \cup {NoUser}]
    /\ token \in [Tokens -> Token \cup {NoToken}]
    /\ mail \subseteq Tokens /\ inbox \subseteq Tokens
    /\ call \in [Handlers -> Call]
    /\ orphan \subseteq Accounts

AccountsInit ==
    /\ user = [a \in Accounts |-> NoUser]
    /\ token = [t \in Tokens |-> NoToken]
    /\ mail = {} /\ inbox = {}
    /\ call = [h \in Handlers |-> NoCall]
    /\ orphan = {}

-----------------------------------------------------------------------------
Present(a) == user[a].state = "present"
Live(t, a, kind) == token[t] = [state |-> "live", owner |-> a, kind |-> kind]

Start(h, pc, flow, a) ==
    call' = [call EXCEPT ![h] = [NoCall EXCEPT !.pc = pc, !.flow = flow, !.account = a]]
EndCall(h) == call' = [call EXCEPT ![h] = NoCall]
Goto(h, pc) == call' = [call EXCEPT ![h] = [@ EXCEPT !.pc = pc]]

\* Handlers that hold a permit and have not handed it to a mail yet.
Holders ==
    {h \in Handlers : call[h].pc \in {"token", "supersede", "invalidate", "insert", "commit"}}

\* The transaction of h has updated or inserted rows of a, uncommitted.
Locks(h, a) ==
    /\ call[h].account = a
    /\ \/ call[h].pc = "insert" /\ call[h].kills # {}
       \/ call[h].pc = "commit"

\* The uncommitted transaction that holds the row of token t.
LockedBy(t, h) == call[h].pc \in {"insert", "commit"} /\ t \in call[h].kills

\* A token nobody has drawn.
Fresh(t) == token[t].state = "new" /\ \A h \in Handlers : call[h].token # t

-----------------------------------------------------------------------------
\* `register`: INSERT INTO users; a taken email ends the call.
Register(h, a, e, pw) ==
    /\ call[h].pc = "idle"
    /\ user[a].state = "new" /\ \A b \in Accounts : Present(b) => user[b].email # e
    /\ user' = [user EXCEPT ![a] = [state |-> "present", email |-> e,
                                    password |-> pw, verified |-> FALSE]]
    /\ Start(h, "permit", "register", a)
    /\ UNCHANGED <<token, mail, inbox, orphan>>

\* `resend_verification` and `request_password_reset` find their user.
Resend(h, a) ==
    /\ call[h].pc = "idle" /\ Present(a) /\ ~user[a].verified
    /\ Start(h, "permit", "resend", a)
    /\ UNCHANGED <<user, token, mail, inbox, orphan>>

RequestReset(h, a) ==
    /\ call[h].pc = "idle" /\ Present(a)
    /\ Start(h, "permit", "reset", a)
    /\ UNCHANGED <<user, token, mail, inbox, orphan>>

\* Mutant: a registration that cannot send leaves its user row.
GiveUpKeeps(h) == EndCall(h)

\* The call fails: a registration deletes its user row first.
GiveUp(h) == IF call[h].flow = "register" THEN Goto(h, "undo") ELSE EndCall(h)

\* Mutant: a permit is handed on before it is counted.
FreePermitUncounted == Cardinality(mail) < Cap

\* send_permits has one left.
FreePermit == Cardinality(mail) + Cardinality(Holders) < Cap

\* acquire_send_permit: a full cap is an error.
Acquire(h) ==
    /\ call[h].pc = "permit"
    /\ IF FreePermit
       THEN Goto(h, IF call[h].flow = "reset" THEN "supersede" ELSE "token")
       ELSE GiveUp(h)
    /\ UNCHANGED <<user, token, mail, inbox, orphan>>

\* insert_auth_token of a verification link, and the spawn of its mail.
InsertVerify(h, t) ==
    /\ call[h].pc = "token" /\ Present(call[h].account) /\ Fresh(t)
    /\ token' = [token EXCEPT ![t] = [state |-> "live", owner |-> call[h].account,
                                      kind |-> "verify"]]
    /\ mail' = mail \cup {t}
    /\ EndCall(h)
    /\ UNCHANGED <<user, inbox, orphan>>

\* The INSERT fails: the database is away, or the user is gone (foreign key).
InsertFails(h) ==
    /\ call[h].pc = "token"
    /\ GiveUp(h)
    /\ UNCHANGED <<user, token, mail, inbox, orphan>>

\* The compensating DELETE of a registration, with the user's tokens (ON
\* DELETE CASCADE); it waits for transactions that wrote them.
Undo(h) ==
    LET a == call[h].account
    IN  /\ call[h].pc = "undo" /\ \A g \in Handlers : ~Locks(g, a)
        /\ user' = [user EXCEPT ![a] = [@ EXCEPT !.state = "gone"]]
        /\ token' = [t \in Tokens |-> IF token[t].owner = a
                                      THEN [token[t] EXCEPT !.state = "gone"] ELSE token[t]]
        /\ EndCall(h)
        /\ UNCHANGED <<mail, inbox, orphan>>

-----------------------------------------------------------------------------
\* replace_user_token: the rows its UPDATE finds when it starts ..
Supersede(h) ==
    /\ call[h].pc = "supersede"
    /\ call' = [call EXCEPT ![h] =
                  [@ EXCEPT !.pc = "invalidate",
                            !.kills = {t \in Tokens : Live(t, call[h].account, "reset")}]]
    /\ UNCHANGED <<user, token, mail, inbox, orphan>>

\* Mutant: the UPDATE is a transaction of its own.
InvalidateCommits(h) ==
    /\ call[h].pc = "invalidate"
    /\ token' = [t \in Tokens |-> IF t \in call[h].kills
                                  THEN [token[t] EXCEPT !.state = "consumed"] ELSE token[t]]
    /\ call' = [call EXCEPT ![h] = [@ EXCEPT !.pc = "insert", !.kills = {}]]
    /\ UNCHANGED <<user, mail, inbox, orphan>>

\* .. wait for their other writers, and those still live it updates.
Invalidate(h) ==
    /\ call[h].pc = "invalidate"
    /\ \A t \in call[h].kills, g \in Handlers : ~LockedBy(t, g)
    /\ call' = [call EXCEPT ![h] =
                  [@ EXCEPT !.pc = "insert",
                            !.kills = {t \in call[h].kills : Live(t, call[h].account, "reset")}]]
    /\ UNCHANGED <<user, token, mail, inbox, orphan>>

InsertReset(h, t) ==
    /\ call[h].pc = "insert" /\ Present(call[h].account) /\ Fresh(t)
    /\ call' = [call EXCEPT ![h] = [@ EXCEPT !.pc = "commit", !.token = t]]
    /\ UNCHANGED <<user, token, mail, inbox, orphan>>

\* COMMIT, and the spawn of the mail.
CommitReset(h) ==
    /\ call[h].pc = "commit"
    /\ token' = [t \in Tokens |->
                   CASE t = call[h].token -> [state |-> "live", owner |-> call[h].account,
                                              kind |-> "reset"]
                     [] t \in call[h].kills -> [token[t] EXCEPT !.state = "consumed"]
                     [] OTHER -> token[t]]
    /\ mail' = mail \cup {call[h].token}
    /\ EndCall(h)
    /\ UNCHANGED <<user, inbox, orphan>>

\* The background task: delivered or not, the permit is free.
Send(t) ==
    /\ t \in mail
    /\ mail' = mail \ {t}
    /\ inbox' \in {inbox, inbox \cup {t}}
    /\ UNCHANGED <<user, token, call, orphan>>

-----------------------------------------------------------------------------
\* Mutant: the kind is not in the WHERE.
RedeemableAny(t, kind) == t \in inbox /\ token[t].state = "live"

\* Mutant: consumed_at is not in the WHERE.
RedeemableTwice(t, kind) ==
    t \in inbox /\ token[t].state \in {"live", "consumed"} /\ token[t].kind = kind

\* A delivered link that consume_auth_token finds unconsumed; whether it has
\* expired depends on the clock of the instance that looks, so it is refused
\* at any time.
Redeemable(t, kind) == t \in inbox /\ token[t].state = "live" /\ token[t].kind = kind

Consume(h, t, pc, pw) ==
    /\ call[h].pc = "idle" /\ \A g \in Handlers : ~LockedBy(t, g)
    /\ token' = [token EXCEPT ![t] = [@ EXCEPT !.state = "consumed"]]
    /\ call' = [call EXCEPT ![h] = [NoCall EXCEPT !.pc = pc, !.account = token[t].owner,
                                                  !.token = t, !.password = pw]]
    /\ UNCHANGED <<user, mail, inbox, orphan>>

\* `verify_email` and `reset_password`: the token first ..
VerifyEmail(h, t) == Redeemable(t, "verify") /\ Consume(h, t, "mark", Nil)
ResetPassword(h, t, pw) == Redeemable(t, "reset") /\ Consume(h, t, "update", pw)

\* .. then the user row, if it is still there.
Mark(h) ==
    LET a == call[h].account
    IN  /\ call[h].pc = "mark"
        /\ user' = IF Present(a) THEN [user EXCEPT ![a] = [@ EXCEPT !.verified = TRUE]] ELSE user
        /\ EndCall(h)
        /\ UNCHANGED <<token, mail, inbox, orphan>>

Update(h) ==
    LET a == call[h].account
    IN  /\ call[h].pc = "update"
        /\ user' = IF Present(a) THEN [user EXCEPT ![a] = [@ EXCEPT !.password = call[h].password]]
                                 ELSE user
        /\ EndCall(h)
        /\ UNCHANGED <<token, mail, inbox, orphan>>

\* The request is dropped, the process dies, or a statement fails where no
\* compensation is written: uncommitted writes are rolled back.
StopCall(h) ==
    /\ call[h].pc # "idle"
    /\ orphan' = IF call[h].flow = "register" THEN orphan \cup {call[h].account} ELSE orphan
    /\ EndCall(h)
    /\ UNCHANGED <<user, token, mail, inbox>>

CallStatement(h) ==
    \/ Acquire(h) \/ InsertFails(h) \/ Undo(h)
    \/ Supersede(h) \/ Invalidate(h) \/ CommitReset(h)
    \/ Mark(h) \/ Update(h) \/ StopCall(h)
    \/ \E t \in Tokens : InsertVerify(h, t) \/ InsertReset(h, t)

AccountsNext ==
    \/ \E h \in Handlers :
        \/ \E a \in Accounts, e \in Emails, pw \in Passwords : Register(h, a, e, pw)
        \/ \E a \in Accounts : Resend(h, a) \/ RequestReset(h, a)
        \/ \E t \in Tokens : VerifyEmail(h, t)
        \/ \E t \in Tokens, pw \in Passwords : ResetPassword(h, t, pw)
        \/ CallStatement(h)
    \/ \E t \in Tokens : Send(t)

AccountsSpec == AccountsInit /\ [][AccountsNext]_accountVars

-----------------------------------------------------------------------------
(* Properties.                                                             *)

\* A link works once: whoever clicks it twice, or beside somebody else, two
\* handlers never act on one token, and a token that was acted on is never
\* live again (service.rs:366-368, 447-449).
RedeemedOnce ==
    \A h \in Handlers : call[h].pc \in {"mark", "update"} =>
        /\ token[call[h].token].state \in {"consumed", "gone"}
        /\ \A g \in Handlers \ {h} :
              call[g].pc \in {"mark", "update"} => call[g].token # call[h].token

\* An account's password and its verified flag change only by the hand of
\* somebody who redeemed a link of that purpose, sent to that account
\* (auth_repo.rs:360-374).
ChangedByLink ==
    [][\A a \in Accounts :
          Present(a) /\ (user'[a].password # user[a].password
                         \/ user'[a].verified # user[a].verified) =>
          \E h \in Handlers :
              /\ call[h].pc = (IF user'[a].verified # user[a].verified THEN "mark" ELSE "update")
              /\ call[h].token \in inbox
              /\ token[call[h].token].owner = a
              /\ token[call[h].token].kind =
                    (IF user'[a].verified # user[a].verified THEN "verify" ELSE "reset")]_accountVars

\* A registration that failed leaves no user row behind, so the address can
\* be registered again; one that succeeded leaves a link.  Only a crash, or a
\* DELETE that fails too, leaves an orphan (service.rs:185-206).
RegistrationWhole ==
    \A a \in Accounts : Present(a) /\ a \notin orphan =>
        \/ \E h \in Handlers : call[h].flow = "register" /\ call[h].account = a
        \/ \E t \in Tokens : /\ token[t].owner = a /\ token[t].kind = "verify"
                             /\ token[t].state \in {"live", "consumed"}

\* Asking for a new reset link never leaves the user with none: an older link
\* dies only by being used, with its user, or in the very step that brings
\* its replacement (auth_repo.rs:219-223, service.rs:274-281).
NeverNullified ==
    [][\A a \in Accounts :
          (\E t \in Tokens : Live(t, a, "reset")) /\ ~(\E t \in Tokens : Live(t, a, "reset")') =>
          \/ ~Present(a)'
          \/ \E h \in Handlers : call[h].pc = "idle" /\ call'[h].pc = "update"
                                 /\ call'[h].account = a]_accountVars

\* In-flight mails and the handlers about to start one never exceed the cap
\* (service.rs:341-364).
CapRespected == Cardinality(mail) + Cardinality(Holders) <= Cap

\* What auth_repo.rs:204-208 says: after a new request "an intercepted older
\* email can no longer succeed".
OneResetLink ==
    \A a \in Accounts : Cardinality({t \in Tokens : Live(t, a, "reset")}) <= 1

-----------------------------------------------------------------------------
(* The inductive invariant.                                                *)

\* The link a handler acts on was delivered, is spent, and is its account's.
Redeemed(c, kind) ==
    /\ c.token \in inbox /\ token[c.token].state \in {"consumed", "gone"}
    /\ token[c.token].owner = c.account /\ token[c.token].kind = kind

\* What a handler knows of the rows it works on.
CallOK(h) ==
    /\ call[h].pc # "idle" => call[h].account \in Accounts /\ user[call[h].account].state # "new"
    /\ call[h].flow = "register" => call[h].pc \in {"permit", "token", "undo"}
    /\ call[h].pc = "mark" => Redeemed(call[h], "verify")
    /\ call[h].pc = "update" => Redeemed(call[h], "reset") /\ call[h].password \in Passwords
    /\ call[h].pc = "commit" => call[h].token \in Tokens /\ token[call[h].token] = NoToken
    /\ \A t \in call[h].kills : /\ token[t].state # "new"
                                /\ token[t].owner = call[h].account /\ token[t].kind = "reset"
CallsOK == \A h \in Handlers : CallOK(h)

\* A token that waits for its COMMIT is nobody else's.
DrawnOnce ==
    \A g, h \in Handlers : g # h /\ call[h].pc = "commit" => call[g].token # call[h].token

TokensOwned == \A t \in Tokens : token[t].state # "new" => user[token[t].owner].state # "new"

AccountsIInv ==
    /\ AccountsTypeOK /\ CallsOK /\ DrawnOnce /\ TokensOwned
    /\ RedeemedOnce /\ RegistrationWhole /\ IsFiniteSet(mail) /\ CapRespected
=============================================================================
