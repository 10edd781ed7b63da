--------------------------- MODULE AccountsProofs ---------------------------
(***************************************************************************)
(* Proofs about Accounts, for any accounts, addresses, tokens and cap, and *)
(* any finite number of handlers.                                          *)
(***************************************************************************)
EXTENDS Accounts, FiniteSetTheorems, TLAPS

Core ==
    /\ AccountsTypeOK /\ CallsOK /\ DrawnOnce /\ TokensOwned /\ RedeemedOnce /\ RegistrationWhole

\* What a step may do to a user row, and when it may bring one.
UserStep(a, c) ==
    /\ user[a].state # "new" => user'[a].state # "new"
    /\ user'[a].state = "present" =>
          Present(a) \/ (c.flow = "register" /\ c.account = a)

\* What a step of h may do to a token: nothing, bring it, or take it away.
TokenStep(t, h) ==
    \/ token'[t] = token[t]
    \/ /\ token[t] = NoToken /\ token'[t].state = "live"
       /\ user[token'[t].owner].state # "new"
       /\ \A g \in Handlers \ {h} : call[g].token # t
    \/ /\ token[t].state # "new" /\ token'[t].state \in {"consumed", "gone"}
       /\ token'[t].owner = token[t].owner /\ token'[t].kind = token[t].kind
       /\ token'[t].state = "gone" =>
             token[t].state = "gone" \/ user'[token[t].owner].state = "gone"

\* Where the token of the new record c of handler h comes from.
Draws(h, c) ==
    \/ /\ c.pc \notin {"commit", "mark", "update"}
       /\ c.token \in {Nil, call[h].token}
    \/ c.pc = "commit" /\ Fresh(c.token)
    \/ c.pc \in {"mark", "update"} /\ c.token \in Tokens /\ token[c.token].state = "live"

\* A registration goes on, is undone, is an orphan, or has made its link.
Leaves(h, c) ==
    call[h].flow = "register" =>
        LET a == call[h].account
        IN  \/ c.flow = "register" /\ c.account = a
            \/ a \in orphan' \/ user'[a].state # "present"
            \/ \E t \in Tokens : /\ token'[t].owner = a /\ token'[t].kind = "verify"
                                 /\ token'[t].state \in {"live", "consumed"}

-----------------------------------------------------------------------------
\* One handler's record is rewritten: what the others know stays true.
LEMMA CallStep ==
    ASSUME Core, NEW h \in Handlers, NEW c \in Call, call' = [call EXCEPT ![h] = c],
           user' \in [Accounts -> User \cup {NoUser}], \A a \in Accounts : UserStep(a, c),
           token' \in [Tokens -> Token \cup {NoToken}], \A t \in Tokens : TokenStep(t, h),
           mail' \subseteq Tokens, inbox' = inbox, orphan' \subseteq Accounts, orphan \subseteq orphan',
           Draws(h, c), Leaves(h, c), CallOK(h)'
    PROVE  Core'
<1> USE DEF Core
<1>1. /\ call \in [Handlers -> Call] /\ call' \in [Handlers -> Call] /\ call'[h] = c
      /\ \A g \in Handlers \ {h} : call'[g] = call[g]
      /\ token \in [Tokens -> Token \cup {NoToken}] /\ user \in [Accounts -> User \cup {NoUser}]
  BY DEF AccountsTypeOK
<1>2. AccountsTypeOK'
  BY <1>1 DEF AccountsTypeOK
<1>3. ASSUME NEW t \in Tokens, token[t].state # "new"
      PROVE  /\ token'[t].state # "new"
             /\ token'[t].owner = token[t].owner /\ token'[t].kind = token[t].kind
             /\ token[t].state \in {"consumed", "gone"} => token'[t].state \in {"consumed", "gone"}
  BY <1>3 DEF TokenStep, NoToken
<1>4. ASSUME NEW g \in Handlers \ {h}  PROVE CallOK(g)'
  <2> DEFINE k == call[g]
  <2>1. call'[g] = k /\ CallOK(g) /\ k \in Call
    BY <1>1 DEF CallsOK
  <2>2. k.pc # "idle" => k.account \in Accounts /\ user'[k.account].state # "new"
    BY <2>1 DEF CallOK, UserStep
  <2>3. k.flow = "register" => k.pc \in {"permit", "token", "undo"}
    BY <2>1 DEF CallOK
  <2>4. ASSUME NEW kind, Redeemed(k, kind)  PROVE Redeemed(k, kind)'
    <3>1. k.token \in Tokens
      BY <2>4 DEF Redeemed, AccountsTypeOK
    <3>2. QED BY <2>4, <3>1, <1>3, <2>1 DEF Redeemed
  <2>5. ASSUME k.pc = "commit"  PROVE k.token \in Tokens /\ token'[k.token] = NoToken
    <3>1. k.token \in Tokens /\ token[k.token] = NoToken
      BY <2>1, <2>5 DEF CallOK
    <3>2. QED BY <3>1 DEF TokenStep, NoToken
  <2>6. ASSUME NEW t \in k.kills
        PROVE  token'[t].state # "new" /\ token'[t].owner = k.account /\ token'[t].kind = "reset"
    <3>1. t \in Tokens /\ token[t].state # "new" /\ token[t].owner = k.account
          /\ token[t].kind = "reset"
      BY <2>1, <2>6 DEF CallOK, Call
    <3>2. QED BY <3>1, <1>3
  <2>7. k.pc = "mark" => Redeemed(k, "verify")'
    BY <2>1, <2>4 DEF CallOK
  <2>8. k.pc = "update" => Redeemed(k, "reset")' /\ k.password \in Passwords
    BY <2>1, <2>4 DEF CallOK
  <2>9. /\ k.pc = "mark" => Redeemed(call[g], "verify")'
        /\ k.pc = "update" => Redeemed(call[g], "reset")'
    BY <2>7, <2>8, <2>1 DEF Redeemed
  <2>10. QED BY <2>1, <2>2, <2>3, <2>5, <2>6, <2>8, <2>9 DEF CallOK
<1>5. CallsOK'
  BY <1>4 DEF CallsOK
<1>6. DrawnOnce'
  <2>1. ASSUME NEW g \in Handlers \ {h}, c.pc = "commit"  PROVE call[g].token # c.token
    BY <2>1 DEF Draws, Fresh
  <2>2. ASSUME NEW g \in Handlers \ {h}, call[g].pc = "commit"  PROVE call[g].token # c.token
    <3>1. call[g].token \in Tokens /\ token[call[g].token] = NoToken /\ call[h].token # call[g].token
      BY <2>2 DEF CallsOK, CallOK, DrawnOnce
    <3>2. call[g].token # Nil
      BY <3>1, AccountAssumption
    <3>3. QED BY <3>1, <3>2 DEF Draws, Fresh, NoToken
  <2>3. ASSUME NEW f \in Handlers, NEW g \in Handlers, f # g, call'[g].pc = "commit"
        PROVE  call'[f].token # call'[g].token
    <3>1. CASE f = h
      BY <3>1, <2>2, <2>3, <1>1
    <3>2. CASE g = h
      BY <3>2, <2>1, <2>3, <1>1
    <3>3. CASE f # h /\ g # h
      BY <3>3, <2>3, <1>1 DEF DrawnOnce
    <3>4. QED BY <3>1, <3>2, <3>3
  <2>4. QED BY <2>3 DEF DrawnOnce
<1>7. TokensOwned'
  <2>1. ASSUME NEW t \in Tokens, token'[t].state # "new"
        PROVE  user'[token'[t].owner].state # "new"
    <3>1. token'[t].owner \in Accounts
      BY <2>1, <1>1 DEF Token, NoToken
    <3>2. user[token'[t].owner].state # "new"
      BY <2>1 DEF TokenStep, TokensOwned
    <3>3. QED BY <3>1, <3>2 DEF UserStep
  <2>2. QED BY <2>1 DEF TokensOwned
<1>8. RedeemedOnce'
  <2>1. ASSUME NEW g \in Handlers, call'[g].pc \in {"mark", "update"}
        PROVE  token'[call'[g].token].state \in {"consumed", "gone"}
    BY <2>1, <1>5 DEF CallsOK, CallOK, Redeemed
  <2>2. ASSUME NEW g \in Handlers \ {h}, call[g].pc \in {"mark", "update"},
               c.pc \in {"mark", "update"}
        PROVE  call[g].token # c.token
    BY <2>2 DEF RedeemedOnce, Draws
  <2>3. ASSUME NEW f \in Handlers, NEW g \in Handlers \ {f},
               call'[f].pc \in {"mark", "update"}, call'[g].pc \in {"mark", "update"}
        PROVE  call'[g].token # call'[f].token
    <3>1. CASE f = h
      BY <3>1, <2>2, <2>3, <1>1
    <3>2. CASE g = h
      BY <3>2, <2>2, <2>3, <1>1
    <3>3. CASE f # h /\ g # h
      BY <3>3, <2>3, <1>1 DEF RedeemedOnce
    <3>4. QED BY <3>1, <3>2, <3>3
  <2>4. QED BY <2>1, <2>3 DEF RedeemedOnce
<1>9. RegistrationWhole'
  <2>1. SUFFICES ASSUME NEW a \in Accounts, user'[a].state = "present", a \notin orphan'
        PROVE  \/ \E g \in Handlers : call'[g].flow = "register" /\ call'[g].account = a
               \/ \E t \in Tokens : /\ token'[t].owner = a /\ token'[t].kind = "verify"
                                    /\ token'[t].state \in {"live", "consumed"}
    BY DEF RegistrationWhole, Present
  <2>2. CASE ~Present(a)
    BY <2>1, <2>2, <1>1 DEF UserStep
  <2>3. CASE Present(a) /\ \E g \in Handlers : call[g].flow = "register" /\ call[g].account = a
    <3>1. PICK g \in Handlers : call[g].flow = "register" /\ call[g].account = a
      BY <2>3
    <3>2. CASE g # h
      BY <3>1, <3>2, <1>1
    <3>3. CASE g = h
      BY <2>1, <3>1, <3>3, <1>1 DEF Leaves
    <3>4. QED BY <3>2, <3>3
  <2>4. CASE Present(a) /\ ~ \E g \in Handlers : call[g].flow = "register" /\ call[g].account = a
    <3>1. PICK t \in Tokens : /\ token[t].owner = a /\ token[t].kind = "verify"
                              /\ token[t].state \in {"live", "consumed"}
      BY <2>1, <2>4 DEF RegistrationWhole
    <3>2. token'[t].owner = a /\ token'[t].kind = "verify"
      BY <3>1, <1>3
    <3>3. token'[t].state \in {"live", "consumed"}
      BY <2>1, <3>1 DEF TokenStep, NoToken
    <3>4. QED BY <3>2, <3>3
  <2>5. QED BY <2>2, <2>3, <2>4
<1>10. QED BY <1>2, <1>5, <1>6, <1>7, <1>8, <1>9

-----------------------------------------------------------------------------
(* The records the actions write.                                          *)

LEMMA EndRecord ==
    NoCall \in Call /\ NoCall.pc = "idle" /\ NoCall.flow = "none" /\ NoCall.token = Nil
    /\ NoCall.kills = {}
  BY DEF NoCall, Call, CallSteps

LEMMA GotoRecord ==
    ASSUME NEW k \in Call, NEW pc \in CallSteps
    PROVE  LET c == [k EXCEPT !.pc = pc]
           IN  /\ c \in Call /\ c.pc = pc /\ c.flow = k.flow /\ c.account = k.account
               /\ c.token = k.token /\ c.password = k.password /\ c.kills = k.kills
  BY DEF Call

\* A handler begins a call.
LEMMA StartStep ==
    ASSUME Core, NEW h \in Handlers, NEW flow \in {"register", "resend", "reset"},
           NEW a \in Accounts, Start(h, "permit", flow, a), call[h].pc = "idle",
           user' \in [Accounts -> User \cup {NoUser}], user'[a].state # "new",
           \A b \in Accounts : /\ user[b].state # "new" => user'[b].state # "new"
                               /\ user'[b].state = "present" =>
                                     Present(b) \/ (flow = "register" /\ b = a),
           UNCHANGED <<token, mail, inbox, orphan>>
    PROVE  Core'
<1> DEFINE c == [NoCall EXCEPT !.pc = "permit", !.flow = flow, !.account = a]
<1>1. /\ c \in Call /\ c.pc = "permit" /\ c.flow = flow /\ c.account = a
      /\ c.token = Nil /\ c.kills = {}
  BY DEF NoCall, Call, CallSteps
<1>2. call' = [call EXCEPT ![h] = c]
  BY DEF Start
<1> HIDE DEF c
<1>3. call'[h] = c
  BY <1>2 DEF Core, AccountsTypeOK
<1>4. CallOK(h)'
  BY <1>1, <1>3 DEF CallOK
<1>5. Draws(h, c)
  BY <1>1 DEF Draws
<1>6. Leaves(h, c)
  BY DEF Leaves, Core, CallsOK, CallOK
<1>7. \A b \in Accounts : UserStep(b, c)
  BY <1>1 DEF UserStep
<1>8. \A t \in Tokens : TokenStep(t, h)
  BY DEF TokenStep
<1>9. QED BY <1>1, <1>2, <1>4, <1>5, <1>6, <1>7, <1>8, CallStep DEF Core, AccountsTypeOK

\* A call moves on, or ends, with no row written.
LEMMA ControlStep ==
    ASSUME Core, NEW h \in Handlers, call[h].pc # "idle",
           NEW pc \in {"token", "undo", "supersede"}, Goto(h, pc),
           call[h].flow = "register" => pc \in {"token", "undo"},
           UNCHANGED <<user, token, mail, inbox, orphan>>
    PROVE  Core'
<1> DEFINE c == [call[h] EXCEPT !.pc = pc]
<1>1. /\ c \in Call /\ c.pc = pc /\ c.flow = call[h].flow /\ c.account = call[h].account
      /\ c.token = call[h].token /\ c.kills = call[h].kills
  <2>1. call[h] \in Call /\ pc \in CallSteps
    BY DEF Core, AccountsTypeOK, CallSteps
  <2>2. QED BY <2>1, GotoRecord, Zenon
<1>2. call' = [call EXCEPT ![h] = c]
  BY DEF Goto, Core, AccountsTypeOK
<1> HIDE DEF c
<1>3. call'[h] = c
  BY <1>2 DEF Core, AccountsTypeOK
<1>4. CallOK(h)'
  BY <1>1, <1>3 DEF CallOK, Core, CallsOK
<1>5. Draws(h, c) /\ Leaves(h, c)
  BY <1>1 DEF Draws, Leaves
<1>6. (\A b \in Accounts : UserStep(b, c)) /\ (\A t \in Tokens : TokenStep(t, h))
  BY DEF UserStep, TokenStep, Present
<1>7. QED BY <1>1, <1>2, <1>4, <1>5, <1>6, CallStep DEF Core, AccountsTypeOK

\* A call ends, having written what it may.
LEMMA EndStep ==
    ASSUME Core, NEW h \in Handlers, EndCall(h),
           user' \in [Accounts -> User \cup {NoUser}],
           \A a \in Accounts : /\ user[a].state # "new" => user'[a].state # "new"
                               /\ user'[a].state = "present" => Present(a),
           token' \in [Tokens -> Token \cup {NoToken}], \A t \in Tokens : TokenStep(t, h),
           mail' \subseteq Tokens, inbox' = inbox, orphan' \subseteq Accounts, orphan \subseteq orphan',
           Leaves(h, NoCall)
    PROVE  Core'
<1>1. NoCall \in Call /\ NoCall.pc = "idle" /\ NoCall.flow = "none" /\ NoCall.token = Nil
      /\ NoCall.kills = {}
  BY EndRecord
<1>2. call' = [call EXCEPT ![h] = NoCall] /\ call'[h] = NoCall
  BY DEF EndCall, Core, AccountsTypeOK
<1>3. CallOK(h)'
  BY <1>1, <1>2 DEF CallOK
<1>4. Draws(h, NoCall)
  BY <1>1 DEF Draws
<1>5. \A a \in Accounts : UserStep(a, NoCall)
  BY DEF UserStep
<1>6. QED BY <1>1, <1>2, <1>3, <1>4, <1>5, CallStep

-----------------------------------------------------------------------------
(* One lemma per action.                                                   *)

LEMMA RegisterStep ==
    ASSUME Core, NEW h \in Handlers, NEW a \in Accounts, NEW e \in Emails, NEW pw \in Passwords,
           Register(h, a, e, pw)
    PROVE  Core'
<1> DEFINE row == [state |-> "present", email |-> e, password |-> pw, verified |-> FALSE]
<1>1. row \in User /\ row.state = "present"
  BY DEF User
<1>2. user' = [user EXCEPT ![a] = row]
  BY DEF Register
<1> HIDE DEF row
<1>3. /\ user' \in [Accounts -> User \cup {NoUser}] /\ user'[a] = row
      /\ \A b \in Accounts \ {a} : user'[b] = user[b]
  BY <1>1, <1>2 DEF Core, AccountsTypeOK
<1>4. \A b \in Accounts : /\ user[b].state # "new" => user'[b].state # "new"
                          /\ user'[b].state = "present" =>
                                Present(b) \/ ("register" = "register" /\ b = a)
  BY <1>1, <1>3 DEF Present
<1>5. QED BY <1>1, <1>3, <1>4, StartStep DEF Register

LEMMA AskStep ==
    ASSUME Core, NEW h \in Handlers, NEW a \in Accounts, Resend(h, a) \/ RequestReset(h, a)
    PROVE  Core'
<1>1. /\ user' \in [Accounts -> User \cup {NoUser}] /\ user'[a].state # "new"
      /\ \A b \in Accounts : user'[b] = user[b]
  BY DEF Resend, RequestReset, Present, Core, AccountsTypeOK
<1>2. CASE Resend(h, a)
  BY <1>1, <1>2, StartStep DEF Resend, Present
<1>3. CASE RequestReset(h, a)
  BY <1>1, <1>3, StartStep DEF RequestReset, Present
<1>4. QED BY <1>2, <1>3

\* A call that ends without writing, and without leaving a registration.
LEMMA EndsIdly ==
    ASSUME Core, NEW h \in Handlers, EndCall(h), call[h].flow # "register",
           UNCHANGED <<user, token, mail, inbox, orphan>>
    PROVE  Core'
<1>1. Leaves(h, NoCall)
  BY DEF Leaves
<1>2. (\A a \in Accounts : user'[a] = user[a]) /\ (\A t \in Tokens : TokenStep(t, h))
  BY DEF TokenStep
<1>3. QED BY <1>1, <1>2, EndStep DEF Core, AccountsTypeOK, Present

LEMMA GiveUpStep ==
    ASSUME Core, NEW h \in Handlers, call[h].pc # "idle", GiveUp(h),
           UNCHANGED <<user, token, mail, inbox, orphan>>
    PROVE  Core'
<1>1. CASE call[h].flow = "register"
  BY <1>1, ControlStep DEF GiveUp
<1>2. CASE call[h].flow # "register"
  BY <1>2, EndsIdly DEF GiveUp
<1>3. QED BY <1>1, <1>2

LEMMA AcquireStep ==
    ASSUME Core, NEW h \in Handlers, Acquire(h)
    PROVE  Core'
<1>1. CASE FreePermit /\ call[h].flow = "reset"
  BY <1>1, ControlStep DEF Acquire
<1>2. CASE FreePermit /\ call[h].flow # "reset"
  BY <1>2, ControlStep DEF Acquire
<1>3. CASE ~FreePermit
  BY <1>3, GiveUpStep DEF Acquire
<1>4. QED BY <1>1, <1>2, <1>3

LEMMA InsertVerifyStep ==
    ASSUME Core, NEW h \in Handlers, NEW t \in Tokens, InsertVerify(h, t)
    PROVE  Core'
<1> DEFINE a == call[h].account
           row == [state |-> "live", owner |-> a, kind |-> "verify"]
<1>1. a \in Accounts /\ user[a].state # "new" /\ token[t] = NoToken
  BY DEF InsertVerify, Core, CallsOK, CallOK, Present, Fresh, AccountsTypeOK, Token
<1>2. row \in Token /\ row.state = "live" /\ row.owner = a /\ row.kind = "verify"
  BY <1>1 DEF Token, Kinds
<1>3. token' = [token EXCEPT ![t] = row]
  BY DEF InsertVerify
<1> HIDE DEF row
<1>4. /\ token' \in [Tokens -> Token \cup {NoToken}] /\ token'[t] = row
      /\ \A s \in Tokens \ {t} : token'[s] = token[s]
  BY <1>2, <1>3 DEF Core, AccountsTypeOK
<1>5. \A s \in Tokens : TokenStep(s, h)
  BY <1>1, <1>2, <1>4 DEF TokenStep, InsertVerify, Fresh
<1>6. Leaves(h, NoCall)
  BY <1>2, <1>4 DEF Leaves
<1>7. (\A b \in Accounts : user'[b] = user[b]) /\ UNCHANGED <<user, inbox, orphan>> /\ EndCall(h)
      /\ mail' \subseteq Tokens
  BY DEF InsertVerify, Core, AccountsTypeOK
<1>8. QED BY <1>4, <1>5, <1>6, <1>7, EndStep DEF Core, AccountsTypeOK, Present

LEMMA UndoStep ==
    ASSUME Core, NEW h \in Handlers, Undo(h)
    PROVE  Core'
<1> DEFINE a == call[h].account
           row == [user[a] EXCEPT !.state = "gone"]
<1>1. a \in Accounts /\ user[a] \in User
  BY DEF Undo, Core, CallsOK, CallOK, AccountsTypeOK, NoUser
<1>2. row \in User /\ row.state = "gone"
  BY <1>1 DEF User
<1>3. user' = [user EXCEPT ![a] = row]
  BY DEF Undo, Core, AccountsTypeOK
<1> HIDE DEF row
<1>4. /\ user' \in [Accounts -> User \cup {NoUser}] /\ user'[a].state = "gone"
      /\ \A b \in Accounts \ {a} : user'[b] = user[b]
  BY <1>1, <1>2, <1>3 DEF Core, AccountsTypeOK
<1>5. ASSUME NEW t \in Tokens
      PROVE  token'[t] \in Token \cup {NoToken} /\ TokenStep(t, h)
  <2>1. CASE token[t].owner # a
    <3>1. token'[t] = token[t]
      BY <2>1 DEF Undo
    <3>2. QED BY <3>1 DEF Core, AccountsTypeOK, TokenStep
  <2>2. CASE token[t].owner = a
    <3> DEFINE new == [token[t] EXCEPT !.state = "gone"]
    <3>1. token[t] \in Token
      BY <2>2, <1>1, AccountAssumption DEF Core, AccountsTypeOK, NoToken
    <3>2. /\ new \in Token /\ new.state = "gone" /\ new.owner = token[t].owner
          /\ new.kind = token[t].kind /\ token[t].state # "new"
      BY <3>1 DEF Token
    <3>3. token'[t] = new
      BY <2>2 DEF Undo
    <3> HIDE DEF new
    <3>4. QED BY <3>2, <3>3, <2>2, <1>4 DEF TokenStep
  <2>3. QED BY <2>1, <2>2
<1>6. token' \in [Tokens -> Token \cup {NoToken}]
  BY <1>5 DEF Undo
<1>7. Leaves(h, NoCall)
  BY <1>4 DEF Leaves
<1>8. \A b \in Accounts : /\ user[b].state # "new" => user'[b].state # "new"
                          /\ user'[b].state = "present" => Present(b)
  BY <1>4 DEF Present
<1>9. QED BY <1>4, <1>5, <1>6, <1>7, <1>8, EndStep DEF Undo, Core, AccountsTypeOK

\* Two control steps of replace_user_token: no row is written yet.
LEMMA KillsStep ==
    ASSUME Core, NEW h \in Handlers, call[h].pc \in {"supersede", "invalidate"},
           NEW pc \in {"invalidate", "insert"}, NEW K \in SUBSET Tokens,
           \A t \in K : Live(t, call[h].account, "reset"),
           call' = [call EXCEPT ![h] = [@ EXCEPT !.pc = pc, !.kills = K]],
           UNCHANGED <<user, token, mail, inbox, orphan>>
    PROVE  Core'
<1> DEFINE c == [call[h] EXCEPT !.pc = pc, !.kills = K]
<1>1. call[h] \in Call /\ call[h].flow # "register"
  BY DEF Core, AccountsTypeOK, CallsOK, CallOK
<1>2. /\ c \in Call /\ c.pc = pc /\ c.kills = K /\ c.account = call[h].account
      /\ c.token = call[h].token /\ c.flow = call[h].flow
  BY <1>1 DEF Call, CallSteps
<1>3. call' = [call EXCEPT ![h] = c]
  BY DEF Core, AccountsTypeOK
<1> HIDE DEF c
<1>4. call'[h] = c
  BY <1>3 DEF Core, AccountsTypeOK
<1>5. \A t \in K : token[t].state # "new" /\ token[t].owner = c.account /\ token[t].kind = "reset"
  BY <1>2 DEF Live
<1>6. c.account \in Accounts /\ user[c.account].state # "new"
  BY <1>2 DEF Core, CallsOK, CallOK
<1>7. CallOK(h)'
  BY <1>1, <1>2, <1>4, <1>5, <1>6 DEF CallOK
<1>8. Draws(h, c) /\ Leaves(h, c)
  BY <1>1, <1>2 DEF Draws, Leaves
<1>9. (\A b \in Accounts : UserStep(b, c)) /\ (\A t \in Tokens : TokenStep(t, h))
  BY DEF UserStep, TokenStep, Present
<1>10. QED BY <1>2, <1>3, <1>7, <1>8, <1>9, CallStep DEF Core, AccountsTypeOK

LEMMA SupersedeStep ==
    ASSUME Core, NEW h \in Handlers, Supersede(h)
    PROVE  Core'
<1> DEFINE K == {t \in Tokens : Live(t, call[h].account, "reset")}
<1>1. K \in SUBSET Tokens /\ \A t \in K : Live(t, call[h].account, "reset")
  OBVIOUS
<1>2. call' = [call EXCEPT ![h] = [@ EXCEPT !.pc = "invalidate", !.kills = K]]
  BY DEF Supersede
<1> HIDE DEF K
<1>3. QED BY <1>1, <1>2, KillsStep DEF Supersede

LEMMA InvalidateStep ==
    ASSUME Core, NEW h \in Handlers, Invalidate(h)
    PROVE  Core'
<1> DEFINE K == {t \in call[h].kills : Live(t, call[h].account, "reset")}
<1>1. K \in SUBSET Tokens /\ \A t \in K : Live(t, call[h].account, "reset")
  BY DEF Core, AccountsTypeOK, Call
<1>2. call' = [call EXCEPT ![h] = [@ EXCEPT !.pc = "insert", !.kills = K]]
  BY Zenon DEF Invalidate
<1> HIDE DEF K
<1>3. QED BY <1>1, <1>2, KillsStep DEF Invalidate

LEMMA InsertResetStep ==
    ASSUME Core, NEW h \in Handlers, NEW t \in Tokens, InsertReset(h, t)
    PROVE  Core'
<1> DEFINE c == [call[h] EXCEPT !.pc = "commit", !.token = t]
<1>1. call[h] \in Call /\ call[h].flow # "register" /\ call[h].pc = "insert"
  BY DEF InsertReset, Core, AccountsTypeOK, CallsOK, CallOK
<1>2. /\ c \in Call /\ c.pc = "commit" /\ c.kills = call[h].kills /\ c.account = call[h].account
      /\ c.token = t /\ c.flow = call[h].flow
  BY <1>1 DEF Call, CallSteps
<1>3. call' = [call EXCEPT ![h] = c]
  BY DEF InsertReset, Core, AccountsTypeOK
<1> HIDE DEF c
<1>4. call'[h] = c
  BY <1>3 DEF Core, AccountsTypeOK
<1>5. Fresh(t) /\ token[t] = NoToken
  BY DEF InsertReset, Fresh, Core, AccountsTypeOK, Token
<1>6. UNCHANGED <<user, token, mail, inbox, orphan>> /\ CallOK(h)
  BY DEF InsertReset, Core, CallsOK
<1>7. CallOK(h)'
  BY <1>1, <1>2, <1>4, <1>5, <1>6 DEF CallOK
<1>8. Draws(h, c) /\ Leaves(h, c)
  BY <1>1, <1>2, <1>5 DEF Draws, Leaves
<1>9. (\A b \in Accounts : UserStep(b, c)) /\ (\A s \in Tokens : TokenStep(s, h))
  BY <1>6 DEF UserStep, TokenStep, Present
<1>10. QED BY <1>2, <1>3, <1>6, <1>7, <1>8, <1>9, CallStep DEF Core, AccountsTypeOK

\* What a COMMIT of replace_user_token does to each token.
LEMMA CommittedTokens ==
    ASSUME Core, NEW h \in Handlers, CommitReset(h), NEW t \in Tokens
    PROVE  /\ token'[t] \in Token \cup {NoToken} /\ TokenStep(t, h)
           /\ t = call[h].token =>
                 token'[t] = [state |-> "live", owner |-> call[h].account, kind |-> "reset"]
           /\ t \notin call[h].kills \cup {call[h].token} => token'[t] = token[t]
           /\ t \in call[h].kills => token[t].owner = call[h].account
<1>1. /\ call[h].account \in Accounts /\ user[call[h].account].state # "new"
      /\ call[h].token \in Tokens /\ token[call[h].token] = NoToken
  BY DEF CommitReset, Core, CallsOK, CallOK
<1>2. ASSUME t \in call[h].kills
      PROVE  token[t].state # "new" /\ token[t].owner = call[h].account /\ token[t].kind = "reset"
  BY <1>2 DEF Core, CallsOK, CallOK
<1>3. CASE t = call[h].token
  <2> DEFINE row == [state |-> "live", owner |-> call[h].account, kind |-> "reset"]
  <2>1. row \in Token /\ row.state = "live" /\ row.owner = call[h].account
    BY <1>1 DEF Token, Kinds
  <2>2. t \notin call[h].kills
    BY <1>1, <1>2, <1>3 DEF NoToken
  <2>3. token'[t] = row
    BY <1>3, <2>2 DEF CommitReset
  <2>4. \A g \in Handlers \ {h} : call[g].token # t
    BY <1>3 DEF CommitReset, Core, DrawnOnce
  <2>5. t = call[h].token =>
          token'[t] = [state |-> "live", owner |-> call[h].account, kind |-> "reset"]
    BY <2>3
  <2> HIDE DEF row
  <2>6. QED BY <1>1, <1>3, <2>1, <2>2, <2>3, <2>4, <2>5 DEF TokenStep
<1>4. CASE t # call[h].token /\ t \in call[h].kills
  <2> DEFINE row == [token[t] EXCEPT !.state = "consumed"]
  <2>1. token[t] \in Token
    BY <1>2, <1>4 DEF Core, AccountsTypeOK, NoToken
  <2>2. /\ row \in Token /\ row.state = "consumed" /\ row.owner = token[t].owner
        /\ row.kind = token[t].kind
    BY <2>1 DEF Token
  <2>3. token'[t] = row
    BY <1>4 DEF CommitReset
  <2> HIDE DEF row
  <2>4. QED BY <1>2, <1>4, <2>2, <2>3 DEF TokenStep
<1>5. CASE t # call[h].token /\ t \notin call[h].kills
  <2>1. token'[t] = token[t]
    BY <1>5 DEF CommitReset
  <2>2. QED BY <2>1, <1>5 DEF Core, AccountsTypeOK, TokenStep
<1>6. QED BY <1>3, <1>4, <1>5

LEMMA CommitResetStep ==
    ASSUME Core, NEW h \in Handlers, CommitReset(h)
    PROVE  Core'
<1>1. /\ token' \in [Tokens -> Token \cup {NoToken}]
      /\ \A t \in Tokens : TokenStep(t, h)
  <2>1. \A t \in Tokens : token'[t] \in Token \cup {NoToken} /\ TokenStep(t, h)
    BY CommittedTokens
  <2>2. token' = [t \in Tokens |-> token'[t]]
    BY DEF CommitReset
  <2>3. QED BY <2>1, <2>2
<1>2. Leaves(h, NoCall)
  BY DEF Leaves, CommitReset, Core, CallsOK, CallOK
<1>3. mail' \subseteq Tokens
  BY DEF CommitReset, Core, AccountsTypeOK, CallsOK, CallOK
<1>4. \A a \in Accounts : user'[a] = user[a]
  BY DEF CommitReset
<1>5. QED BY <1>1, <1>2, <1>3, <1>4, EndStep DEF CommitReset, Core, AccountsTypeOK, Present

\* A mail writes no row, and the inbox only grows.
LEMMA SendStep ==
    ASSUME Core, NEW t \in Tokens, Send(t)
    PROVE  Core'
<1>1. UNCHANGED <<user, token, call, orphan>> /\ inbox \subseteq inbox' /\ inbox' \subseteq Tokens
      /\ mail' \subseteq Tokens
  BY DEF Send, Core, AccountsTypeOK
<1>2. AccountsTypeOK' /\ DrawnOnce' /\ TokensOwned' /\ RedeemedOnce' /\ RegistrationWhole'
  BY <1>1 DEF Core, AccountsTypeOK, DrawnOnce, TokensOwned, RedeemedOnce, RegistrationWhole, Present
<1>3. ASSUME NEW h \in Handlers  PROVE CallOK(h)'
  <2>1. CallOK(h)
    BY DEF Core, CallsOK
  <2>2. QED BY <1>1, <2>1 DEF CallOK, Redeemed
<1>4. QED BY <1>2, <1>3 DEF Core, CallsOK

\* verify_email and reset_password take their token.
LEMMA ConsumeStep ==
    ASSUME Core, NEW h \in Handlers, NEW t \in Tokens, NEW kind \in Kinds, Redeemable(t, kind),
           NEW pc \in {"mark", "update"}, NEW pw \in Passwords \cup {Nil}, Consume(h, t, pc, pw),
           pc = "mark" => kind = "verify", pc = "update" => kind = "reset" /\ pw \in Passwords
    PROVE  Core'
<1> DEFINE row == [token[t] EXCEPT !.state = "consumed"]
           c == [NoCall EXCEPT !.pc = pc, !.account = token[t].owner, !.token = t, !.password = pw]
<1>1. token[t] \in Token /\ token[t].state = "live" /\ token[t].kind = kind /\ t \in inbox
  BY DEF Redeemable, Core, AccountsTypeOK, NoToken
<1>2. /\ row \in Token /\ row.state = "consumed" /\ row.owner = token[t].owner
      /\ row.kind = kind
  BY <1>1 DEF Token
<1>3. /\ c \in Call /\ c.pc = pc /\ c.account = token[t].owner /\ c.token = t
      /\ c.password = pw /\ c.kills = {} /\ c.flow = "none"
  BY <1>1 DEF Token, Call, NoCall, CallSteps
<1>4. token' = [token EXCEPT ![t] = row] /\ call' = [call EXCEPT ![h] = c]
  BY DEF Consume, Core, AccountsTypeOK
<1> HIDE DEF row, c
<1>5. /\ token' \in [Tokens -> Token \cup {NoToken}] /\ token'[t] = row
      /\ \A s \in Tokens \ {t} : token'[s] = token[s]
      /\ call'[h] = c /\ UNCHANGED <<user, mail, inbox, orphan>>
  BY <1>2, <1>4 DEF Core, AccountsTypeOK, Consume
<1>6. user[c.account].state # "new" /\ c.account \in Accounts
  BY <1>1, <1>3 DEF Core, TokensOwned, Token
<1>7. CallOK(h)'
  BY <1>1, <1>2, <1>3, <1>5, <1>6 DEF CallOK, Redeemed
<1>8. Draws(h, c)
  BY <1>1, <1>3 DEF Draws
<1>9. Leaves(h, c)
  BY DEF Leaves, Consume, Core, CallsOK, CallOK
<1>10. (\A b \in Accounts : UserStep(b, c)) /\ (\A s \in Tokens : TokenStep(s, h))
  BY <1>1, <1>2, <1>5 DEF UserStep, TokenStep, Present
<1>11. QED BY <1>3, <1>4, <1>5, <1>7, <1>8, <1>9, <1>10, CallStep DEF Core, AccountsTypeOK

LEMMA RedeemStep ==
    ASSUME Core, NEW h \in Handlers, NEW t \in Tokens,
           VerifyEmail(h, t) \/ \E pw \in Passwords : ResetPassword(h, t, pw)
    PROVE  Core'
<1>1. CASE VerifyEmail(h, t)
  BY <1>1, ConsumeStep DEF VerifyEmail, Kinds
<1>2. ASSUME NEW pw \in Passwords, ResetPassword(h, t, pw)  PROVE Core'
  BY <1>2, ConsumeStep DEF ResetPassword, Kinds
<1>3. QED BY <1>1, <1>2

\* .. and then write the user's row, if it is there.
LEMMA WriteStep ==
    ASSUME Core, NEW h \in Handlers, Mark(h) \/ Update(h)
    PROVE  Core'
<1> DEFINE a == call[h].account
<1>1. a \in Accounts /\ user[a] \in User /\ call[h].flow # "register"
      /\ UNCHANGED <<token, mail, inbox, orphan>> /\ EndCall(h)
  BY DEF Mark, Update, Core, CallsOK, CallOK, AccountsTypeOK, NoUser
<1>2. PICK row \in User : /\ row.state = user[a].state
                          /\ user' = IF Present(a) THEN [user EXCEPT ![a] = row] ELSE user
  <2>1. CASE Mark(h)
    <3> DEFINE row == [user[a] EXCEPT !.verified = TRUE]
    <3>1. row \in User /\ row.state = user[a].state
      BY <1>1 DEF User
    <3>2. user' = IF Present(a) THEN [user EXCEPT ![a] = row] ELSE user
      BY <2>1 DEF Mark, Core, AccountsTypeOK
    <3>3. QED BY <3>1, <3>2
  <2>2. CASE Update(h)
    <3> DEFINE row == [user[a] EXCEPT !.password = call[h].password]
    <3>1. row \in User /\ row.state = user[a].state
      BY <1>1, <2>2 DEF User, Update, Core, CallsOK, CallOK
    <3>2. user' = IF Present(a) THEN [user EXCEPT ![a] = row] ELSE user
      BY <2>2 DEF Update, Core, AccountsTypeOK
    <3>3. QED BY <3>1, <3>2
  <2>3. QED BY <2>1, <2>2
<1>3. /\ user' \in [Accounts -> User \cup {NoUser}]
      /\ \A b \in Accounts : user'[b].state = user[b].state
  BY <1>1, <1>2 DEF Core, AccountsTypeOK
<1>4. Leaves(h, NoCall)
  BY <1>1 DEF Leaves
<1>5. \A t \in Tokens : TokenStep(t, h)
  BY <1>1 DEF TokenStep
<1>6. QED BY <1>1, <1>3, <1>4, <1>5, EndStep DEF Core, AccountsTypeOK, Present

LEMMA AbortStep ==
    ASSUME Core, NEW h \in Handlers, StopCall(h)
    PROVE  Core'
<1>1. /\ orphan' \subseteq Accounts /\ orphan \subseteq orphan' /\ Leaves(h, NoCall)
      /\ UNCHANGED <<user, token, mail, inbox>> /\ EndCall(h)
  BY DEF StopCall, Leaves, Core, AccountsTypeOK, CallsOK, CallOK
<1>2. (\A a \in Accounts : user'[a] = user[a]) /\ (\A t \in Tokens : TokenStep(t, h))
  BY <1>1 DEF TokenStep
<1>3. QED BY <1>1, <1>2, EndStep DEF Core, AccountsTypeOK, Present

LEMMA CoreInit == AccountsInit => Core
<1> SUFFICES ASSUME AccountsInit  PROVE Core
  OBVIOUS
<1>1. AccountsTypeOK
  BY EndRecord DEF AccountsInit, AccountsTypeOK
<1>2. CallsOK
  BY EndRecord DEF AccountsInit, CallsOK, CallOK
<1>3. DrawnOnce /\ RedeemedOnce
  BY EndRecord DEF AccountsInit, DrawnOnce, RedeemedOnce
<1>4. TokensOwned /\ RegistrationWhole
  BY DEF AccountsInit, TokensOwned, RegistrationWhole, NoToken, NoUser, Present
<1>5. QED BY <1>1, <1>2, <1>3, <1>4 DEF Core

LEMMA CoreNext == Core /\ [AccountsNext]_accountVars => Core'
<1> SUFFICES ASSUME Core, [AccountsNext]_accountVars  PROVE Core'
  OBVIOUS
<1>1. ASSUME NEW h \in Handlers, NEW a \in Accounts,
             \/ \E e \in Emails, pw \in Passwords : Register(h, a, e, pw)
             \/ Resend(h, a) \/ RequestReset(h, a)
      PROVE  Core'
  BY <1>1, RegisterStep, AskStep
<1>2. ASSUME NEW h \in Handlers, CallStatement(h)  PROVE Core'
  <2>1. CASE InsertFails(h)
    BY <2>1, GiveUpStep DEF InsertFails
  <2>2. CASE Acquire(h) \/ Undo(h) \/ Supersede(h) \/ Invalidate(h) \/ CommitReset(h)
    BY <2>2, AcquireStep, UndoStep, SupersedeStep, InvalidateStep, CommitResetStep
  <2>3. CASE Mark(h) \/ Update(h) \/ StopCall(h)
    BY <2>3, WriteStep, AbortStep
  <2>4. CASE \E t \in Tokens : InsertVerify(h, t) \/ InsertReset(h, t)
    BY <2>4, InsertVerifyStep, InsertResetStep
  <2>5. QED BY <1>2, <2>1, <2>2, <2>3, <2>4 DEF CallStatement
<1>3. CASE UNCHANGED accountVars
  BY <1>3 DEF accountVars, Core, AccountsTypeOK, CallsOK, CallOK, Redeemed, DrawnOnce, TokensOwned, RedeemedOnce,
              RegistrationWhole, Present
<1>4. QED BY <1>1, <1>2, <1>3, RedeemStep, SendStep DEF AccountsNext

-----------------------------------------------------------------------------
(* The cap on mails.                                                       *)

LEMMA HoldersFinite == IsFiniteSet(Holders) /\ Cardinality(Holders) \in Nat
<1>1. Holders \in SUBSET Handlers /\ IsFiniteSet(Handlers)
  BY AccountAssumption DEF Holders
<1>2. IsFiniteSet(Holders)
  BY <1>1, FS_Subset
<1>3. QED BY <1>2, FS_CardinalityType

\* No mail and no permit is added.
LEMMA NoMore ==
    ASSUME AccountsIInv, Holders' \subseteq Holders, mail' = mail
    PROVE  IsFiniteSet(mail)' /\ CapRespected'
<1>1. Cardinality(Holders') <= Cardinality(Holders) /\ Cardinality(Holders') \in Nat
  BY HoldersFinite, FS_Subset, FS_CardinalityType
<1>2. Cardinality(mail) \in Nat /\ Cardinality(Holders) \in Nat
  BY HoldersFinite, FS_CardinalityType DEF AccountsIInv
<1>3. QED BY <1>1, <1>2, AccountAssumption DEF AccountsIInv, CapRespected

\* The permit is handed to a mail.
LEMMA HandedOver ==
    ASSUME AccountsIInv, NEW h \in Holders, Holders' = Holders \ {h}, NEW t, mail' = mail \cup {t}
    PROVE  IsFiniteSet(mail)' /\ CapRespected'
<1>1. IsFiniteSet(mail') /\ Cardinality(mail') <= Cardinality(mail) + 1
      /\ Cardinality(mail) \in Nat /\ Cardinality(mail') \in Nat
  <2>1. IsFiniteSet(mail)
    BY DEF AccountsIInv
  <2>2. IsFiniteSet(mail \cup {t}) /\ Cardinality(mail) \in Nat
        /\ Cardinality(mail \cup {t}) =
              IF t \in mail THEN Cardinality(mail) ELSE Cardinality(mail) + 1
    BY <2>1, FS_AddElement, FS_CardinalityType
  <2>3. QED BY <2>2
<1>2. Cardinality(Holders') = Cardinality(Holders) - 1 /\ Cardinality(Holders) \in Nat
  BY HoldersFinite, FS_RemoveElement
<1>3. QED BY <1>1, <1>2, AccountAssumption DEF AccountsIInv, CapRespected

LEMMA CapNext ==
    ASSUME AccountsIInv, [AccountsNext]_accountVars
    PROVE  IsFiniteSet(mail)' /\ CapRespected'
<1>1. call \in [Handlers -> Call]
  BY DEF AccountsIInv, AccountsTypeOK
<1>2. ASSUME NEW h \in Handlers, call' = [call EXCEPT ![h] = NoCall], mail' = mail
      PROVE  Holders' \subseteq Holders
  BY <1>1, <1>2 DEF Holders, NoCall
<1>3. ASSUME NEW h \in Handlers, NEW a \in Accounts,
             \/ \E e \in Emails, pw \in Passwords : Register(h, a, e, pw)
             \/ Resend(h, a) \/ RequestReset(h, a)
      PROVE  Holders' \subseteq Holders /\ mail' = mail
  <2>1. PICK flow : Start(h, "permit", flow, a)
    BY <1>3 DEF Register, Resend, RequestReset
  <2>2. mail' = mail
    BY <1>3 DEF Register, Resend, RequestReset
  <2>3. QED BY <1>1, <2>1, <2>2 DEF Start, Holders, NoCall
<1>4. ASSUME NEW h \in Handlers, NEW t \in Tokens,
             VerifyEmail(h, t) \/ \E pw \in Passwords : ResetPassword(h, t, pw)
      PROVE  Holders' \subseteq Holders /\ mail' = mail
  <2>1. CASE VerifyEmail(h, t)
    BY <1>1, <2>1 DEF VerifyEmail, Consume, Holders, NoCall
  <2>2. CASE \E pw \in Passwords : ResetPassword(h, t, pw)
    BY <1>1, <2>2 DEF ResetPassword, Consume, Holders, NoCall
  <2>3. QED BY <1>4, <2>1, <2>2
<1>5. ASSUME NEW h \in Handlers, call[h].pc # "idle", GiveUp(h), mail' = mail
      PROVE  Holders' \subseteq Holders
  BY <1>1, <1>2, <1>5 DEF GiveUp, Goto, EndCall, Holders, Call
<1>6. ASSUME NEW h \in Handlers, Acquire(h)
      PROVE  IsFiniteSet(mail)' /\ CapRespected'
  <2>1. CASE ~FreePermit
    BY <1>5, <1>6, <2>1, NoMore DEF Acquire
  <2>2. CASE FreePermit
    <3>1. Holders' \subseteq Holders \cup {h} /\ mail' = mail
      BY <1>1, <1>6, <2>2 DEF Acquire, Goto, Holders, Call
    <3>2. IsFiniteSet(Holders \cup {h}) /\ Cardinality(Holders \cup {h}) <= Cardinality(Holders) + 1
          /\ Cardinality(Holders \cup {h}) \in Nat
      BY HoldersFinite, FS_AddElement, FS_CardinalityType
    <3>3. Cardinality(Holders') <= Cardinality(Holders \cup {h}) /\ Cardinality(Holders') \in Nat
      BY <3>1, <3>2, FS_Subset, FS_CardinalityType
    <3>4. Cardinality(mail) \in Nat /\ Cardinality(Holders) \in Nat
      BY HoldersFinite, FS_CardinalityType DEF AccountsIInv
    <3>5. QED BY <2>2, <3>1, <3>2, <3>3, <3>4, AccountAssumption
              DEF AccountsIInv, CapRespected, FreePermit
  <2>3. QED BY <2>1, <2>2
<1>7. ASSUME NEW h \in Handlers, CallStatement(h)  PROVE IsFiniteSet(mail)' /\ CapRespected'
  <2>1. CASE InsertFails(h)
    BY <2>1, <1>5, NoMore DEF InsertFails
  <2>2. CASE Undo(h) \/ Mark(h) \/ Update(h) \/ StopCall(h)
    <3>1. call' = [call EXCEPT ![h] = NoCall] /\ mail' = mail
      BY <2>2 DEF Undo, Mark, Update, StopCall, EndCall
    <3>2. QED BY <3>1, <1>2, NoMore
  <2>3. CASE Supersede(h) \/ Invalidate(h) \/ \E t \in Tokens : InsertReset(h, t)
    <3>1. Holders' \subseteq Holders /\ mail' = mail
      BY <2>3, <1>1 DEF Supersede, Invalidate, InsertReset, Holders, Call
    <3>2. QED BY <3>1, NoMore
  <2>4. ASSUME NEW t \in Tokens, InsertVerify(h, t)  PROVE IsFiniteSet(mail)' /\ CapRespected'
    <3>1. h \in Holders /\ Holders' = Holders \ {h} /\ mail' = mail \cup {t}
      BY <2>4, <1>1 DEF InsertVerify, EndCall, Holders, NoCall
    <3>2. QED BY <3>1, HandedOver
  <2>5. CASE CommitReset(h)
    <3>1. h \in Holders /\ Holders' = Holders \ {h} /\ mail' = mail \cup {call[h].token}
      BY <2>5, <1>1 DEF CommitReset, EndCall, Holders, NoCall
    <3>2. QED BY <3>1, HandedOver
  <2>6. QED BY <1>6, <1>7, <2>1, <2>2, <2>3, <2>4, <2>5 DEF CallStatement
<1>8. ASSUME NEW t \in Tokens, Send(t)  PROVE IsFiniteSet(mail)' /\ CapRespected'
  <2>1. Holders' = Holders /\ mail' = mail \ {t}
    BY <1>8 DEF Send, Holders
  <2>2. IsFiniteSet(mail') /\ Cardinality(mail') <= Cardinality(mail)
        /\ Cardinality(mail') \in Nat /\ Cardinality(mail) \in Nat
    <3>1. IsFiniteSet(mail) /\ mail \ {t} \in SUBSET mail
      BY DEF AccountsIInv
    <3>2. IsFiniteSet(mail \ {t}) /\ Cardinality(mail \ {t}) <= Cardinality(mail)
          /\ Cardinality(mail) \in Nat /\ Cardinality(mail \ {t}) \in Nat
      BY <3>1, FS_Subset, FS_CardinalityType
    <3>3. QED BY <2>1, <3>2
  <2>3. QED BY <2>1, <2>2, HoldersFinite, AccountAssumption DEF AccountsIInv, CapRespected
<1>9. CASE UNCHANGED accountVars
  BY <1>9 DEF accountVars, AccountsIInv, CapRespected, Holders
<1>10. QED BY <1>3, <1>4, <1>7, <1>8, <1>9, NoMore DEF AccountsNext

-----------------------------------------------------------------------------
(* The theorems.                                                           *)

LEMMA InitIInv == AccountsInit => AccountsIInv
<1> SUFFICES ASSUME AccountsInit  PROVE AccountsIInv
  OBVIOUS
<1>1. Core
  BY CoreInit
<1>2. mail = {} /\ Holders = {}
  BY DEF AccountsInit, Holders, NoCall
<1>3. QED BY <1>1, <1>2, FS_EmptySet, AccountAssumption DEF Core, AccountsIInv, CapRespected

LEMMA NextIInv == AccountsIInv /\ [AccountsNext]_accountVars => AccountsIInv'
  BY CoreNext, CapNext DEF Core, AccountsIInv

\* The inductive invariant: what a handler knows of the rows it works on, and
\* which handler owns which token, stays true whatever the others commit
\* between its statements (service.rs, auth_repo.rs).
THEOREM Inductive == AccountsSpec => []AccountsIInv
  BY InitIInv, NextIInv, PTL DEF AccountsSpec

\* Accounts, tokens and calls are always well-formed.
THEOREM TypeCorrect == AccountsSpec => []AccountsTypeOK
<1>1. AccountsIInv => AccountsTypeOK
  BY DEF AccountsIInv
<1>2. QED BY <1>1, Inductive, PTL

\* No link is acted on twice (auth_repo.rs:357-374).
THEOREM Once == AccountsSpec => []RedeemedOnce
<1>1. AccountsIInv => RedeemedOnce
  BY DEF AccountsIInv
<1>2. QED BY <1>1, Inductive, PTL

\* A registration leaves a link, nothing, or a recorded orphan
\* (service.rs:185-206).
THEOREM Whole == AccountsSpec => []RegistrationWhole
<1>1. AccountsIInv => RegistrationWhole
  BY DEF AccountsIInv
<1>2. QED BY <1>1, Inductive, PTL

\* The cap on mails in flight holds for any number of handlers
\* (service.rs:341-364).
THEOREM Capped == AccountsSpec => []CapRespected
<1>1. AccountsIInv => CapRespected
  BY DEF AccountsIInv
<1>2. QED BY <1>1, Inductive, PTL

-----------------------------------------------------------------------------
\* The part of ChangedByLink that one account sees.
LinkChanged(a) ==
    Present(a) /\ (user'[a].password # user[a].password \/ user'[a].verified # user[a].verified) =>
       \E h \in Handlers :
          /\ call[h].pc = (IF user'[a].verified # user[a].verified THEN "mark" ELSE "update")
          /\ call[h].token \in inbox
          /\ token[call[h].token].owner = a
          /\ token[call[h].token].kind =
                (IF user'[a].verified # user[a].verified THEN "verify" ELSE "reset")

LEMMA LinkChangedNext ==
    ASSUME AccountsIInv, [AccountsNext]_accountVars, NEW a \in Accounts
    PROVE  LinkChanged(a)
<1>1. CASE user'[a] = user[a]
  BY <1>1 DEF LinkChanged
<1>2. ASSUME NEW h \in Handlers, NEW b \in Accounts, NEW e \in Emails, NEW pw \in Passwords,
             Register(h, b, e, pw)
      PROVE  LinkChanged(a)
  <2>1. b # a => user'[a] = user[a]
    BY <1>2 DEF Register, AccountsIInv, AccountsTypeOK
  <2>2. b = a => ~Present(a)
    BY <1>2 DEF Register, Present
  <2>3. QED BY <1>1, <2>1, <2>2 DEF LinkChanged
<1>3. ASSUME NEW h \in Handlers, Undo(h)  PROVE LinkChanged(a)
  <2>1. user'[a].password = user[a].password /\ user'[a].verified = user[a].verified
    <3>1. CASE call[h].account # a
      BY <1>3, <3>1 DEF Undo, AccountsIInv, AccountsTypeOK
    <3>2. CASE call[h].account = a
      <4>1. user[a] \in User
        BY <1>3, <3>2 DEF Undo, AccountsIInv, AccountsTypeOK, CallsOK, CallOK, NoUser
      <4>2. user'[a] = [user[a] EXCEPT !.state = "gone"]
        BY <1>3, <3>2 DEF Undo, AccountsIInv, AccountsTypeOK
      <4>3. QED BY <4>1, <4>2 DEF User
    <3>3. QED BY <3>1, <3>2
  <2>2. QED BY <2>1 DEF LinkChanged
<1>4. ASSUME NEW h \in Handlers, Mark(h)  PROVE LinkChanged(a)
  <2>1. CASE call[h].account # a \/ ~Present(a)
    BY <1>1, <1>4, <2>1 DEF Mark, AccountsIInv, AccountsTypeOK
  <2>2. CASE call[h].account = a /\ Present(a)
    <3>1. user[a] \in User
      BY <2>2 DEF AccountsIInv, AccountsTypeOK, Present, NoUser
    <3>2. user'[a] = [user[a] EXCEPT !.verified = TRUE]
      BY <1>4, <2>2 DEF Mark, AccountsIInv, AccountsTypeOK
    <3>3. user'[a].password = user[a].password
      BY <3>1, <3>2 DEF User
    <3>4. /\ call[h].pc = "mark" /\ call[h].token \in inbox
          /\ token[call[h].token].owner = a /\ token[call[h].token].kind = "verify"
      BY <1>4, <2>2 DEF Mark, AccountsIInv, CallsOK, CallOK, Redeemed
    <3>5. CASE user'[a].verified = user[a].verified
      BY <3>3, <3>5, Zenon DEF LinkChanged
    <3>6. CASE user'[a].verified # user[a].verified
      BY <3>4, <3>6, Zenon DEF LinkChanged
    <3>7. QED BY <3>5, <3>6
  <2>3. QED BY <2>1, <2>2
<1>5. ASSUME NEW h \in Handlers, Update(h)  PROVE LinkChanged(a)
  <2>1. CASE call[h].account # a \/ ~Present(a)
    BY <1>1, <1>5, <2>1 DEF Update, AccountsIInv, AccountsTypeOK
  <2>2. CASE call[h].account = a /\ Present(a)
    <3>1. user[a] \in User
      BY <2>2 DEF AccountsIInv, AccountsTypeOK, Present, NoUser
    <3>2. user'[a] = [user[a] EXCEPT !.password = call[h].password]
      BY <1>5, <2>2 DEF Update, AccountsIInv, AccountsTypeOK
    <3>3. user'[a].verified = user[a].verified
      BY <3>1, <3>2 DEF User
    <3>4. /\ call[h].pc = "update" /\ call[h].token \in inbox
          /\ token[call[h].token].owner = a /\ token[call[h].token].kind = "reset"
      BY <1>5, <2>2 DEF Update, AccountsIInv, CallsOK, CallOK, Redeemed
    <3>5. QED BY <3>3, <3>4, Zenon DEF LinkChanged
  <2>3. QED BY <2>1, <2>2
<1>6. ASSUME NEW h \in Handlers, NEW b \in Accounts, Resend(h, b) \/ RequestReset(h, b)
      PROVE  LinkChanged(a)
  BY <1>1, <1>6 DEF Resend, RequestReset
<1>7. ASSUME NEW h \in Handlers, NEW t \in Tokens,
             \/ VerifyEmail(h, t) \/ \E pw \in Passwords : ResetPassword(h, t, pw)
             \/ InsertVerify(h, t) \/ InsertReset(h, t)
      PROVE  LinkChanged(a)
  BY <1>1, <1>7 DEF VerifyEmail, ResetPassword, Consume, InsertVerify, InsertReset
<1>8. ASSUME NEW h \in Handlers, CallStatement(h)  PROVE LinkChanged(a)
  <2>1. CASE \/ Acquire(h) \/ InsertFails(h) \/ Supersede(h) \/ Invalidate(h)
             \/ CommitReset(h) \/ StopCall(h)
    BY <1>1, <2>1 DEF Acquire, InsertFails, Supersede, Invalidate, CommitReset, StopCall
  <2>2. QED BY <1>3, <1>4, <1>5, <1>7, <1>8, <2>1 DEF CallStatement
<1>9. ASSUME NEW t \in Tokens, Send(t)  PROVE LinkChanged(a)
  BY <1>1, <1>9 DEF Send
<1>10. CASE UNCHANGED accountVars
  BY <1>1, <1>10 DEF accountVars
<1>11. QED BY <1>2, <1>6, <1>7, <1>8, <1>9, <1>10 DEF AccountsNext

\* Only the holder of a delivered link of the right purpose and account
\* changes a password or a verified flag (auth_repo.rs:360-374).
THEOREM LinkOnly == AccountsSpec => ChangedByLink
<1>1. AccountsIInv /\ [AccountsNext]_accountVars => \A a \in Accounts : LinkChanged(a)
  BY LinkChangedNext
<1>2. (\A a \in Accounts : LinkChanged(a)) =>
      [\A a \in Accounts :
          Present(a) /\ (user'[a].password # user[a].password
                         \/ user'[a].verified # user[a].verified) =>
          \E h \in Handlers :
              /\ call[h].pc = (IF user'[a].verified # user[a].verified THEN "mark" ELSE "update")
              /\ call[h].token \in inbox
              /\ token[call[h].token].owner = a
              /\ token[call[h].token].kind =
                    (IF user'[a].verified # user[a].verified THEN "verify" ELSE "reset")]_accountVars
  BY DEF LinkChanged
<1>3. QED BY <1>1, <1>2, Inductive, PTL DEF AccountsSpec, ChangedByLink

\* The part of NeverNullified that one account sees.
LinkKept(a) ==
    (\E t \in Tokens : Live(t, a, "reset")) /\ ~(\E t \in Tokens : Live(t, a, "reset")') =>
       \/ ~Present(a)'
       \/ \E h \in Handlers : call[h].pc = "idle" /\ call'[h].pc = "update"
                              /\ call'[h].account = a

LEMMA LinkKeptNext ==
    ASSUME AccountsIInv, [AccountsNext]_accountVars, NEW a \in Accounts
    PROVE  LinkKept(a)
<1> SUFFICES ASSUME NEW t \in Tokens, Live(t, a, "reset"),
                    ~(\E s \in Tokens : Live(s, a, "reset")')
             PROVE  \/ ~Present(a)'
                    \/ \E h \in Handlers : /\ call[h].pc = "idle" /\ call'[h].pc = "update"
                                           /\ call'[h].account = a
  BY DEF LinkKept
<1>1. token'[t] # token[t]
  BY DEF Live
<1>2. token[t].state = "live" /\ token[t].owner = a /\ token[t].kind = "reset"
      /\ token \in [Tokens -> Token \cup {NoToken}]
  BY DEF Live, AccountsIInv, AccountsTypeOK
<1>3. Core
  BY DEF AccountsIInv, Core
<1>4. ASSUME NEW h \in Handlers, CommitReset(h)  PROVE FALSE
  <2>1. call[h].token \in Tokens /\ token[call[h].token] = NoToken
    BY <1>4 DEF CommitReset, AccountsIInv, CallsOK, CallOK
  <2>2. t # call[h].token
    BY <2>1, <1>2 DEF NoToken
  <2>3. call[h].account = a
    BY <1>1, <1>2, <1>3, <1>4, <2>2, CommittedTokens
  <2>4. token'[call[h].token] = [state |-> "live", owner |-> a, kind |-> "reset"]
    BY <1>3, <1>4, <2>1, <2>3, CommittedTokens
  <2>5. QED BY <2>1, <2>4 DEF Live
<1>5. ASSUME NEW h \in Handlers, Undo(h)  PROVE ~Present(a)'
  <2>1. call[h].account = a
    BY <1>1, <1>2, <1>5 DEF Undo
  <2>2. user[a] \in User
    BY <1>5, <2>1 DEF Undo, AccountsIInv, AccountsTypeOK, CallsOK, CallOK, NoUser
  <2>3. user'[a] = [user[a] EXCEPT !.state = "gone"]
    BY <1>5, <2>1 DEF Undo, AccountsIInv, AccountsTypeOK
  <2>4. user'[a].state = "gone"
    BY <2>2, <2>3 DEF User
  <2>5. QED BY <2>4 DEF Present
<1>6. ASSUME NEW h \in Handlers, NEW s \in Tokens, InsertVerify(h, s)  PROVE FALSE
  BY <1>1, <1>2, <1>6 DEF InsertVerify, Fresh
<1>7. ASSUME NEW h \in Handlers, NEW s \in Tokens, VerifyEmail(h, s)  PROVE FALSE
  BY <1>1, <1>2, <1>7 DEF VerifyEmail, Consume, Redeemable
<1>8. ASSUME NEW h \in Handlers, NEW s \in Tokens, NEW pw \in Passwords, ResetPassword(h, s, pw)
      PROVE  call[h].pc = "idle" /\ call'[h].pc = "update" /\ call'[h].account = a
  <2>1. s = t
    BY <1>1, <1>2, <1>8 DEF ResetPassword, Consume
  <2>2. call'[h] = [NoCall EXCEPT !.pc = "update", !.account = token[t].owner,
                                  !.token = t, !.password = pw]
    BY <1>8, <2>1 DEF ResetPassword, Consume, AccountsIInv, AccountsTypeOK
  <2>3. call'[h].pc = "update" /\ call'[h].account = a
    BY <1>2, <2>2 DEF NoCall
  <2>4. QED BY <2>3, <1>8 DEF ResetPassword, Consume
<1>9. ASSUME token' = token  PROVE FALSE
  BY <1>1, <1>9
<1>10. ASSUME NEW h \in Handlers, CallStatement(h)  PROVE ~Present(a)'
  <2>1. CASE \/ Acquire(h) \/ InsertFails(h) \/ Supersede(h) \/ Invalidate(h)
             \/ Mark(h) \/ Update(h) \/ StopCall(h) \/ \E s \in Tokens : InsertReset(h, s)
    BY <1>9, <2>1 DEF Acquire, InsertFails, Supersede, Invalidate, Mark, Update, StopCall, InsertReset
  <2>2. QED BY <1>4, <1>5, <1>6, <1>10, <2>1 DEF CallStatement
<1>11. ASSUME NEW h \in Handlers, NEW b \in Accounts,
              \/ \E e \in Emails, pw \in Passwords : Register(h, b, e, pw)
              \/ Resend(h, b) \/ RequestReset(h, b)
       PROVE  FALSE
  BY <1>9, <1>11 DEF Register, Resend, RequestReset
<1>12. CASE UNCHANGED accountVars
  BY <1>9, <1>12 DEF accountVars
<1>13. ASSUME NEW s \in Tokens, Send(s)  PROVE FALSE
  BY <1>9, <1>13 DEF Send
<1>14. QED BY <1>7, <1>8, <1>10, <1>11, <1>12, <1>13 DEF AccountsNext

\* A request for a new reset link never takes the old one away without
\* bringing its replacement, wherever it stops (auth_repo.rs:219-223).
THEOREM NotNullified == AccountsSpec => NeverNullified
<1>1. AccountsIInv /\ [AccountsNext]_accountVars => \A a \in Accounts : LinkKept(a)
  BY LinkKeptNext
<1>2. (\A a \in Accounts : LinkKept(a)) =>
      [\A a \in Accounts :
          (\E t \in Tokens : Live(t, a, "reset")) /\ ~(\E t \in Tokens : Live(t, a, "reset")') =>
          \/ ~Present(a)'
          \/ \E h \in Handlers : call[h].pc = "idle" /\ call'[h].pc = "update"
                                 /\ call'[h].account = a]_accountVars
  BY DEF LinkKept
<1>3. QED BY <1>1, <1>2, Inductive, PTL DEF AccountsSpec, NeverNullified
=============================================================================
