--------------------------- MODULE ApiConnectionProofs ---------------------------
(***************************************************************************)
(* What holds of the client library for any number of logins and rotations *)
(* and for every set of faults: the types, that the token of the           *)
(* Credentials object belongs to its login, and that object and server     *)
(* agree on the system as long as there was no mishap.                     *)
(***************************************************************************)
EXTENDS ApiConnection, TLAPS

\* A token that can stand beside a login.
Fits(l, t) == l = NoLogin \/ t = NoToken \/ t[1] = l

\* While a call is under way: who it speaks for, and whose token its answer has.
SpeaksForLogin ==
    past \cap {"store", "crash", "cut"} = {} /\ call.at # "idle" /\ call.op \in WithLogin =>
        call.who = login
ReplyFits ==
    call.at = "reply" /\ call.reply # NoToken =>
        /\ call.reply[1] = call.who
        /\ call.op \in WithLogin \/ (call.op = "register" /\ call.kind = "ok")
Anonymous == call.at = "sent" /\ call.op \notin WithLogin => call.who = NoLogin

\* Whose token is in the object: once Register has the answer it is the token of
\* the login it is about to set.
TokenFits ==
    past \cap {"cut", "store", "crash"} = {} =>
        IF call.at = "done" /\ call.op = "register" /\ call.kind = "ok"
          THEN Fits(call.who, token)
          ELSE Fits(login, token)

TokenInv == TypeOK /\ SpeaksForLogin /\ ReplyFits /\ Anonymous /\ TokenFits

\* The systems the server has, as seen from the call under way.
Handled  == call.at \in {"reply", "done"} /\ call.kind = "ok"
Expected ==
    CASE Handled /\ call.op = "register"   -> {call.who}
      [] Handled /\ call.op = "deregister" -> {}
      [] OTHER                             -> {login} \ {NoLogin}
SystemsAgree ==
    past = {} =>
        /\ live = Expected
        /\ call.at # "idle" /\ call.op = "register" => login = NoLogin
        /\ call.at \in {"reply", "done"} => call.kind # "gateway"
        /\ call.at = "done" => call.kind = "ok"
        /\ Handled /\ call.op = "register" => call.who # NoLogin

-----------------------------------------------------------------------------
LEMMA NoCallOK == NoCall \in Calls
  BY DEF NoCall, Calls, Tokens, Functions

\* An answer leaves a proper call and bounded rotations, and names no token or one
\* of the login it is for.
LEMMA AnswerOK ==
  ASSUME TypeOK, NEW l \in Logins, NEW kind \in {"ok", "error"}, Answer(l, kind)
  PROVE  /\ rot' \in [Logins -> 0..MaxRot]
         /\ \E t \in Tokens : /\ t = NoToken \/ t[1] = l
                             /\ Answered(l, kind, t)
  <1>1. rot \in [Logins -> 0..MaxRot] /\ rot[l] \in 0..MaxRot
    BY DEF TypeOK
  <1>2. NoToken \in Tokens /\ <<l, rot[l]>> \in Tokens /\ <<l, rot[l] + 1>> \in Tokens
    BY <1>1, BoundsAssumption DEF Tokens
  <1>3. rot' \in [Logins -> 0..MaxRot]
    BY <1>1, BoundsAssumption DEF Answer
  <1>4. <<l, rot[l]>>[1] = l /\ <<l, rot[l] + 1>>[1] = l
    OBVIOUS
  <1> QED
    BY <1>2, <1>3, <1>4 DEF Answer

LEMMA AnsweredOK ==
  ASSUME TypeOK, NEW l \in Logins \cup {NoLogin}, NEW t \in Tokens,
         NEW kind \in {"ok", "error", "gateway"}, Answered(l, kind, t)
  PROVE  call' \in Calls
  BY DEF TypeOK, Answered, Calls, Tokens

LEMMA InitTypeOK == Init => TypeOK
  <1> SUFFICES ASSUME Init PROVE TypeOK
    OBVIOUS
  <1>1. rot \in [Logins -> 0..MaxRot]
    BY BoundsAssumption DEF Init
  <1>2. call \in Calls
    BY NoCallOK DEF Init
  <1> QED
    BY <1>1, <1>2 DEF Init, TypeOK, Tokens, Verdicts

LEMMA NextTypeOK == TypeOK /\ [Next]_vars => TypeOK'
  <1> SUFFICES ASSUME TypeOK, [Next]_vars PROVE TypeOK'
    OBVIOUS
  <1> USE DEF server, creds
  <1>0. \A m : Mishap(m) => past' \subseteq Mishaps \cup {"again"}
    BY FaultsAssumption DEF Mishap, TypeOK
  <1>a. \A op : {DoFailed(op), CredFailed(op), EnrichFailed(op)} \subseteq Verdicts
    BY DEF DoFailed, CredFailed, EnrichFailed, Verdicts
  <1>b. \A v \in Verdicts : Return(v) => call' \in Calls /\ verdict' \in Verdicts
    BY NoCallOK DEF Return
  <1>c. {"none", "ok", "error", "Registered"} \subseteq Verdicts
    BY DEF Verdicts
  <1>1. CASE UNCHANGED vars
    BY <1>1 DEF TypeOK, vars
  <1>2. ASSUME NEW op \in Functions, Request(op) PROVE TypeOK'
    <2>1. [NoCall EXCEPT !.at = "sent", !.op = op, !.sent = token,
             !.who = IF op \in WithLogin THEN login ELSE NoLogin] \in Calls
      BY NoCallOK DEF TypeOK, Calls, NoCall
    <2>2. call' \in Calls /\ verdict' \in Verdicts
      BY <1>2, <1>a, <1>b, <1>c, <2>1 DEF Request
    <2>3. past' \subseteq Mishaps \cup {"again"}
      BY <1>2, <1>0 DEF Request, TypeOK
    <2> QED
      BY <1>2, <2>2, <2>3 DEF Request, TypeOK
  <1>3. CASE ServeRegister
    <2>1. PICK l \in Logins \ issued : issued' = issued \cup {l} /\ live' = live \cup {l}
                                       /\ Answer(l, "ok")
      BY <1>3 DEF ServeRegister
    <2>2. rot' \in [Logins -> 0..MaxRot] /\ call' \in Calls
      BY <2>1, AnswerOK, AnsweredOK
    <2> QED
      BY <1>3, <2>1, <2>2 DEF ServeRegister, TypeOK
  <1>4. CASE ServeSystem
    <2>1. PICK kind \in {"ok", "error"} :
             /\ Answer(call.who, kind)
             /\ live' = IF kind = "ok" /\ call.op = "deregister" THEN live \ {call.who} ELSE live
      BY <1>4 DEF ServeSystem
    <2>2. call.who \in Logins
      BY <1>4 DEF ServeSystem, TypeOK
    <2>3. rot' \in [Logins -> 0..MaxRot] /\ call' \in Calls
      BY <2>1, <2>2, AnswerOK, AnsweredOK
    <2>4. live' \subseteq live /\ flagged' \in BOOLEAN
      BY <1>4, <2>1 DEF ServeSystem, TypeOK
    <2> QED
      BY <1>4, <2>3, <2>4 DEF ServeSystem, TypeOK
  <1>5. CASE ServeRegcode \/ Refuse \/ Gateway
    <2>1. call.who \in Logins \cup {NoLogin}
      BY DEF TypeOK, Calls
    <2>2. call' \in Calls
      BY <1>5, <2>1, AnsweredOK DEF ServeRegcode, Refuse, Gateway, Tokens
    <2> QED
      BY <1>5, <1>0, <2>2 DEF ServeRegcode, Refuse, Gateway, TypeOK
  <1>6. CASE Lose
    BY <1>6, <1>0, <1>a, <1>b DEF Lose, TypeOK
  <1>7. CASE UpdateToken
    <2>1. call.reply \in Tokens /\ [call EXCEPT !.at = "done"] \in Calls
      BY DEF TypeOK, Calls
    <2>2. call' \in Calls /\ verdict' \in Verdicts
      BY <1>7, <1>a, <1>b, <2>1 DEF UpdateToken, TypeOK
    <2> QED
      BY <1>7, <1>0, <2>1, <2>2 DEF UpdateToken, TypeOK
  <1>8. \A l \in Logins \cup {NoLogin} : SetLogin(l) =>
            /\ login' \in Logins \cup {NoLogin}
            /\ call' \in Calls /\ verdict' \in Verdicts
            /\ past' \subseteq Mishaps \cup {"again"}
    BY <1>0, <1>b, <1>c DEF SetLogin, TypeOK
  <1>9. CASE Register
    <2>1. call.who \in Logins \cup {NoLogin}
      BY DEF TypeOK, Calls
    <2> QED
      BY <1>9, <1>b, <1>c, <1>8, <2>1 DEF Register, TypeOK
  <1>10. CASE Deregister
    BY <1>10, <1>8 DEF Deregister, TypeOK
  <1>11. CASE Status
    BY <1>11, <1>b, <1>c DEF Status, TypeOK
  <1>12. CASE Query
    BY <1>12, <1>b, <1>c DEF Query, TypeOK
  <1>13. CASE Crash
    BY <1>13, <1>0, <1>b, <1>c DEF Crash, TypeOK
  <1> QED
    BY <1>1, <1>2, <1>3, <1>4, <1>5, <1>6, <1>7, <1>9, <1>10, <1>11, <1>12, <1>13 DEF Next

\* The variables of the library keep their types.
THEOREM TypeCorrect == Spec => []TypeOK
  BY InitTypeOK, NextTypeOK, PTL DEF Spec

-----------------------------------------------------------------------------
LEMMA InitTokenInv == Init => TokenInv
  <1> SUFFICES ASSUME Init PROVE TokenInv
    OBVIOUS
  <1>1. call.at = "idle" /\ login = NoLogin
    BY DEF Init, NoCall
  <1> QED
    BY <1>1, InitTypeOK DEF TokenInv, SpeaksForLogin, ReplyFits, Anonymous, TokenFits, Fits

\* Between two calls, what is asked of a call under way holds trivially.
LEMMA IdleTokenInv ==
  ASSUME TypeOK', call' = NoCall,
         past' \cap {"cut", "store", "crash"} = {} => Fits(login', token')
  PROVE  TokenInv'
  <1>1. call'.at = "idle"
    BY DEF NoCall
  <1> QED
    BY <1>1 DEF TokenInv, SpeaksForLogin, ReplyFits, Anonymous, TokenFits, Fits

\* An answer that names no token, or one of the login it is for.
LEMMA AnsweredTokenInv ==
  ASSUME TokenInv, TypeOK', NEW l, NEW kind, NEW t \in Tokens, Answered(l, kind, t),
         call.at = "sent", UNCHANGED creds, past \subseteq past',
         t = NoToken \/ t[1] = l,
         call.op \in WithLogin => l = call.who,
         t # NoToken => call.op \in WithLogin \/ (call.op = "register" /\ kind = "ok")
  PROVE  TokenInv'
  <1>1. /\ call'.at = "reply" /\ call'.op = call.op /\ call'.who = l
        /\ call'.reply = t /\ call'.kind = kind
    BY DEF Answered, TokenInv, TypeOK, Calls
  <1>2. SpeaksForLogin'
    BY <1>1 DEF SpeaksForLogin, TokenInv, creds
  <1>3. ReplyFits' /\ Anonymous'
    BY <1>1 DEF ReplyFits, Anonymous
  <1>4. TokenFits'
    BY <1>1 DEF TokenFits, TokenInv, Fits, creds
  <1> QED
    BY <1>2, <1>3, <1>4 DEF TokenInv

LEMMA NextTokenInv == TokenInv /\ [Next]_vars => TokenInv'
  <1> SUFFICES ASSUME TokenInv, [Next]_vars PROVE TokenInv'
    OBVIOUS
  <1>t. TypeOK /\ TypeOK'
    BY NextTypeOK DEF TokenInv
  <1>1. CASE UNCHANGED vars
    BY <1>1, <1>t DEF TokenInv, SpeaksForLogin, ReplyFits, Anonymous, TokenFits, Fits,
                      vars, creds, server
  <1>m. \A m : Mishap(m) => past \subseteq past' /\ m \in past'
    BY DEF Mishap
  <1>2. ASSUME NEW op \in Functions, Request(op) PROVE TokenInv'
    <2>1. call.at = "idle" /\ UNCHANGED creds /\ past \subseteq past'
      BY <1>2, <1>m DEF Request
    <2>2. past' \cap {"cut", "store", "crash"} = {} => Fits(login', token')
      BY <2>1 DEF TokenInv, TokenFits, Fits, creds
    <2>3. CASE call' = NoCall
      BY <1>t, <2>2, <2>3, IdleTokenInv
    <2>4. CASE call' # NoCall
      <3>1. call' = [NoCall EXCEPT !.at = "sent", !.op = op, !.sent = token,
                       !.who = IF op \in WithLogin THEN login ELSE NoLogin]
        BY <1>2, <2>4 DEF Request, Return
      <3>2. /\ call'.at = "sent" /\ call'.op = op
            /\ call'.who = IF op \in WithLogin THEN login ELSE NoLogin
        BY <3>1 DEF NoCall
      <3> QED
        BY <1>t, <2>1, <2>2, <3>2
           DEF TokenInv, SpeaksForLogin, ReplyFits, Anonymous, TokenFits, Fits, creds
    <2> QED
      BY <2>3, <2>4
  <1>3. CASE ServeRegister
    <2>1. PICK l \in Logins \ issued : Answer(l, "ok")
      BY <1>3 DEF ServeRegister
    <2>2. PICK t \in Tokens : (t = NoToken \/ t[1] = l) /\ Answered(l, "ok", t)
      BY <1>t, <2>1, AnswerOK
    <2>3. call.at = "sent" /\ call.op = "register" /\ UNCHANGED <<creds, past>>
      BY <1>3 DEF ServeRegister
    <2> QED
      BY <1>t, <2>2, <2>3, AnsweredTokenInv DEF WithLogin
  <1>4. CASE ServeSystem
    <2>1. PICK kind \in {"ok", "error"} : Answer(call.who, kind)
      BY <1>4 DEF ServeSystem
    <2>2. call.at = "sent" /\ call.who \in Logins /\ UNCHANGED <<creds, past>>
      BY <1>4, <1>t DEF ServeSystem, TypeOK
    <2>3. PICK t \in Tokens : (t = NoToken \/ t[1] = call.who) /\ Answered(call.who, kind, t)
      BY <1>t, <2>1, <2>2, AnswerOK
    <2>4. call.op \in WithLogin
      BY <2>2, DistinctAssumption DEF TokenInv, Anonymous
    <2> QED
      BY <1>t, <2>2, <2>3, <2>4, AnsweredTokenInv
  <1>5. CASE ServeRegcode \/ Refuse \/ Gateway
    <2>1. /\ call.at = "sent" /\ UNCHANGED creds /\ past \subseteq past'
          /\ \E l, kind : /\ Answered(l, kind, NoToken)
                          /\ call.op \in WithLogin => l = call.who
      BY <1>5, <1>m DEF ServeRegcode, Refuse, Gateway, WithLogin
    <2>2. NoToken \in Tokens
      BY DEF Tokens
    <2> QED
      BY <1>t, <2>1, <2>2, AnsweredTokenInv
  <1>6. CASE Lose
    <2>1. call' = NoCall /\ UNCHANGED creds /\ past \subseteq past'
          /\ call.at \in {"sent", "reply"}
      BY <1>6, <1>m DEF Lose, Return
    <2> QED
      BY <1>t, <2>1, IdleTokenInv DEF TokenInv, TokenFits, Fits, creds
  <1>7. CASE UpdateToken
    <2>1. call.at = "reply" /\ UNCHANGED login /\ past \subseteq past'
      BY <1>7, <1>m DEF UpdateToken
    <2>2. CASE past' \cap {"cut", "store", "crash"} # {}
      <3>1. CASE call' = NoCall
        BY <1>t, <2>2, <3>1, IdleTokenInv
      <3>2. CASE call' # NoCall
        <4>1. call' = [call EXCEPT !.at = "done"]
          BY <1>7, <3>2 DEF UpdateToken, Return
        <4>2. call'.at = "done"
          BY <4>1, <1>t DEF TypeOK, Calls
        <4> QED
          BY <1>t, <2>2, <4>2 DEF TokenInv, SpeaksForLogin, ReplyFits, Anonymous, TokenFits
      <3> QED
        BY <3>1, <3>2
    <2>3. CASE past' \cap {"cut", "store", "crash"} = {}
      <3>1. token' = call.reply
        BY <1>7, <1>m, <2>3 DEF UpdateToken
      <3>2. call.op \in WithLogin => call.who = login
        BY <2>1, <2>3 DEF TokenInv, SpeaksForLogin
      <3>3. CASE IsApiError(call.kind)
        <4>1. call' = NoCall
          BY <1>7, <3>3 DEF UpdateToken, Return
        <4>2. Fits(login', token')
          BY <2>1, <3>1, <3>2, <3>3 DEF TokenInv, ReplyFits, Fits, IsApiError
        <4> QED
          BY <1>t, <4>1, <4>2, IdleTokenInv
      <3>4. CASE ~IsApiError(call.kind)
        <4>1. call' = [call EXCEPT !.at = "done"]
          BY <1>7, <1>m, <2>3, <3>4 DEF UpdateToken
        <4>2. /\ call'.at = "done" /\ call'.op = call.op /\ call'.kind = call.kind
              /\ call'.who = call.who
          BY <4>1, <1>t DEF TypeOK, Calls
        <4>3. SpeaksForLogin' /\ ReplyFits' /\ Anonymous'
          BY <2>1, <3>2, <4>2 DEF SpeaksForLogin, ReplyFits, Anonymous
        <4>4. TokenFits'
          BY <2>1, <3>1, <3>2, <4>2 DEF TokenFits, TokenInv, ReplyFits, Fits
        <4> QED
          BY <1>t, <4>3, <4>4 DEF TokenInv
      <3> QED
        BY <3>3, <3>4
    <2> QED
      BY <2>2, <2>3
  <1>8. CASE Register
    <2>1. call' = NoCall /\ past \subseteq past' /\ UNCHANGED token
      BY <1>8, <1>m DEF Register, SetLogin, Return, creds
    <2>2. past' \cap {"cut", "store", "crash"} = {} => Fits(login', token')
      BY <1>8, <1>m DEF Register, SetLogin, TokenInv, TokenFits, creds
    <2> QED
      BY <1>t, <2>1, <2>2, IdleTokenInv
  <1>9. CASE Deregister
    <2>1. call' = NoCall
      BY <1>9 DEF Deregister, SetLogin, Return
    <2>2. past' \cap {"cut", "store", "crash"} = {} => Fits(login', token')
      BY <1>9, <1>m DEF Deregister, SetLogin, Fits
    <2> QED
      BY <1>t, <2>1, <2>2, IdleTokenInv
  <1>10. CASE Status \/ Query
    <2>1. call' = NoCall /\ UNCHANGED <<creds, past>> /\ call.op # "register"
      BY <1>10 DEF Status, Query, Return
    <2> QED
      BY <1>t, <2>1, IdleTokenInv DEF TokenInv, TokenFits, Fits, creds
  <1>11. CASE Crash
    <2>1. call' = NoCall /\ "crash" \in past'
      BY <1>11, <1>m DEF Crash, Return
    <2> QED
      BY <1>t, <2>1, IdleTokenInv
  <1> QED
    BY <1>1, <1>2, <1>3, <1>4, <1>5, <1>6, <1>7, <1>8, <1>9, <1>10, <1>11 DEF Next

\* The token a caller keeps belongs to the login it keeps, however often it
\* registers again and whatever the server and its gateways answer, unless a
\* Register stopped between the two (Do, Register).
THEOREM TokensAreNotMixed == Spec => []TokenBelongsToLogin
  <1>1. TokenInv => TokenBelongsToLogin
    BY DEF TokenInv, TokenFits, Fits, TokenBelongsToLogin
  <1> QED
    BY <1>1, InitTokenInv, NextTokenInv, PTL DEF Spec

-----------------------------------------------------------------------------
AgreeInv == TokenInv /\ SystemsAgree

LEMMA InitAgreeInv == Init => AgreeInv
  <1> SUFFICES ASSUME Init PROVE AgreeInv
    OBVIOUS
  <1>1. call.at = "idle" /\ login = NoLogin /\ live = {}
    BY DEF Init, NoCall
  <1> QED
    BY <1>1, InitTokenInv DEF AgreeInv, SystemsAgree, Expected, Handled

\* An answer other than a success changes nothing on the server.
LEMMA RefusedSystems ==
  ASSUME TypeOK, SystemsAgree, NEW l, NEW kind, NEW t, Answered(l, kind, t),
         call.at = "sent", kind # "ok", UNCHANGED <<login, live>>, past \subseteq past',
         past' = {} => kind # "gateway"
  PROVE  SystemsAgree'
  <1>1. call'.at = "reply" /\ call'.kind = kind /\ call'.op = call.op
    BY DEF Answered, TypeOK, Calls
  <1> QED
    BY <1>1 DEF SystemsAgree, Expected, Handled

LEMMA IdleSystems ==
  ASSUME call' = NoCall, past' = {} => live' = {login'} \ {NoLogin}
  PROVE  SystemsAgree'
  <1>1. call'.at = "idle"
    BY DEF NoCall
  <1> QED
    BY <1>1 DEF SystemsAgree, Expected, Handled

LEMMA NextAgreeInv == AgreeInv /\ [Next]_vars => AgreeInv'
  <1> SUFFICES ASSUME AgreeInv, [Next]_vars PROVE SystemsAgree'
    BY NextTokenInv DEF AgreeInv
  <1>t. TypeOK /\ SystemsAgree /\ TokenInv
    BY DEF AgreeInv, TokenInv
  <1>m. \A m : Mishap(m) => past \subseteq past' /\ m \in past'
    BY DEF Mishap
  <1>1. CASE UNCHANGED vars
    BY <1>1, <1>t DEF SystemsAgree, Expected, Handled, vars, creds, server
  <1>2. ASSUME NEW op \in Functions, Request(op) PROVE SystemsAgree'
    <2>1. call.at = "idle" /\ UNCHANGED <<login, live>> /\ past \subseteq past'
      BY <1>2, <1>m DEF Request, creds, server
    <2>2. past' = {} => live' = {login'} \ {NoLogin}
      BY <1>t, <2>1 DEF SystemsAgree, Expected, Handled
    <2>3. CASE call' = NoCall
      BY <2>2, <2>3, IdleSystems
    <2>4. CASE call' # NoCall
      <3>1. /\ call' = [NoCall EXCEPT !.at = "sent", !.op = op, !.sent = token,
                          !.who = IF op \in WithLogin THEN login ELSE NoLogin]
            /\ op = "register" /\ login # NoLogin => past' # {}
        BY <1>2, <2>4 DEF Request, Return
      <3>2. call'.at = "sent" /\ call'.op = op
        BY <3>1 DEF NoCall
      <3> QED
        BY <2>1, <2>2, <3>1, <3>2 DEF SystemsAgree, Expected, Handled
    <2> QED
      BY <2>3, <2>4
  <1>3. CASE ServeRegister
    <2>1. PICK l \in Logins \ issued : live' = live \cup {l} /\ Answer(l, "ok")
      BY <1>3 DEF ServeRegister
    <2>2. PICK t \in Tokens : Answered(l, "ok", t)
      BY <1>t, <2>1, AnswerOK
    <2>3. /\ call'.at = "reply" /\ call'.op = call.op /\ call'.who = l
          /\ call'.kind = "ok"
      BY <1>t, <2>2 DEF Answered, TypeOK, Calls
    <2>4. call.at = "sent" /\ call.op = "register" /\ UNCHANGED <<login, past>>
      BY <1>3 DEF ServeRegister, creds
    <2>5. past = {} => login = NoLogin /\ live = {}
      BY <1>t, <2>4 DEF SystemsAgree, Expected, Handled
    <2> QED
      BY <2>1, <2>3, <2>4, <2>5, DistinctAssumption DEF SystemsAgree, Expected, Handled
  <1>4. CASE ServeSystem
    <2>1. PICK kind \in {"ok", "error"} :
             /\ Answer(call.who, kind)
             /\ live' = IF kind = "ok" /\ call.op = "deregister" THEN live \ {call.who} ELSE live
      BY <1>4 DEF ServeSystem
    <2>2. call.at = "sent" /\ call.who \in Logins /\ UNCHANGED <<login, past>>
      BY <1>4, <1>t DEF ServeSystem, TypeOK, creds
    <2>3. PICK t \in Tokens : Answered(call.who, kind, t)
      BY <1>t, <2>1, <2>2, AnswerOK
    <2>4. CASE kind # "ok"
      BY <1>t, <2>1, <2>2, <2>3, <2>4, RefusedSystems
    <2>5. CASE kind = "ok"
      <3>1. /\ call'.at = "reply" /\ call'.op = call.op /\ call'.who = call.who
            /\ call'.kind = "ok"
        BY <1>t, <2>3, <2>5 DEF Answered, TypeOK, Calls
      <3>2. call.op \in WithLogin
        BY <1>t, <2>2, DistinctAssumption DEF TokenInv, Anonymous
      <3>3. past = {} => call.who = login /\ live = {login} \ {NoLogin}
        BY <1>t, <2>2, <3>2 DEF TokenInv, SpeaksForLogin, SystemsAgree, Expected, Handled
      <3> QED
        BY <2>1, <2>2, <2>5, <3>1, <3>2, <3>3
           DEF SystemsAgree, Expected, Handled, WithLogin
    <2> QED
      BY <2>4, <2>5
  <1>5. CASE ServeRegcode
    <2>1. /\ call'.at = "reply" /\ call'.op = call.op
          /\ call.at = "sent" /\ call.op = "regcode" /\ call'.kind = "ok"
          /\ UNCHANGED <<login, live, past>>
      BY <1>5, <1>t DEF ServeRegcode, Answered, TypeOK, Calls, creds, server
    <2> QED
      BY <1>t, <2>1 DEF SystemsAgree, Expected, Handled
  <1>6. CASE Refuse \/ Gateway
    <2>1. /\ call.at = "sent" /\ UNCHANGED <<login, live>> /\ past \subseteq past'
          /\ Answered(call.who, "error", NoToken) \/ (Answered(call.who, "gateway", NoToken) /\ past' # {})
      BY <1>6, <1>m DEF Refuse, Gateway, creds, server
    <2> QED
      BY <1>t, <2>1, RefusedSystems
  <1>7. CASE Lose
    <2>1. call' = NoCall /\ UNCHANGED <<login, live>>
      BY <1>7 DEF Lose, Return, creds, server
    <2>2. past' = {} => past = {} /\ call.at = "sent"
      BY <1>7, <1>m DEF Lose
    <2> QED
      BY <1>t, <2>1, <2>2, IdleSystems DEF SystemsAgree, Expected, Handled
  <1>8. CASE UpdateToken
    <2>1. call.at = "reply" /\ UNCHANGED <<login, live>> /\ past \subseteq past'
      BY <1>8, <1>m DEF UpdateToken, server
    <2>2. CASE past' # {}
      BY <2>2 DEF SystemsAgree
    <2>3. CASE past' = {} /\ IsApiError(call.kind)
      <3>1. call' = NoCall /\ call.kind = "error"
        BY <1>8, <2>3, <1>m DEF UpdateToken, Return, IsApiError
      <3> QED
        BY <1>t, <2>1, <3>1, IdleSystems DEF SystemsAgree, Expected, Handled
    <2>4. CASE past' = {} /\ ~IsApiError(call.kind)
      <3>1. call' = [call EXCEPT !.at = "done"]
        BY <1>8, <2>4, <1>m DEF UpdateToken
      <3>2. /\ call'.at = "done" /\ call'.op = call.op /\ call'.kind = call.kind
            /\ call'.who = call.who
        BY <3>1, <1>t DEF TypeOK, Calls
      <3>3. call.kind = "ok"
        BY <1>t, <2>1, <2>4 DEF SystemsAgree, IsApiError, TypeOK, Calls
      <3> QED
        BY <1>t, <2>1, <3>2, <3>3 DEF SystemsAgree, Expected, Handled
    <2> QED
      BY <2>2, <2>3, <2>4
  <1>9. CASE Register \/ Deregister \/ Status \/ Query
    <2>1. call' = NoCall /\ call.at = "done" /\ past \subseteq past' /\ UNCHANGED live
      BY <1>9, <1>m DEF Register, Deregister, Status, Query, SetLogin, Return, server
    <2>2. ASSUME past' = {} PROVE live' = {login'} \ {NoLogin}
      <3>1. past = {} /\ call.kind = "ok" /\ live = Expected
        BY <1>t, <2>1, <2>2 DEF SystemsAgree
      <3>2. CASE Register
        <4>1. login' = call.who /\ live = {call.who}
          BY <1>m, <2>2, <3>1, <3>2 DEF Register, SetLogin, Expected, Handled
        <4>2. call.who # NoLogin
          BY <1>t, <3>1, <3>2 DEF Register, SystemsAgree, Handled
        <4> QED
          BY <2>1, <4>1, <4>2
      <3>3. CASE Deregister
        BY <1>m, <2>1, <2>2, <3>1, <3>3 DEF Deregister, SetLogin, Expected, Handled
      <3>4. CASE Status \/ Query
        BY <2>1, <3>1, <3>4 DEF Status, Query, Expected, Handled, creds
      <3> QED
        BY <1>9, <3>2, <3>3, <3>4
    <2> QED
      BY <2>1, <2>2, IdleSystems
  <1>10. CASE Crash
    BY <1>10, <1>m DEF Crash, SystemsAgree
  <1> QED
    BY <1>1, <1>2, <1>3, <1>4, <1>5, <1>6, <1>7, <1>8, <1>9, <1>10 DEF Next

\* As long as no call was lost, cut or answered by a gateway, and the caller
\* registers once, its Credentials object names the one system the server has for
\* it, or none (Register, Deregister).
THEOREM ObjectAndServerAgree == Spec => []AgreesWithServer
  <1>1. AgreeInv => AgreesWithServer
    BY DEF AgreeInv, SystemsAgree, Expected, Handled, AgreesWithServer
  <1> QED
    BY <1>1, InitAgreeInv, NextAgreeInv, PTL DEF Spec

-----------------------------------------------------------------------------
(***************************************************************************)
(* NoStaleToken. The token beside the login is the last one the server     *)
(* named for it, except from its answer to the end of Do, where the answer *)
(* carries the last one.                                                   *)
(***************************************************************************)
Fresh(l, t) == t \in {NoToken, <<l, rot[l]>>}
Stands      == login = NoLogin \/ Fresh(login, token)

TokensFresh ==
    past \cap {"lost", "cut", "store", "crash"} = {} =>
        /\ ~flagged
        /\ call.at \in {"idle", "sent"} => Stands
        /\ call.at = "sent" /\ call.op \in WithLogin =>
              call.who = NoLogin \/ Fresh(call.who, call.sent)
        /\ call.at = "reply" => Fresh(call.who, call.reply)
        /\ call.at = "done" => IF call.op = "register" /\ call.kind = "ok"
                                 THEN Fresh(call.who, token) ELSE Stands

\* What an answer names is the token the server expects from then on.
LEMMA AnswerFresh ==
  ASSUME TypeOK, NEW l \in Logins, NEW kind, Answer(l, kind)
  PROVE  \E t : Answered(l, kind, t) /\ t \in {NoToken, <<l, rot'[l]>>}
  <1>1. CASE \E t \in {NoToken, <<l, rot[l]>>} : Answered(l, kind, t) /\ UNCHANGED rot
    BY <1>1
  <1>2. CASE rot' = [rot EXCEPT ![l] = @ + 1] /\ Answered(l, kind, <<l, rot[l] + 1>>)
    BY <1>2 DEF TypeOK
  <1> QED
    BY <1>1, <1>2 DEF Answer

LEMMA AnsweredIs ==
  ASSUME TypeOK, NEW l, NEW kind, NEW t, Answered(l, kind, t)
  PROVE  /\ call'.at = "reply" /\ call'.op = call.op /\ call'.who = l
         /\ call'.reply = t /\ call'.kind = kind
  BY DEF Answered, TypeOK, Calls

LEMMA NextTokensFresh == TokenInv /\ TokensFresh /\ [Next]_vars => TokensFresh'
  <1> SUFFICES ASSUME TokenInv, TokensFresh, [Next]_vars,
                      past' \cap {"lost", "cut", "store", "crash"} = {}
               PROVE  /\ ~flagged'
                      /\ call'.at \in {"idle", "sent"} => Stands'
                      /\ call'.at = "sent" /\ call'.op \in WithLogin =>
                            call'.who = NoLogin \/ Fresh(call.who, call.sent)'
                      /\ call'.at = "reply" => Fresh(call.who, call.reply)'
                      /\ call'.at = "done" => IF call'.op = "register" /\ call'.kind = "ok"
                                               THEN Fresh(call.who, token)' ELSE Stands'
    BY DEF TokensFresh
  <1>t. TypeOK
    BY DEF TokenInv
  <1>m. \A m : Mishap(m) => past \subseteq past' /\ m \in past'
    BY DEF Mishap
  <1>g. past \subseteq past'
    BY <1>m DEF Next, Request, ServeRegister, ServeSystem, ServeRegcode, Refuse, Gateway, Lose,
                UpdateToken, Register, Deregister, Status, Query, Crash, SetLogin, vars
  <1>a. /\ ~flagged
        /\ call.at \in {"idle", "sent"} => Stands
        /\ call.at = "sent" /\ call.op \in WithLogin =>
              call.who = NoLogin \/ Fresh(call.who, call.sent)
        /\ call.at = "reply" => Fresh(call.who, call.reply)
        /\ call.at = "done" => IF call.op = "register" /\ call.kind = "ok"
                                 THEN Fresh(call.who, token) ELSE Stands
    BY <1>g DEF TokensFresh
  <1>b. NoCall.at = "idle"
    BY DEF NoCall
  <1>c. call.at # "idle" /\ call.op \in WithLogin => call.who = login
    BY <1>g DEF TokenInv, SpeaksForLogin
  <1>1. CASE UNCHANGED vars
    BY <1>1, <1>a DEF Stands, Fresh, vars, creds, server
  \* A call that ends with the token of the object as it should be.
  <1>2. ASSUME call' = NoCall, ~flagged', Stands'
        PROVE  /\ ~flagged'
               /\ call'.at \in {"idle", "sent"} => Stands'
               /\ call'.at = "sent" /\ call'.op \in WithLogin =>
                     call'.who = NoLogin \/ Fresh(call.who, call.sent)'
               /\ call'.at = "reply" => Fresh(call.who, call.reply)'
               /\ call'.at = "done" => IF call'.op = "register" /\ call'.kind = "ok"
                                        THEN Fresh(call.who, token)' ELSE Stands'
    BY <1>b, <1>2
  <1>3. ASSUME NEW op \in Functions, Request(op)
        PROVE  /\ ~flagged'
               /\ call'.at \in {"idle", "sent"} => Stands'
               /\ call'.at = "sent" /\ call'.op \in WithLogin =>
                     call'.who = NoLogin \/ Fresh(call.who, call.sent)'
               /\ call'.at = "reply" => Fresh(call.who, call.reply)'
               /\ call'.at = "done" => IF call'.op = "register" /\ call'.kind = "ok"
                                        THEN Fresh(call.who, token)' ELSE Stands'
    <2>1. call.at = "idle" /\ UNCHANGED <<login, token, rot, flagged>>
      BY <1>3 DEF Request, creds, server
    <2>2. Stands'
      BY <1>a, <2>1 DEF Stands, Fresh
    <2>3. CASE call' = NoCall
      BY <1>2, <1>a, <2>1, <2>2, <2>3
    <2>4. CASE call' # NoCall
      <3>1. call' = [NoCall EXCEPT !.at = "sent", !.op = op, !.sent = token,
                       !.who = IF op \in WithLogin THEN login ELSE NoLogin]
        BY <1>3, <2>4 DEF Request, Return
      <3>2. /\ call'.at = "sent" /\ call'.op = op /\ call'.sent = token
            /\ call'.who = IF op \in WithLogin THEN login ELSE NoLogin
        BY <3>1 DEF NoCall
      <3>3. op \in WithLogin => call'.who = NoLogin \/ Fresh(call.who, call.sent)'
        BY <2>2, <2>1, <3>2 DEF Stands, Fresh
      <3> QED
        BY <1>a, <2>1, <2>2, <3>2, <3>3
    <2> QED
      BY <2>3, <2>4
  <1>4. ASSUME ServeRegister PROVE call'.at = "reply" /\ ~flagged' /\ Fresh(call.who, call.reply)'
    <2>1. PICK l \in Logins : Answer(l, "ok")
      BY <1>4 DEF ServeRegister
    <2>2. PICK t : Answered(l, "ok", t) /\ t \in {NoToken, <<l, rot'[l]>>}
      BY <1>t, <2>1, AnswerFresh
    <2>3. call'.at = "reply" /\ call'.who = l /\ call'.reply = t
      BY <1>t, <2>2, AnsweredIs
    <2> QED
      BY <1>4, <1>a, <2>2, <2>3 DEF ServeRegister, Fresh
  <1>5. ASSUME ServeSystem PROVE call'.at = "reply" /\ ~flagged' /\ Fresh(call.who, call.reply)'
    <2>1. PICK kind : Answer(call.who, kind)
      BY <1>5 DEF ServeSystem
    <2>2. call.at = "sent" /\ call.who \in Logins /\ call.who # NoLogin
      BY <1>5, <1>t, DistinctAssumption DEF ServeSystem, TypeOK
    <2>3. PICK t : Answered(call.who, kind, t) /\ t \in {NoToken, <<call.who, rot'[call.who]>>}
      BY <1>t, <2>1, <2>2, AnswerFresh
    <2>4. call'.at = "reply" /\ call'.who = call.who /\ call'.reply = t
      BY <1>t, <2>3, AnsweredIs
    <2>5. call.op \in WithLogin
      BY <2>2 DEF TokenInv, Anonymous
    <2>6. ~flagged'
      BY <1>5, <1>a, <2>2, <2>5 DEF ServeSystem, Fresh
    <2> QED
      BY <2>3, <2>4, <2>6 DEF Fresh
  <1>6. ASSUME ServeRegcode \/ Refuse \/ Gateway
        PROVE  call'.at = "reply" /\ ~flagged' /\ Fresh(call.who, call.reply)'
    <2>1. \E l, kind : Answered(l, kind, NoToken)
      BY <1>6 DEF ServeRegcode, Refuse, Gateway
    <2>2. call'.at = "reply" /\ call'.reply = NoToken
      BY <1>t, <2>1, AnsweredIs
    <2>3. flagged' = flagged
      BY <1>6 DEF ServeRegcode, Refuse, Gateway, server
    <2> QED
      BY <1>a, <2>2, <2>3 DEF Fresh
  <1>7. ASSUME Lose PROVE call' = NoCall /\ ~flagged' /\ Stands'
    <2>1. call' = NoCall /\ UNCHANGED <<login, token, rot, flagged>> /\ call.at = "sent"
      BY <1>7, <1>m DEF Lose, Return, creds, server
    <2> QED
      BY <1>a, <2>1 DEF Stands, Fresh
  <1>8. CASE UpdateToken
    <2>1. /\ call.at = "reply" /\ token' = call.reply
          /\ UNCHANGED <<login, rot, flagged>>
      BY <1>8, <1>m DEF UpdateToken, server
    <2>2. call.op \in WithLogin \/ call.reply = NoToken => Stands'
      BY <1>a, <1>c, <2>1 DEF Stands, Fresh
    <2>3. CASE IsApiError(call.kind)
      <3>1. call' = NoCall
        BY <1>8, <2>3, <1>m DEF UpdateToken, Return
      <3>2. Stands'
        BY <2>1, <2>2, <2>3 DEF TokenInv, ReplyFits, IsApiError
      <3> QED
        BY <1>2, <1>a, <2>1, <3>1, <3>2
    <2>4. CASE ~IsApiError(call.kind)
      <3>1. call' = [call EXCEPT !.at = "done"]
        BY <1>8, <2>4, <1>m DEF UpdateToken
      <3>2. /\ call'.at = "done" /\ call'.op = call.op /\ call'.kind = call.kind
            /\ call'.who = call.who
        BY <3>1, <1>t DEF TypeOK, Calls
      <3>3. CASE call.op = "register" /\ call.kind = "ok"
        <4>1. Fresh(call.who, token)'
          BY <1>a, <2>1, <3>2 DEF Fresh
        <4> QED
          BY <1>a, <2>1, <3>2, <3>3, <4>1
      <3>4. CASE ~(call.op = "register" /\ call.kind = "ok")
        <4>1. Stands'
          BY <2>1, <2>2, <3>4 DEF TokenInv, ReplyFits
        <4> QED
          BY <1>a, <2>1, <3>2, <3>4, <4>1
      <3> QED
        BY <3>3, <3>4
    <2> QED
      BY <2>3, <2>4
  <1>9. ASSUME Register \/ Deregister \/ Status \/ Query
        PROVE  call' = NoCall /\ ~flagged' /\ Stands'
    <2>1. call' = NoCall /\ call.at = "done" /\ UNCHANGED <<token, rot, flagged>>
      BY <1>9 DEF Register, Deregister, Status, Query, SetLogin, Return, server, creds
    <2>2. CASE Register
      <3>1. login' = IF call.kind = "ok" THEN call.who ELSE login
        BY <2>2, <1>m DEF Register, SetLogin
      <3>2. call.op = "register"
        BY <2>2 DEF Register
      <3> QED
        BY <1>a, <2>1, <3>1, <3>2 DEF Stands, Fresh
    <2>3. CASE Deregister
      <3>1. login' = NoLogin
        BY <2>3, <1>m DEF Deregister, SetLogin
      <3> QED
        BY <1>a, <2>1, <3>1 DEF Stands
    <2>4. CASE Status \/ Query
      BY <1>a, <2>1, <2>4 DEF Status, Query, creds, Stands, Fresh
    <2> QED
      BY <1>9, <2>2, <2>3, <2>4
  <1>10. ~Crash
    BY <1>m DEF Crash
  <1> QED
    BY <1>1, <1>2, <1>3, <1>4, <1>5, <1>6, <1>7, <1>8, <1>9, <1>10 DEF Next

LEMMA InitTokensFresh == Init => TokensFresh
  BY DEF Init, NoCall, TokensFresh, Stands

\* Unless an answer was lost or not stored, the server sees no outdated token, however
\* often it rotates, in the answers that report an error too (Do).
THEOREM TokensStayFresh == Spec => []NoStaleToken
  <1>1. Spec => []TokenInv
    BY InitTokenInv, NextTokenInv, PTL DEF Spec
  <1>2. Spec => []TokensFresh
    BY <1>1, InitTokensFresh, NextTokensFresh, PTL DEF Spec
  <1>3. TokensFresh => NoStaleToken
    BY DEF TokensFresh, NoStaleToken
  <1> QED
    BY <1>2, <1>3, PTL

-----------------------------------------------------------------------------
(***************************************************************************)
(* RegisteredIsTrue and ForgetsOnlyDeleted. Unless a gateway answers, what *)
(* a function concludes from an answer without an error is what the server *)
(* has done for the login of the object, whatever was lost or cut.         *)
(***************************************************************************)
WhoIsLogin == call.at # "idle" /\ call.op \in WithLogin => call.who = login
Undecided  == call.at # "idle" => verdict # "Registered"

Concluded ==
    "gateway" \notin past =>
        /\ call.at \in {"reply", "done"} => call.kind # "gateway"
        /\ call.at = "done" => call.kind = "ok"
        /\ Handled /\ call.op = "status" => login \in live
        /\ Handled /\ call.op = "deregister" => login \notin live
        /\ Handled /\ call.op = "register" => call.who # NoLogin
        /\ verdict = "Registered" => login \in live

ServedInv == TypeOK /\ Anonymous /\ WhoIsLogin /\ Undecided /\ Concluded

LEMMA InitServed == Init => ServedInv
  <1> SUFFICES ASSUME Init PROVE ServedInv
    OBVIOUS
  <1>1. call.at = "idle" /\ verdict = "none"
    BY DEF Init, NoCall
  <1> QED
    BY <1>1, InitTypeOK
       DEF ServedInv, Anonymous, WhoIsLogin, Undecided, Concluded, Handled

\* Between two calls only the verdict says anything.
LEMMA IdleServed ==
  ASSUME TypeOK', call' = NoCall,
         "gateway" \notin past' /\ verdict' = "Registered" => login' \in live'
  PROVE  ServedInv'
  <1>1. call'.at = "idle"
    BY DEF NoCall
  <1> QED
    BY <1>1 DEF ServedInv, Anonymous, WhoIsLogin, Undecided, Concluded, Handled

\* An answer for the login of the object, or to a call without one.
LEMMA AnsweredServed ==
  ASSUME ServedInv, TypeOK', NEW l, NEW kind, NEW t, Answered(l, kind, t),
         call.at = "sent", login' = login, verdict' = verdict, past \subseteq past',
         call.op \in WithLogin => l = call.who,
         "gateway" \notin past' =>
            /\ kind # "gateway"
            /\ kind = "ok" /\ call.op = "status" => login \in live'
            /\ kind = "ok" /\ call.op = "deregister" => login \notin live'
            /\ kind = "ok" /\ call.op = "register" => l # NoLogin
  PROVE  ServedInv'
  <1>1. /\ call'.at = "reply" /\ call'.op = call.op /\ call'.who = l /\ call'.kind = kind
    BY AnsweredIs DEF ServedInv
  <1>2. Anonymous' /\ WhoIsLogin' /\ Undecided'
    BY <1>1 DEF ServedInv, Anonymous, WhoIsLogin, Undecided
  <1>3. verdict' # "Registered"
    BY DEF ServedInv, Undecided
  <1>4. Concluded'
    BY <1>1, <1>3 DEF Concluded, Handled
  <1> QED
    BY <1>2, <1>4 DEF ServedInv

LEMMA NextServed == ServedInv /\ [Next]_vars => ServedInv'
  <1> SUFFICES ASSUME ServedInv, [Next]_vars PROVE ServedInv'
    OBVIOUS
  <1>t. TypeOK /\ TypeOK'
    BY NextTypeOK DEF ServedInv
  <1>m. \A m : Mishap(m) => past \subseteq past' /\ m \in past'
    BY DEF Mishap
  <1>1. CASE UNCHANGED vars
    BY <1>1, <1>t DEF ServedInv, Anonymous, WhoIsLogin, Undecided, Concluded, Handled,
                      vars, creds, server
  <1>2. ASSUME NEW op \in Functions, Request(op) PROVE ServedInv'
    <2>1. call.at = "idle" /\ UNCHANGED <<login, live>> /\ past \subseteq past'
      BY <1>2, <1>m DEF Request, creds, server
    <2>2. CASE call' = NoCall
      <3>1. verdict' # "Registered"
        BY <1>2, <2>2 DEF Request, Return, CredFailed, DoFailed, EnrichFailed
      <3> QED
        BY <1>t, <2>2, <3>1, IdleServed
    <2>3. CASE call' # NoCall
      <3>1. /\ call' = [NoCall EXCEPT !.at = "sent", !.op = op, !.sent = token,
                          !.who = IF op \in WithLogin THEN login ELSE NoLogin]
            /\ verdict' = "none"
        BY <1>2, <2>3 DEF Request, Return
      <3>2. /\ call'.at = "sent" /\ call'.op = op
            /\ call'.who = IF op \in WithLogin THEN login ELSE NoLogin
        BY <3>1 DEF NoCall
      <3> QED
        BY <1>t, <2>1, <3>1, <3>2
           DEF ServedInv, Anonymous, WhoIsLogin, Undecided, Concluded, Handled
    <2> QED
      BY <2>2, <2>3
  <1>3. CASE ServeRegister
    <2>1. PICK l \in Logins : Answer(l, "ok")
      BY <1>3 DEF ServeRegister
    <2>2. PICK t : Answered(l, "ok", t)
      BY <1>t, <2>1, AnswerFresh
    <2>3. /\ call.at = "sent" /\ call.op = "register" /\ call.op \notin WithLogin
          /\ login' = login /\ verdict' = verdict /\ past' = past
      BY <1>3 DEF ServeRegister, creds, WithLogin
    <2>4. l # NoLogin
      BY DistinctAssumption
    <2> QED
      BY <1>t, <2>2, <2>3, <2>4, AnsweredServed
  <1>4. CASE ServeSystem
    <2>1. PICK kind \in {"ok", "error"} :
             /\ Answer(call.who, kind)
             /\ live' = IF kind = "ok" /\ call.op = "deregister" THEN live \ {call.who} ELSE live
      BY <1>4 DEF ServeSystem
    <2>2. /\ call.at = "sent" /\ call.who \in live /\ call.who \in Logins /\ call.who # NoLogin
          /\ login' = login /\ verdict' = verdict /\ past' = past
      BY <1>4, <1>t, DistinctAssumption DEF ServeSystem, TypeOK, creds
    <2>3. PICK t : Answered(call.who, kind, t)
      BY <1>t, <2>1, <2>2, AnswerFresh
    <2>4. call.op \in WithLogin /\ call.who = login
      BY <2>2 DEF ServedInv, Anonymous, WhoIsLogin
    <2> QED
      BY <1>t, <2>1, <2>2, <2>3, <2>4, AnsweredServed DEF WithLogin
  <1>5. CASE ServeRegcode
    <2>1. /\ call.at = "sent" /\ call.op = "regcode" /\ call.op \notin WithLogin
          /\ login' = login /\ verdict' = verdict /\ past' = past
          /\ Answered(NoLogin, "ok", NoToken)
      BY <1>5 DEF ServeRegcode, creds, WithLogin
    <2> QED
      BY <1>t, <2>1, AnsweredServed
  <1>6. CASE Refuse
    <2>1. /\ call.at = "sent" /\ login' = login /\ verdict' = verdict /\ past' = past
          /\ Answered(call.who, "error", NoToken)
      BY <1>6 DEF Refuse, creds
    <2> QED
      BY <1>t, <2>1, AnsweredServed
  <1>7. CASE Gateway
    <2>1. /\ call.at = "sent" /\ login' = login /\ verdict' = verdict /\ past \subseteq past'
          /\ "gateway" \in past' /\ Answered(call.who, "gateway", NoToken)
      BY <1>7, <1>m DEF Gateway, creds
    <2> QED
      BY <1>t, <2>1, AnsweredServed
  <1>8. CASE Lose
    <2>1. call' = NoCall /\ verdict' = DoFailed(call.op)
      BY <1>8 DEF Lose, Return
    <2> QED
      BY <1>t, <2>1, IdleServed DEF DoFailed
  <1>9. CASE UpdateToken
    <2>1. call.at = "reply" /\ UNCHANGED <<login, live>> /\ past \subseteq past'
      BY <1>9, <1>m DEF UpdateToken, server
    <2>2. CASE call' = NoCall
      <3>2. [call EXCEPT !.at = "done"] # NoCall
        BY <1>t DEF TypeOK, Calls, NoCall
      <3>3. verdict' = DoFailed(call.op)
        BY <1>9, <2>2, <3>2 DEF UpdateToken, Return
      <3> QED
        BY <1>t, <2>2, <3>3, IdleServed DEF DoFailed
    <2>3. CASE call' # NoCall
      <3>1. /\ call' = [call EXCEPT !.at = "done"] /\ verdict' = verdict
            /\ ~IsApiError(call.kind)
        BY <1>9, <2>3 DEF UpdateToken, Return
      <3>2. /\ call'.at = "done" /\ call'.op = call.op /\ call'.kind = call.kind
            /\ call'.who = call.who
        BY <3>1, <1>t DEF TypeOK, Calls
      <3>3. call.kind \in {"ok", "gateway"}
        BY <3>1, <1>t DEF IsApiError, TypeOK, Calls
      <3>4. Anonymous' /\ WhoIsLogin' /\ Undecided'
        BY <2>1, <3>1, <3>2 DEF ServedInv, Anonymous, WhoIsLogin, Undecided
      <3>5. Concluded'
        BY <2>1, <3>1, <3>2, <3>3 DEF ServedInv, Concluded, Handled
      <3> QED
        BY <1>t, <3>4, <3>5 DEF ServedInv
    <2> QED
      BY <2>2, <2>3
  <1>10. CASE Register \/ Deregister \/ Query \/ Crash
    <2>1. call' = NoCall /\ verdict' # "Registered"
      BY <1>10 DEF Register, Deregister, Query, Crash, SetLogin, Return
    <2> QED
      BY <1>t, <2>1, IdleServed
  <1>11. CASE Status
    <2>1. /\ call' = NoCall /\ call.at = "done" /\ call.op = "status"
          /\ UNCHANGED <<login, live, past>>
      BY <1>11 DEF Status, Return, creds, server
    <2>2. "gateway" \notin past => login \in live
      BY <2>1 DEF ServedInv, Concluded, Handled
    <2> QED
      BY <1>t, <2>1, <2>2, IdleServed
  <1> QED
    BY <1>1, <1>2, <1>3, <1>4, <1>5, <1>6, <1>7, <1>8, <1>9, <1>10, <1>11 DEF Next

LEMMA ServedAlways == Spec => []ServedInv
  BY InitServed, NextServed, PTL DEF Spec

\* Status never reports a system as registered, and no error, that the server does
\* not have, after whatever was lost, cut, not stored or crashed, unless a gateway
\* answered. (Beside the error for unusable extra data it always says Registered.)
THEOREM RegisteredMeansKnown == Spec => []RegisteredIsTrue
  <1>1. ServedInv => RegisteredIsTrue
    BY DEF ServedInv, Concluded, RegisteredIsTrue
  <1> QED
    BY <1>1, ServedAlways, PTL

LEMMA StepForgetsOnlyDeleted == ServedInv /\ [Next]_vars => [~ForgetsLiveSystem]_vars
  <1> SUFFICES ASSUME ServedInv, Next, ForgetsLiveSystem PROVE FALSE
    OBVIOUS
  <1>1. login \in live /\ login' = NoLogin /\ "gateway" \notin past /\ login # NoLogin
    BY DistinctAssumption DEF ForgetsLiveSystem, ServedInv, TypeOK
  <1>2. CASE Register
    <2>1. call.at = "done" /\ call.op = "register" /\ login' \in {login, call.who}
      BY <1>2 DEF Register, SetLogin
    <2>2. call.kind = "ok"
      BY <1>1, <2>1 DEF ServedInv, Concluded
    <2> QED
      BY <1>1, <2>1, <2>2 DEF ServedInv, Concluded, Handled
  <1>3. CASE Deregister
    <2>1. call.at = "done" /\ call.op = "deregister"
      BY <1>3 DEF Deregister
    <2> QED
      BY <1>1, <2>1 DEF ServedInv, Concluded, Handled
  <1>4. ASSUME ~Register, ~Deregister PROVE login' = login
    BY <1>4 DEF Next, Request, ServeRegister, ServeSystem, ServeRegcode, Refuse, Gateway, Lose,
                UpdateToken, Status, Query, Crash, creds
  <1> QED
    BY <1>1, <1>2, <1>3, <1>4

\* The object forgets its login only when the server has deleted the system, after
\* whatever was lost, cut, not stored or crashed, unless a gateway answered.
THEOREM NoSystemForgotten == Spec => ForgetsOnlyDeleted
  BY ServedAlways, StepForgetsOnlyDeleted, PTL DEF Spec, ForgetsOnlyDeleted
===============================================================================
