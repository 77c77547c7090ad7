------------------------- MODULE PasswordResetProofs -------------------------
(***************************************************************************)
(* Theorems about PasswordReset: for any number of users, workers and      *)
(* tokens, and any lifetime of a link.                                     *)
(***************************************************************************)
EXTENDS PasswordReset, TLAPS

-----------------------------------------------------------------------------
(* The inductive invariant.                                                *)

\* A request for a link, or of one, holds a token that was drawn, for one user;
\* while it is not saved nobody else has it, and while it is not mailed no mailbox.
\* The settings hold none.
HasToken(r) == r.at \in {"drawn", "saved", "opened"}

RequestOK(w) ==
  /\ ~HasToken(req[w]) => req[w].token = None
  /\ req[w].at # "idle" => req[w].user \in Users
  /\ HasToken(req[w]) => req[w].token \in Drawn
  /\ req[w].at \in {"drawn", "saved"} =>
       /\ \A v \in Users : req[w].token \notin mailed[v]
       /\ \A x \in Workers : req[x].token = req[w].token => x = w
  /\ req[w].at = "drawn" =>
       /\ req[w].sentAt = issued[req[w].token]
       /\ \A u \in Users : token[u] # req[w].token

RequestsOK == \A w \in Workers : RequestOK(w)

\* Rows, mailboxes and requests agree whose a token is.
OneOwner ==
  /\ \A u, v \in Users : token[u] # None /\ token[u] = token[v] => u = v
  /\ \A w \in Workers, u \in Users :
       HasToken(req[w]) /\ token[u] = req[w].token => req[w].user = u

MailedWereDrawn == \A v \in Users : mailed[v] \subseteq Drawn

ResetInv ==
  /\ TypeOK
  /\ RequestsOK
  /\ OneOwner
  /\ MailedWereDrawn
  /\ SentWithItsToken
  /\ LinkIsItsReaders
  /\ LinkOnItsWay

LEMMA NoneIsNoToken == None \notin Users /\ None \notin Nat /\ MaxTokens \in Nat
  BY ResetAssumption

\* What is drawn is a token.
LEMMA DrawnAreTokens ==
  ASSUME TypeOK
  PROVE  /\ Drawn = 1..Len(issued) /\ Drawn \subseteq Tokens /\ Len(issued) \in Nat
         /\ None \notin Tokens
  BY NoneIsNoToken DEF TypeOK, Drawn, Tokens

LEMMA IdleRequest == Idle \in Request /\ Idle.at = "idle" /\ Idle.token = None
  BY DEF Idle, Request

LEMMA InitReset == Init => ResetInv
  <1> SUFFICES ASSUME Init PROVE ResetInv
    OBVIOUS
  <1>1. TypeOK
    <2>1. issued \in Seq(Times) /\ Len(issued) <= MaxTokens /\ clock \in Times
      BY ResetAssumption DEF Init, Times
    <2> QED BY <2>1, IdleRequest DEF Init, TypeOK
  <1>2. RequestsOK /\ OneOwner /\ MailedWereDrawn /\ SentWithItsToken /\ LinkOnItsWay
    BY IdleRequest DEF Init, RequestsOK, RequestOK, HasToken, OneOwner, MailedWereDrawn,
                       SentWithItsToken, LinkOnItsWay
  <1>3. LinkIsItsReaders
    BY DEF Init, LinkIsItsReaders
  <1> QED BY <1>1, <1>2, <1>3 DEF ResetInv

-----------------------------------------------------------------------------
(* One lemma per action.                                                   *)

\* A token that is drawn is in no row, no mailbox and no other request.
LEMMA AskResetKeeps ==
  ASSUME ResetInv, NEW w \in Workers, NEW u \in Users, AskReset(w, u)
  PROVE  ResetInv'
  <1> DEFINE t == Len(issued) + 1
             ask == [Idle EXCEPT !.at = "drawn", !.user = u, !.token = t, !.sentAt = clock]
  <1>1. /\ t \in Tokens /\ t \notin Drawn /\ t # None /\ Drawn \subseteq Tokens
    BY DrawnAreTokens, NoneIsNoToken DEF AskReset, ResetInv, Tokens
  <1>2. /\ issued' \in Seq(Times) /\ Len(issued') <= MaxTokens
        /\ Drawn' = Drawn \cup {t} /\ issued'[t] = clock
        /\ \A s \in Drawn : issued'[s] = issued[s]
    BY NoneIsNoToken DEF AskReset, ResetInv, TypeOK, Drawn
  <1>3. ask \in Request /\ ask.at = "drawn" /\ ask.user = u /\ ask.token = t
        /\ ask.sentAt = clock
    BY <1>1 DEF Idle, Request, ResetInv, TypeOK
  <1>4. req' = [req EXCEPT ![w] = ask]
    BY DEF AskReset
  <1>5. UNCHANGED <<columns, mailed, lost, clock>> /\ req[w].at = "idle"
    BY DEF AskReset, Free
  <1> HIDE DEF t, ask
  <1>6. /\ req' \in [Workers -> Request] /\ req'[w] = ask
        /\ \A x \in Workers : x # w => req'[x] = req[x]
    BY <1>3, <1>4 DEF ResetInv, TypeOK
  <1>7. /\ \A v \in Users : t \notin mailed[v] /\ token[v] # t
        /\ \A x \in Workers : req[x].token # t
    BY <1>1 DEF ResetInv, MailedWereDrawn, SentWithItsToken, RequestsOK, RequestOK, HasToken
  <1>8. TypeOK'
    BY <1>2, <1>5, <1>6 DEF ResetInv, TypeOK, columns
  <1>9. RequestsOK'
    <2> SUFFICES ASSUME NEW x \in Workers PROVE RequestOK(x)'
      BY DEF RequestsOK
    <2>1. CASE x = w
      BY <1>2, <1>3, <1>5, <1>6, <1>7, <2>1 DEF RequestOK, HasToken, columns
    <2>2. CASE x # w
      BY <1>2, <1>3, <1>5, <1>6, <1>7, <2>2 DEF ResetInv, RequestsOK, RequestOK, HasToken, columns
    <2> QED BY <2>1, <2>2
  <1>10. OneOwner'
    BY <1>3, <1>5, <1>6, <1>7 DEF ResetInv, OneOwner, HasToken, columns
  <1>11. MailedWereDrawn' /\ SentWithItsToken'
    BY <1>2, <1>5 DEF ResetInv, MailedWereDrawn, SentWithItsToken, columns
  <1>12. LinkIsItsReaders'
    BY <1>3, <1>5, <1>6, <1>7 DEF ResetInv, LinkIsItsReaders, columns
  <1>13. LinkOnItsWay'
    BY <1>5, <1>6 DEF ResetInv, LinkOnItsWay, columns
  <1> QED BY <1>8, <1>9, <1>10, <1>11, <1>12, <1>13 DEF ResetInv

LEMMA SaveResetKeeps ==
  ASSUME ResetInv, NEW w \in Workers, SaveReset(w)
  PROVE  ResetInv'
  <1> DEFINE u == req[w].user
             t == req[w].token
  <1>1. /\ u \in Users /\ t \in Drawn /\ req[w].sentAt = issued[t] /\ req[w].at = "drawn"
        /\ \A v \in Users : token[v] # t /\ t \notin mailed[v]
        /\ \A x \in Workers : req[x].token = t => x = w
    BY DEF ResetInv, RequestsOK, RequestOK, HasToken, SaveReset
  <1>2. t \in Tokens /\ t # None
    BY <1>1, DrawnAreTokens DEF ResetInv
  <1>3. /\ token' = [token EXCEPT ![u] = t] /\ sentAt' = [sentAt EXCEPT ![u] = issued[t]]
        /\ UNCHANGED <<password, mailed, issued, lost, clock>>
    BY <1>1 DEF SaveReset, ghosts
  <1>4. /\ req' \in [Workers -> Request]
        /\ \A x \in Workers : x # w => req'[x] = req[x]
        /\ req'[w].at = "saved" /\ req'[w].user = u /\ req'[w].token = t
    BY DEF SaveReset, ResetInv, TypeOK, Request
  <1> HIDE DEF u, t
  <1>5. /\ \A v \in Users : v # u => token'[v] = token[v] /\ sentAt'[v] = sentAt[v]
        /\ token'[u] = t /\ sentAt'[u] = issued[t]
    BY <1>1, <1>3 DEF ResetInv, TypeOK
  <1>6. TypeOK'
    <2>1. issued[t] \in Times
      BY <1>1 DEF ResetInv, TypeOK, Drawn
    <2> QED BY <1>2, <1>3, <1>4, <2>1 DEF ResetInv, TypeOK
  <1>7. RequestsOK'
    <2> SUFFICES ASSUME NEW x \in Workers PROVE RequestOK(x)'
      BY DEF RequestsOK
    <2>1. CASE x = w
      BY <1>1, <1>3, <1>4, <2>1 DEF ResetInv, RequestsOK, RequestOK, HasToken, Drawn, u, t
    <2>2. CASE x # w
      BY <1>1, <1>3, <1>4, <1>5, <2>2 DEF ResetInv, RequestsOK, RequestOK, HasToken, Drawn, t
    <2> QED BY <2>1, <2>2
  <1>8. OneOwner'
    <2>1. \A v \in Users : token'[v] = t => v = u
      BY <1>1, <1>5
    <2> QED BY <1>1, <1>4, <1>5, <2>1 DEF ResetInv, OneOwner, HasToken
  <1>9. MailedWereDrawn' /\ SentWithItsToken'
    BY <1>1, <1>2, <1>3, <1>5 DEF ResetInv, MailedWereDrawn, SentWithItsToken, Drawn
  <1>10. LinkIsItsReaders'
    BY <1>1, <1>3, <1>4, <1>5 DEF ResetInv, LinkIsItsReaders, t
  <1>11. LinkOnItsWay'
    BY <1>1, <1>3, <1>4, <1>5 DEF ResetInv, LinkOnItsWay
  <1> QED BY <1>6, <1>7, <1>8, <1>9, <1>10, <1>11 DEF ResetInv

LEMMA MailLinkKeeps ==
  ASSUME ResetInv, NEW w \in Workers, MailLink(w)
  PROVE  ResetInv'
  <1> DEFINE u == req[w].user
             t == req[w].token
  <1>1. /\ u \in Users /\ t \in Drawn /\ t \in Tokens
        /\ \A x \in Workers : req[x].token = t => x = w
        /\ \A v \in Users : token[v] = t => v = u
    BY DrawnAreTokens DEF ResetInv, RequestsOK, RequestOK, HasToken, OneOwner, MailLink
  <1>2. /\ mailed' = [mailed EXCEPT ![u] = @ \cup {t}]
        /\ UNCHANGED <<token, sentAt, password, issued, lost, clock>>
        /\ req[w].at = "saved"
    BY DEF MailLink, columns, ghosts
  <1>3. /\ req' \in [Workers -> Request] /\ req'[w] = Idle
        /\ \A x \in Workers : x # w => req'[x] = req[x]
    BY IdleRequest DEF MailLink, Drop, ResetInv, TypeOK
  <1>4. /\ \A v \in Users : v # u => mailed'[v] = mailed[v]
        /\ mailed'[u] = mailed[u] \cup {t}
    BY <1>1, <1>2 DEF ResetInv, TypeOK
  <1>5. TypeOK'
    BY <1>1, <1>2, <1>3 DEF ResetInv, TypeOK
  <1> HIDE DEF u, t
  <1>6. RequestsOK'
    <2> SUFFICES ASSUME NEW x \in Workers PROVE RequestOK(x)'
      BY DEF RequestsOK
    <2>1. CASE x = w
      BY <1>3, <2>1, IdleRequest DEF RequestOK, HasToken
    <2>2. CASE x # w
      <3>1. HasToken(req[x]) => req[x].token # None
        BY DrawnAreTokens DEF ResetInv, RequestsOK, RequestOK, HasToken
      <3> QED BY <1>1, <1>2, <1>3, <1>4, <2>2, <3>1, IdleRequest
            DEF ResetInv, RequestsOK, RequestOK, HasToken, Drawn
    <2> QED BY <2>1, <2>2
  <1>7. OneOwner'
    BY <1>2, <1>3, IdleRequest DEF ResetInv, OneOwner, HasToken
  <1>8. MailedWereDrawn' /\ SentWithItsToken'
    BY <1>1, <1>2, <1>4 DEF ResetInv, MailedWereDrawn, SentWithItsToken, Drawn
  <1>9. LinkIsItsReaders'
    <2>1. \A x \in Workers : x # w => req'[x].token # t
      BY <1>1, <1>3
    <2>2. \A v \in Users : None \notin mailed'[v]
      BY <1>5, DrawnAreTokens DEF TypeOK, ResetInv
    <2> QED BY <1>1, <1>2, <1>3, <1>4, <2>1, <2>2, IdleRequest DEF ResetInv, LinkIsItsReaders
  <1>10. LinkOnItsWay'
    <2> SUFFICES ASSUME NEW v \in Users
                 PROVE  \/ token'[v] \in mailed'[v] \cup lost' \cup {None}
                        \/ \E x \in Workers : req'[x].at = "saved" /\ req'[x].token = token'[v]
      BY DEF LinkOnItsWay
    <2>1. CASE token[v] = t
      BY <1>1, <1>2, <1>4, <2>1
    <2>2. CASE token[v] # t
      BY <1>2, <1>3, <1>4, <2>2 DEF ResetInv, LinkOnItsWay, t
    <2> QED BY <2>1, <2>2
  <1> QED BY <1>5, <1>6, <1>7, <1>8, <1>9, <1>10 DEF ResetInv

\* Who follows a link has a token in the mailbox, so it is the user's own.
LEMMA OpenLinkKeeps ==
  ASSUME ResetInv, NEW w \in Workers, NEW v \in Users, NEW p \in Passwords \cup {None},
         NEW t \in mailed[v], OpenLink(w, v, t, p)
  PROVE  ResetInv'
  <1>1. PICK u \in Users :
          /\ token[u] = t
          /\ req' = [req EXCEPT ![w] = [Idle EXCEPT !.at = "opened", !.user = u,
                                                   !.token = t, !.password = p]]
    BY DEF OpenLink
  <1> DEFINE open == [Idle EXCEPT !.at = "opened", !.user = u, !.token = t,
                                  !.password = p]
  <1>2. req' = [req EXCEPT ![w] = open]
    BY <1>1
  <1>3. t \in Drawn /\ t \in Tokens /\ t # None
    BY DrawnAreTokens DEF ResetInv, MailedWereDrawn
  <1>4. /\ open \in Request /\ open.at = "opened" /\ open.user = u /\ open.token = t
    BY <1>3 DEF Idle, Request
  <1> HIDE DEF open
  <1>5. /\ req' \in [Workers -> Request] /\ req'[w] = open
        /\ \A x \in Workers : x # w => req'[x] = req[x]
    BY <1>2, <1>4 DEF ResetInv, TypeOK
  <1>6. UNCHANGED <<token, sentAt, password, mailed, issued, lost, clock>>
        /\ req[w].at = "idle"
    BY DEF OpenLink, columns, ghosts, Free
  <1>7. \A x \in Users : t \in mailed[x] => x = u
    BY <1>1 DEF ResetInv, LinkIsItsReaders
  <1>8. TypeOK' /\ MailedWereDrawn' /\ SentWithItsToken'
    BY <1>5, <1>6 DEF ResetInv, TypeOK, MailedWereDrawn, SentWithItsToken, Drawn
  <1>9. RequestsOK'
    <2> SUFFICES ASSUME NEW x \in Workers PROVE RequestOK(x)'
      BY DEF RequestsOK
    <2>1. CASE x = w
      BY <1>3, <1>4, <1>5, <1>6, <2>1 DEF RequestOK, HasToken, Drawn
    <2>2. CASE x # w
      BY <1>4, <1>5, <1>6, <2>2 DEF ResetInv, RequestsOK, RequestOK, HasToken, Drawn
    <2> QED BY <2>1, <2>2
  <1>10. OneOwner'
    BY <1>1, <1>3, <1>4, <1>5, <1>6 DEF ResetInv, OneOwner, HasToken
  <1>11. LinkIsItsReaders'
    BY <1>4, <1>5, <1>6, <1>7 DEF ResetInv, LinkIsItsReaders
  <1>12. LinkOnItsWay'
    BY <1>5, <1>6 DEF ResetInv, LinkOnItsWay
  <1> QED BY <1>8, <1>9, <1>10, <1>11, <1>12 DEF ResetInv

\* The settings hold no token, so nobody can take theirs for another user's.
LEMMA OpenSettingsKeeps ==
  ASSUME ResetInv, NEW w \in Workers, NEW u \in Users, NEW p \in Passwords \cup {None},
         OpenSettings(w, u, p)
  PROVE  ResetInv'
  <1> DEFINE settings == [Idle EXCEPT !.at = "settings", !.user = u, !.password = p]
  <1>1. req' = [req EXCEPT ![w] = settings]
    BY DEF OpenSettings
  <1>2. /\ settings \in Request /\ settings.at = "settings" /\ settings.user = u
        /\ settings.token = None
    BY DEF Idle, Request
  <1> HIDE DEF settings
  <1>3. /\ req' \in [Workers -> Request] /\ req'[w] = settings
        /\ \A x \in Workers : x # w => req'[x] = req[x]
    BY <1>1, <1>2 DEF ResetInv, TypeOK
  <1>4. UNCHANGED <<token, sentAt, password, mailed, issued, lost, clock>>
        /\ req[w].at = "idle"
    BY DEF OpenSettings, columns, ghosts, Free
  <1>5. TypeOK' /\ MailedWereDrawn' /\ SentWithItsToken'
    BY <1>3, <1>4 DEF ResetInv, TypeOK, MailedWereDrawn, SentWithItsToken, Drawn
  <1>6. RequestsOK'
    <2> SUFFICES ASSUME NEW x \in Workers PROVE RequestOK(x)'
      BY DEF RequestsOK
    <2>1. CASE x = w
      BY <1>2, <1>3, <2>1 DEF RequestOK, HasToken
    <2>2. CASE x # w
      <3>1. HasToken(req[x]) => req[x].token # None
        BY DrawnAreTokens DEF ResetInv, RequestsOK, RequestOK
      <3> QED BY <1>2, <1>3, <1>4, <2>2, <3>1
            DEF ResetInv, RequestsOK, RequestOK, HasToken, Drawn
    <2> QED BY <2>1, <2>2
  <1>7. OneOwner'
    BY <1>2, <1>3, <1>4 DEF ResetInv, OneOwner, HasToken
  <1>8. LinkIsItsReaders'
    <2>1. \A v \in Users : None \notin mailed[v]
      BY DrawnAreTokens DEF TypeOK, ResetInv
    <2> QED BY <1>2, <1>3, <1>4, <2>1 DEF ResetInv, LinkIsItsReaders
  <1>9. LinkOnItsWay'
    BY <1>3, <1>4 DEF ResetInv, LinkOnItsWay
  <1> QED BY <1>5, <1>6, <1>7, <1>8, <1>9 DEF ResetInv

\* A request that ends leaves the invariant, if it had nothing to mail or its
\* token is known to be lost.
LEMMA DropKeeps ==
  ASSUME ResetInv, NEW w \in Workers, Drop(w), password' \in [Users -> Passwords],
         lost \subseteq lost', lost' \subseteq Tokens,
         req[w].at = "saved" => req[w].token \in lost',
         UNCHANGED <<token, sentAt, mailed, issued, clock>>
  PROVE  ResetInv'
  <1>1. /\ req' \in [Workers -> Request] /\ req'[w] = Idle
        /\ \A x \in Workers : x # w => req'[x] = req[x]
    BY IdleRequest DEF Drop, ResetInv, TypeOK
  <1>2. TypeOK' /\ MailedWereDrawn' /\ SentWithItsToken'
    BY <1>1 DEF ResetInv, TypeOK, MailedWereDrawn, SentWithItsToken, Drawn
  <1>3. RequestsOK'
    <2> SUFFICES ASSUME NEW x \in Workers PROVE RequestOK(x)'
      BY DEF RequestsOK
    <2>1. CASE x = w
      BY <1>1, <2>1, IdleRequest DEF RequestOK, HasToken
    <2>2. CASE x # w
      <3>1. HasToken(req[x]) => req[x].token # None
        BY DrawnAreTokens DEF ResetInv, RequestsOK, RequestOK, HasToken
      <3> QED BY <1>1, <2>2, <3>1, IdleRequest DEF ResetInv, RequestsOK, RequestOK, HasToken, Drawn
    <2> QED BY <2>1, <2>2
  <1>4. OneOwner'
    BY <1>1, IdleRequest DEF ResetInv, OneOwner, HasToken
  <1>5. LinkIsItsReaders'
    <2>1. \A v \in Users : None \notin mailed[v]
      BY DrawnAreTokens DEF TypeOK, ResetInv
    <2> QED BY <1>1, <2>1, IdleRequest DEF ResetInv, LinkIsItsReaders
  <1>6. LinkOnItsWay'
    BY <1>1 DEF ResetInv, LinkOnItsWay
  <1> QED BY <1>2, <1>3, <1>4, <1>5, <1>6 DEF ResetInv

LEMMA SavePasswordKeeps ==
  ASSUME ResetInv, NEW w \in Workers, SavePassword(w)
  PROVE  ResetInv'
  <1>1. req[w].password \in Passwords \cup {None}
    BY DEF ResetInv, TypeOK, Request
  <1>2. password' \in [Users -> Passwords]
    BY <1>1 DEF SavePassword, ResetInv, TypeOK
  <1>3. lost \subseteq Tokens
    BY DEF ResetInv, TypeOK
  <1> QED BY <1>2, <1>3, DropKeeps DEF SavePassword, ghosts

LEMMA FailKeeps ==
  ASSUME ResetInv, NEW w \in Workers, Fail(w)
  PROVE  ResetInv'
  <1>1. password \in [Users -> Passwords] /\ lost \subseteq Tokens
    BY DEF ResetInv, TypeOK
  <1>2. req[w].at = "saved" => req[w].token \in Tokens
    BY DrawnAreTokens DEF ResetInv, RequestsOK, RequestOK, HasToken
  <1> QED BY <1>1, <1>2, DropKeeps DEF Fail, columns

LEMMA TickKeeps ==
  ASSUME ResetInv, Tick
  PROVE  ResetInv'
  <1>1. clock' \in Times
    BY ResetAssumption DEF Tick, ResetInv, TypeOK, Times
  <1> QED BY <1>1
        DEF Tick, columns, ghosts, ResetInv, TypeOK, RequestsOK, RequestOK, HasToken, OneOwner,
            MailedWereDrawn, SentWithItsToken, LinkIsItsReaders, LinkOnItsWay, Drawn

LEMMA NextReset == ResetInv /\ [Next]_vars => ResetInv'
  <1> SUFFICES ASSUME ResetInv, [Next]_vars PROVE ResetInv'
    OBVIOUS
  <1>1. CASE UNCHANGED vars
    BY <1>1 DEF vars, columns, ghosts, ResetInv, TypeOK, RequestsOK, RequestOK, HasToken, OneOwner,
            MailedWereDrawn, SentWithItsToken, LinkIsItsReaders, LinkOnItsWay, Drawn
  <1>2. ASSUME NEW w \in Workers, Continue(w)
        PROVE  ResetInv'
    BY <1>2, SaveResetKeeps, MailLinkKeeps, SavePasswordKeeps DEF Continue
  <1> QED BY <1>1, <1>2, AskResetKeeps, OpenLinkKeeps, OpenSettingsKeeps, FailKeeps, TickKeeps
        DEF Next

\* Rows, mailboxes and requests agree on every token.
THEOREM ResetInvariance == Spec => []ResetInv
  BY InitReset, NextReset, PTL DEF Spec

\* Every row, mailbox and request keeps its type.
THEOREM ResetTypeCorrect == Spec => []TypeOK
  <1>1. ResetInv => TypeOK
    BY DEF ResetInv
  <1> QED BY <1>1, ResetInvariance, PTL

\* The time in a row is always that of the token in it.
THEOREM SentWithItsTokenTheorem == Spec => []SentWithItsToken
  <1>1. ResetInv => SentWithItsToken
    BY DEF ResetInv
  <1> QED BY <1>1, ResetInvariance, PTL

\* A link in a mailbox only ever opens the row of its reader.
THEOREM LinkIsItsReadersTheorem == Spec => []LinkIsItsReaders
  <1>1. ResetInv => LinkIsItsReaders
    BY DEF ResetInv
  <1> QED BY <1>1, ResetInvariance, PTL

\* The token in a row was mailed, will be, or died with its request.
THEOREM LinkOnItsWayTheorem == Spec => []LinkOnItsWay
  <1>1. ResetInv => LinkOnItsWay
    BY DEF ResetInv
  <1> QED BY <1>1, ResetInvariance, PTL

-----------------------------------------------------------------------------
(* The refinement: what requests do with tokens is what a lock does with   *)
(* keys.                                                                   *)

\* How an attempt at the lock is seen in the memory of a worker.
Trying(r) == r.at \in {"opened", "settings"}

Attempt(r) ==
  IF Trying(r) THEN [owner |-> r.user, key |-> r.token] ELSE None

\* An attempt under way is not the absence of one.
LEMMA AttemptIsSomething ==
  ASSUME ResetInv, NEW w \in Workers, Trying(req[w])
  PROVE  /\ Attempt(req[w]) = [owner |-> req[w].user, key |-> req[w].token]
         /\ Attempt(req[w]) # None
         /\ Attempt(req[w]).owner = req[w].user
  <1>1. req[w].user \in Users /\ req[w].token \in Nat \cup {None}
    BY DrawnAreTokens DEF ResetInv, RequestsOK, RequestOK, HasToken, Trying
  <1>2. [owner |-> req[w].user, key |-> req[w].token]
          \in [owner: Users, key: Nat \cup {None}]
    BY <1>1
  <1>3. None \notin [owner: Users, key: Nat \cup {None}]
    BY ResetAssumption
  <1> QED BY <1>2, <1>3 DEF Attempt

LEMMA InitRefines == Init => Lock!ResetLockInit
  BY IdleRequest DEF Init, Lock!ResetLockInit

\* A step of one worker that is at no attempt before or after it.
LEMMA NoAttempt ==
  ASSUME NEW w \in Workers, ~Trying(req[w]), ~Trying(req'[w]),
         \A x \in Workers : x # w => req'[x] = req[x]
  PROVE  \A x \in Workers : Attempt(req'[x]) = Attempt(req[x])
  BY DEF Attempt

LEMMA AskRefines ==
  ASSUME ResetInv, ResetInv', NEW w \in Workers, NEW u \in Users, AskReset(w, u)
  PROVE  Lock!Cut
  <1>1. /\ issued' = Append(issued, clock)
        /\ UNCHANGED <<token, password, clock>>
    BY DEF AskReset, columns
  <1>2. ~Trying(req[w]) /\ ~Trying(req'[w])
        /\ \A x \in Workers : x # w => req'[x] = req[x]
    BY DEF AskReset, Free, Idle, Trying, ResetInv, TypeOK
  <1> QED BY <1>1, <1>2, NoAttempt DEF Lock!Cut, Attempt, Trying

LEMMA SaveRefines ==
  ASSUME ResetInv, NEW w \in Workers, SaveReset(w)
  PROVE  \E o \in Users : \E k \in DOMAIN issued : Lock!Install(o, k)
  <1>1. /\ req[w].user \in Users /\ req[w].token \in Drawn
        /\ \A u \in Users : token[u] # req[w].token
    BY DEF SaveReset, ResetInv, RequestsOK, RequestOK, HasToken
  <1>2. /\ token' = [token EXCEPT ![req[w].user] = req[w].token]
        /\ UNCHANGED <<issued, password, clock>>
    BY DEF SaveReset, ghosts
  <1>3. ~Trying(req[w]) /\ ~Trying(req'[w])
        /\ \A x \in Workers : x # w => req'[x] = req[x]
    BY DEF SaveReset, Trying, ResetInv, TypeOK, Request
  <1>4. Lock!Install(req[w].user, req[w].token)
    BY <1>1, <1>2, <1>3, NoAttempt DEF Lock!Install, Attempt, Trying, Drawn
  <1> QED BY <1>1, <1>4 DEF Drawn

LEMMA MailRefines ==
  ASSUME ResetInv, NEW w \in Workers, MailLink(w)
  PROVE  UNCHANGED Lock!resetlock
  <1>1. ~Trying(req[w]) /\ ~Trying(req'[w])
        /\ \A x \in Workers : x # w => req'[x] = req[x]
    BY IdleRequest DEF MailLink, Drop, Trying, ResetInv, TypeOK
  <1> QED BY <1>1, NoAttempt DEF MailLink, columns, ghosts, Lock!resetlock, Attempt, Trying

\* The age is told by the row that was read, where the time is the token's own.
LEMMA OpenRefines ==
  ASSUME ResetInv, ResetInv', NEW w \in Workers, NEW v \in Users, NEW t \in mailed[v],
         NEW p \in Passwords \cup {None}, OpenLink(w, v, t, p)
  PROVE  \E a \in Workers, o \in Users : Lock!Show(a, o)
  <1>1. PICK u \in Users :
          /\ token[u] = t /\ clock <= sentAt[u] + Lifetime
          /\ req' = [req EXCEPT ![w] = [Idle EXCEPT !.at = "opened", !.user = u,
                                                   !.token = t, !.password = p]]
    BY DEF OpenLink
  <1>2. UNCHANGED <<token, password, issued, clock>> /\ req[w].at = "idle"
    BY DEF OpenLink, columns, ghosts, Free
  <1>3. t # None /\ sentAt[u] = issued[t]
    BY <1>1, DrawnAreTokens DEF ResetInv, MailedWereDrawn, SentWithItsToken
  <1>4. /\ req'[w].at = "opened" /\ req'[w].user = u /\ req'[w].token = t
        /\ \A x \in Workers : x # w => req'[x] = req[x]
    BY <1>1 DEF ResetInv, TypeOK, Idle
  <1>5. Attempt(req[w]) = None /\ Attempt(req'[w]) = [owner |-> u, key |-> t]
    BY <1>2, <1>4 DEF Attempt, Trying
  <1>6. [x \in Workers |-> Attempt(req'[x])]
          = [[x \in Workers |-> Attempt(req[x])] EXCEPT ![w] = [owner |-> u, key |-> t]]
    BY <1>4, <1>5
  <1>7. Lock!Show(w, u)
    BY <1>1, <1>2, <1>3, <1>5, <1>6 DEF Lock!Show, Attempt, Trying
  <1> QED BY <1>7

\* The settings are an attempt from the inside, which has no key to show.
LEMMA SettingsRefines ==
  ASSUME ResetInv, NEW w \in Workers, NEW u \in Users, NEW p \in Passwords \cup {None},
         OpenSettings(w, u, p)
  PROVE  \E a \in Workers, o \in Users : Lock!FromInside(a, o)
  <1>1. UNCHANGED <<token, password, issued, clock>> /\ req[w].at = "idle"
    BY DEF OpenSettings, columns, ghosts, Free
  <1>2. /\ req'[w].at = "settings" /\ req'[w].user = u /\ req'[w].token = None
        /\ \A x \in Workers : x # w => req'[x] = req[x]
    BY DEF OpenSettings, ResetInv, TypeOK, Idle
  <1>3. Attempt(req[w]) = None /\ Attempt(req'[w]) = [owner |-> u, key |-> None]
    BY <1>1, <1>2 DEF Attempt, Trying
  <1>4. [x \in Workers |-> Attempt(req'[x])]
          = [[x \in Workers |-> Attempt(req[x])] EXCEPT ![w] = [owner |-> u, key |-> None]]
    BY <1>2, <1>3
  <1>5. Lock!FromInside(w, u)
    BY <1>1, <1>3, <1>4 DEF Lock!FromInside, Attempt, Trying
  <1> QED BY <1>5

\* A request that was opened turns the lock, or gives up with a blank field or by
\* dying.
LEMMA CloseRefines ==
  ASSUME ResetInv, NEW w \in Workers, Trying(req[w]), Drop(w),
         UNCHANGED <<token, issued, clock>>,
         \/ password' = password
         \/ \E s \in Passwords : password' = [password EXCEPT ![req[w].user] = s]
  PROVE  \E a \in Workers : Lock!Finish(a)
  <1>1. /\ Attempt(req[w]) # None /\ Attempt(req[w]).owner = req[w].user
    BY AttemptIsSomething
  <1>2. req'[w] = Idle /\ \A x \in Workers : x # w => req'[x] = req[x]
    BY DEF Drop, ResetInv, TypeOK
  <1>3. Attempt(req'[w]) = None
    BY <1>2, IdleRequest DEF Attempt, Trying
  <1>4. [x \in Workers |-> Attempt(req'[x])]
          = [[x \in Workers |-> Attempt(req[x])] EXCEPT ![w] = None]
    BY <1>2, <1>3
  <1>5. CASE password' = password
    BY <1>1, <1>4, <1>5 DEF Lock!Finish, Lock!GiveUp, Attempt, Trying
  <1>6. ASSUME NEW s \in Passwords, password' = [password EXCEPT ![req[w].user] = s]
        PROVE  Lock!Turn(w, s)
    BY <1>1, <1>4, <1>6 DEF Lock!Turn, Attempt, Trying
  <1> QED BY <1>5, <1>6 DEF Lock!Finish

LEMMA SavePasswordRefines ==
  ASSUME ResetInv, NEW w \in Workers, SavePassword(w)
  PROVE  \E a \in Workers : Lock!Finish(a)
  <1>1. req[w].password \in Passwords \cup {None}
    BY DEF ResetInv, TypeOK, Request
  <1>2. \/ password' = password
        \/ \E s \in Passwords : password' = [password EXCEPT ![req[w].user] = s]
    BY <1>1 DEF SavePassword
  <1> QED BY <1>2, CloseRefines DEF SavePassword, Trying, ghosts

LEMMA FailRefines ==
  ASSUME ResetInv, NEW w \in Workers, Fail(w)
  PROVE  (\E a \in Workers : Lock!Finish(a)) \/ UNCHANGED Lock!resetlock
  <1>1. CASE Trying(req[w])
    BY <1>1, CloseRefines DEF Fail, columns
  <1>2. CASE ~Trying(req[w])
    <2>1. ~Trying(req'[w]) /\ \A x \in Workers : x # w => req'[x] = req[x]
      BY IdleRequest DEF Fail, Drop, Trying, ResetInv, TypeOK
    <2> QED BY <1>2, <2>1, NoAttempt DEF Fail, columns, Lock!resetlock, Attempt, Trying
  <1> QED BY <1>1, <1>2

LEMMA NextRefines ==
  ASSUME ResetInv, ResetInv', [Next]_vars
  PROVE  Lock!ResetLockNext \/ UNCHANGED Lock!resetlock
  <1>1. CASE UNCHANGED vars
    BY <1>1 DEF vars, columns, ghosts, Lock!resetlock
  <1>2. ASSUME NEW w \in Workers, NEW u \in Users, AskReset(w, u)
        PROVE  Lock!ResetLockNext
    BY <1>2, AskRefines DEF Lock!ResetLockNext
  <1>3. ASSUME NEW w \in Workers, NEW v \in Users, NEW p \in Passwords \cup {None},
               NEW t \in mailed[v], OpenLink(w, v, t, p)
        PROVE  Lock!ResetLockNext
    BY <1>3, OpenRefines DEF Lock!ResetLockNext
  <1>4. ASSUME NEW w \in Workers, Continue(w) \/ Fail(w)
        PROVE  Lock!ResetLockNext \/ UNCHANGED Lock!resetlock
    BY <1>4, SaveRefines, MailRefines, SavePasswordRefines, FailRefines
    DEF Continue, Lock!ResetLockNext
  <1>5. ASSUME NEW w \in Workers, NEW u \in Users, NEW p \in Passwords \cup {None},
               OpenSettings(w, u, p)
        PROVE  Lock!ResetLockNext
    BY <1>5, SettingsRefines DEF Lock!ResetLockNext
  <1>6. ASSUME Tick
        PROVE  Lock!ResetLockNext
    BY <1>6 DEF Tick, columns, ghosts, Lock!ResetLockNext, Lock!Pass
  <1> QED BY <1>1, <1>2, <1>3, <1>4, <1>5, <1>6 DEF Next

\* Whatever mails arrive and whatever requests overlap or die, a password changes
\* only from the settings or by the key installed last, shown while it was young:
\* the safety part of ResetsAreALock.
THEOREM ResetsAreALockTheorem == Spec => Lock!ResetLockSpec
  <1>1. ResetInv /\ ResetInv' /\ [Next]_vars => [Lock!ResetLockNext]_(Lock!resetlock)
    BY NextRefines
  <1> QED BY <1>1, InitRefines, ResetInvariance, PTL DEF Spec, Lock!ResetLockSpec
-----------------------------------------------------------------------------
(* Old links.                                                              *)

\* A link that can open no form: another one took its place in the row and no
\* request is about to save it again, or it is past its lifetime.
Useless(t) ==
  /\ t \in Drawn
  /\ \/ /\ \A u \in Users : token[u] # t
        /\ \A w \in Workers : req[w].at = "drawn" => req[w].token # t
     \/ clock > issued[t] + Lifetime

OpensWith(t) ==
  \E w \in Workers : req'[w] # req[w] /\ req'[w].at = "opened" /\ req'[w].token = t

\* What a step leaves of the times of the tokens.
LEMMA DrawnStay ==
  ASSUME ResetInv, [Next]_vars
  PROVE  /\ \A t \in Drawn : t \in Drawn' /\ issued'[t] = issued[t] /\ issued[t] \in Nat
         /\ clock \in Nat /\ clock' \in Nat /\ clock <= clock'
  <1>1. /\ clock \in Nat /\ issued \in Seq(Nat) /\ \A t \in Drawn : issued[t] \in Nat
    BY ResetAssumption DEF ResetInv, TypeOK, Times, Drawn
  <1>2. CASE \E w \in Workers, u \in Users : AskReset(w, u)
    BY <1>1, <1>2 DEF AskReset, Drawn
  <1>3. CASE UNCHANGED issued /\ UNCHANGED clock
    BY <1>1, <1>3 DEF Drawn
  <1>4. CASE Tick
    BY <1>1, <1>4 DEF Tick, ghosts, Drawn
  <1>5. \A w : Continue(w) \/ Fail(w) => UNCHANGED issued /\ UNCHANGED clock
    BY DEF Continue, SaveReset, MailLink, SavePassword, Fail, ghosts
  <1>6. \A w, v, t, p :
          OpenLink(w, v, t, p) \/ OpenSettings(w, v, p) => UNCHANGED issued /\ UNCHANGED clock
    BY DEF OpenLink, OpenSettings, ghosts
  <1>7. UNCHANGED vars => UNCHANGED issued /\ UNCHANGED clock
    BY DEF vars, ghosts
  <1> QED BY <1>2, <1>3, <1>4, <1>5, <1>6, <1>7 DEF Next

\* The only tokens a step puts in a row or in the hands of a request that is
\* going to do so.
LEMMA NoTokenReturns ==
  ASSUME ResetInv, [Next]_vars, NEW t \in Drawn,
         \A w \in Workers : req[w].at = "drawn" => req[w].token # t
  PROVE  /\ \A w \in Workers : req'[w].at = "drawn" => req'[w].token # t
         /\ \A u \in Users : token'[u] = t => token[u] = t
  <1>1. req \in [Workers -> Request] /\ token \in [Users -> Tokens \cup {None}]
    BY DEF ResetInv, TypeOK
  <1>2. Len(issued) + 1 \notin Drawn
    BY DrawnAreTokens DEF ResetInv
  <1>3. ASSUME NEW w \in Workers, NEW u \in Users, AskReset(w, u)
        PROVE  /\ \A x \in Workers : req'[x].at = "drawn" => req'[x].token # t
               /\ \A v \in Users : token'[v] = t => token[v] = t
    BY <1>1, <1>2, <1>3 DEF AskReset, columns, Idle
  <1>4. ASSUME NEW w \in Workers, SaveReset(w)
        PROVE  /\ \A x \in Workers : req'[x].at = "drawn" => req'[x].token # t
               /\ \A v \in Users : token'[v] = t => token[v] = t
    BY <1>1, <1>4 DEF SaveReset, Request
  <1>5. ASSUME NEW w \in Workers, NEW v \in Users, NEW s, NEW p, OpenLink(w, v, s, p)
        PROVE  /\ \A x \in Workers : req'[x].at = "drawn" => req'[x].token # t
               /\ \A u \in Users : token'[u] = t => token[u] = t
    BY <1>1, <1>5 DEF OpenLink, columns, Idle
  <1>6. ASSUME NEW w \in Workers, MailLink(w) \/ SavePassword(w) \/ Fail(w)
        PROVE  /\ \A x \in Workers : req'[x].at = "drawn" => req'[x].token # t
               /\ \A v \in Users : token'[v] = t => token[v] = t
    BY <1>1, <1>6 DEF MailLink, SavePassword, Fail, Drop, columns, Idle
  <1>7. ASSUME NEW w \in Workers, NEW u \in Users, NEW p, OpenSettings(w, u, p)
        PROVE  /\ \A x \in Workers : req'[x].at = "drawn" => req'[x].token # t
               /\ \A v \in Users : token'[v] = t => token[v] = t
    BY <1>1, <1>7 DEF OpenSettings, columns, Idle
  <1>8. CASE Tick \/ UNCHANGED vars
    BY <1>8 DEF Tick, vars, columns
  <1> QED BY <1>3, <1>4, <1>5, <1>6, <1>7, <1>8 DEF Next, Continue

\* A form is opened with the token of a row, while that is young.
LEMMA OpensWithToken ==
  ASSUME ResetInv, [Next]_vars, NEW t, OpensWith(t)
  PROVE  \E u \in Users : token[u] = t /\ clock <= issued[t] + Lifetime
  <1>1. PICK w \in Workers : req'[w] # req[w] /\ req'[w].at = "opened" /\ req'[w].token = t
    BY DEF OpensWith
  <1>2. req \in [Workers -> Request]
    BY DEF ResetInv, TypeOK
  <1>3. ASSUME NEW x \in Workers, NEW v \in Users, NEW s \in mailed[v], NEW p, OpenLink(x, v, s, p)
        PROVE  \E u \in Users : token[u] = t /\ clock <= issued[t] + Lifetime
    <2>1. PICK u \in Users :
            /\ token[u] = s
            /\ clock <= sentAt[u] + Lifetime
            /\ req' = [req EXCEPT ![x] = [Idle EXCEPT !.at = "opened", !.user = u,
                                                      !.token = s, !.password = p]]
      BY <1>3 DEF OpenLink
    <2> DEFINE open == [Idle EXCEPT !.at = "opened", !.user = u, !.token = s, !.password = p]
    <2>2. open.token = s
      BY DEF Idle
    <2>3. req' = [req EXCEPT ![x] = open]
      BY <2>1
    <2> HIDE DEF open
    <2>4. s = t
      BY <1>1, <1>2, <2>2, <2>3
    <2>5. s # None
      BY <1>3, DrawnAreTokens DEF ResetInv, TypeOK
    <2>6. sentAt[u] = issued[s]
      BY <2>1, <2>5 DEF ResetInv, SentWithItsToken
    <2> QED BY <2>1, <2>4, <2>6
  <1>4. \A x \in Workers, u \in Users : ~AskReset(x, u)
    BY <1>1, <1>2 DEF AskReset, Idle
  <1>5. \A x \in Workers : ~SaveReset(x)
    BY <1>1, <1>2 DEF SaveReset, Request
  <1>6. \A x \in Workers : ~MailLink(x) /\ ~SavePassword(x) /\ ~Fail(x)
    BY <1>1, <1>2 DEF MailLink, SavePassword, Fail, Drop, Idle
  <1>7. \A x \in Workers, u \in Users : \A p : ~OpenSettings(x, u, p)
    BY <1>1, <1>2 DEF OpenSettings, Idle
  <1> QED BY <1>1, <1>3, <1>4, <1>5, <1>6, <1>7 DEF Next, Continue, Tick, vars

\* A link that was replaced by another, or is past its lifetime, never opens a form
\* again, whatever is saved, mailed or followed later; and a link that leaves the
\* row is such a link from then on.
THEOREM OldLinksStayUseless ==
  Spec => [][/\ \A t \in Tokens : Useless(t) => Useless(t)' /\ ~OpensWith(t)
             /\ \A u \in Users, t \in Tokens : token[u] = t /\ token'[u] # t => Useless(t)']_vars
  <1>1. ASSUME ResetInv, [Next]_vars, NEW t \in Tokens, Useless(t)
        PROVE  Useless(t)' /\ ~OpensWith(t)
    <2>1. /\ t \in Drawn /\ t \in Drawn' /\ issued'[t] = issued[t] /\ issued[t] \in Nat
          /\ clock \in Nat /\ clock' \in Nat /\ clock <= clock' /\ Lifetime \in Nat
      BY <1>1, DrawnStay, ResetAssumption DEF Useless
    <2>2. CASE clock > issued[t] + Lifetime
      BY <1>1, <2>1, <2>2, OpensWithToken DEF Useless
    <2>3. CASE /\ \A u \in Users : token[u] # t
               /\ \A w \in Workers : req[w].at = "drawn" => req[w].token # t
      <3>1. /\ \A w \in Workers : req'[w].at = "drawn" => req'[w].token # t
            /\ \A u \in Users : token'[u] # t
        BY <1>1, <2>1, <2>3, NoTokenReturns
      <3> QED BY <1>1, <2>1, <2>3, <3>1, OpensWithToken DEF Useless
    <2> QED BY <1>1, <2>2, <2>3 DEF Useless
  <1>2. ASSUME ResetInv, [Next]_vars, NEW u \in Users, NEW t \in Tokens, token[u] = t, token'[u] # t
        PROVE  Useless(t)'
    <2>1. t \in Drawn /\ t \in Drawn'
      BY <1>2, DrawnStay, DrawnAreTokens DEF ResetInv, SentWithItsToken
    <2>2. \A w \in Workers : req[w].at = "drawn" => req[w].token # t
      BY <1>2 DEF ResetInv, RequestsOK, RequestOK, HasToken
    <2>3. \A v \in Users : v # u => token[v] # t
      BY <1>2, DrawnAreTokens DEF ResetInv, OneOwner, HasToken
    <2>4. /\ \A w \in Workers : req'[w].at = "drawn" => req'[w].token # t
          /\ \A v \in Users : token'[v] # t
      BY <1>2, <2>1, <2>2, <2>3, NoTokenReturns
    <2> QED BY <2>1, <2>4 DEF Useless
  <1>3. ResetInv /\ [Next]_vars =>
          [/\ \A t \in Tokens : Useless(t) => Useless(t)' /\ ~OpensWith(t)
           /\ \A u \in Users, t \in Tokens : token[u] = t /\ token'[u] # t => Useless(t)']_vars
    BY <1>1, <1>2
  <1> QED BY <1>3, ResetInvariance, PTL DEF Spec
=============================================================================
