---------------------------- MODULE PasswordReset ----------------------------
(***************************************************************************)
(* Resetting a forgotten password: a request draws a token, saves it with  *)
(* the time in the row of the user and mails a link; a link that is        *)
(* followed finds the user by the token, looks at the time, and writes the *)
(* password.  The settings write the same column of who is logged in, and  *)
(* ask for no token.                                                       *)
(*                                                                         *)
(* Several workers serve requests, a user can ask again before the first   *)
(* mail came, mails come late, in any order or never, links can be         *)
(* followed again, and a request can die between two of its steps.  Links  *)
(* of unknown tokens, expired links and forms that are refused change      *)
(* nothing and are left out, as are log in and log out, which read one row *)
(* and set a cookie: no change of a password ends a log in, so that a user *)
(* may be logged in at any time.                                           *)
(***************************************************************************)
EXTENDS Naturals, Sequences

CONSTANTS
  Users,
  Workers,    \* server processes
  Passwords,  \* what a user can type
  MaxTokens,  \* bound on the tokens drawn
  MaxClock,   \* bound on the clock
  Lifetime,   \* the 2.hours a link works
  MayFail,    \* whether requests can die
  None        \* SQL NULL, a blank field, or nothing

ASSUME ResetAssumption ==
  /\ {MaxTokens, MaxClock, Lifetime} \subseteq Nat
  /\ MayFail \in BOOLEAN
  /\ None \notin Users \cup Passwords \cup Nat
  /\ None \notin [owner: Users, key: Nat \cup {None}]
  /\ Passwords # {}

VARIABLES
  token, sentAt,  \* columns password_reset_token and password_reset_sent_at
  password,       \* what password_digest stands for
  mailed,         \* user -> the tokens of the links sent to the user
  issued,         \* token -> when it was drawn; not in the code
  lost,           \* tokens saved by requests that died then; not in the code
  clock,
  req             \* worker -> the request it is serving

columns == <<token, sentAt, password>>
ghosts == <<issued, lost>>
vars == <<columns, mailed, ghosts, clock, req>>

Tokens == 1..MaxTokens
Times == 0..MaxClock

\* Tokens are random and new; here they are counted.
Drawn == DOMAIN issued

\* What a request holds: the user it loaded, a token and its time, the
\* password of the form.
Request == [at: {"idle", "drawn", "saved", "opened", "settings"},
            user: Users \cup {None}, token: Tokens \cup {None},
            sentAt: Times \cup {None}, password: Passwords \cup {None}]

Idle == [at |-> "idle", user |-> None, token |-> None, sentAt |-> None,
         password |-> None]

\* The type invariant: the columns of every user, the links mailed and the
\* memory of every request.
TypeOK ==
  /\ token \in [Users -> Tokens \cup {None}]
  /\ sentAt \in [Users -> Times \cup {None}]
  /\ password \in [Users -> Passwords]
  /\ mailed \in [Users -> SUBSET Tokens]
  /\ issued \in Seq(Times) /\ Len(issued) <= MaxTokens
  /\ lost \subseteq Tokens
  /\ clock \in Times
  /\ req \in [Workers -> Request]

Init ==
  /\ token = [u \in Users |-> None]
  /\ sentAt = [u \in Users |-> None]
  /\ password \in [Users -> Passwords]
  /\ mailed = [u \in Users |-> {}]
  /\ issued = <<>> /\ lost = {}
  /\ clock = 0
  /\ req = [w \in Workers |-> Idle]

Free(w) == req[w].at = "idle"
Drop(w) == req' = [req EXCEPT ![w] = Idle]

-----------------------------------------------------------------------------
(* Asking for a link.                                                      *)

\* send_password_reset draws the token and takes the time ...
AskReset(w, u) ==
  /\ Free(w)
  /\ Len(issued) < MaxTokens
  /\ issued' = Append(issued, clock)
  /\ req' = [req EXCEPT ![w] = [Idle EXCEPT !.at = "drawn", !.user = u,
                                            !.token = Len(issued) + 1, !.sentAt = clock]]
  /\ UNCHANGED <<columns, mailed, lost, clock>>

\* ... save! writes both in one statement ...
SaveReset(w) ==
  /\ req[w].at = "drawn"
  /\ token' = [token EXCEPT ![req[w].user] = req[w].token]
  /\ sentAt' = [sentAt EXCEPT ![req[w].user] = req[w].sentAt]
  /\ req' = [req EXCEPT ![w].at = "saved"]
  /\ UNCHANGED <<password, mailed, ghosts, clock>>

\* Slip: one mail per user, to spare the mailbox.
MailFirstLink(w) ==
  /\ req[w].at = "saved"
  /\ mailed' = [mailed EXCEPT ![req[w].user] = IF @ = {} THEN {req[w].token} ELSE @]
  /\ Drop(w)
  /\ UNCHANGED <<columns, ghosts, clock>>

\* ... and the mailer writes the token of the loaded user into the link.
MailLink(w) ==
  /\ req[w].at = "saved"
  /\ mailed' = [mailed EXCEPT ![req[w].user] = @ \cup {req[w].token}]
  /\ Drop(w)
  /\ UNCHANGED <<columns, ghosts, clock>>

-----------------------------------------------------------------------------
(* Following a link, and the settings.                                     *)

\* Slip: a link works for two hours after it was drawn, whatever the row says.
OpenAnyLink(w, v, t, p) ==
  /\ Free(w)
  /\ t \in mailed[v]
  /\ clock <= issued[t] + Lifetime
  /\ req' = [req EXCEPT ![w] = [Idle EXCEPT !.at = "opened", !.user = v,
                                            !.token = t, !.password = p]]
  /\ UNCHANGED <<columns, mailed, ghosts, clock>>

\* v follows a link.  find_by_password_reset_token! loads the row, whosever it
\* is, and the age of the token is told by this copy; p is typed in the form.
OpenLink(w, v, t, p) ==
  /\ Free(w)
  /\ t \in mailed[v]
  /\ \E u \in Users :
       /\ token[u] = t
       /\ clock <= sentAt[u] + Lifetime
       /\ req' = [req EXCEPT ![w] = [Idle EXCEPT !.at = "opened", !.user = u,
                                                 !.token = t, !.password = p]]
  /\ UNCHANGED <<columns, mailed, ghosts, clock>>

\* u, or an administrator, sends the settings of u: the row is that of the cookie,
\* or of the name in the address, whatever token is in it.
OpenSettings(w, u, p) ==
  /\ Free(w)
  /\ req' = [req EXCEPT ![w] = [Idle EXCEPT !.at = "settings", !.user = u,
                                            !.password = p]]
  /\ UNCHANGED <<columns, mailed, ghosts, clock>>

\* Slip: a blank field is written like any other password.
SaveBlankPassword(w) ==
  /\ req[w].at \in {"opened", "settings"}
  /\ password' = [password EXCEPT ![req[w].user] = req[w].password]
  /\ Drop(w)
  /\ UNCHANGED <<token, sentAt, mailed, ghosts, clock>>

\* For both, update_attributes writes the password and leaves the token and its
\* time; has_secure_password ignores a blank one, and "Password has been reset!" is
\* said all the same.
SavePassword(w) ==
  /\ req[w].at \in {"opened", "settings"}
  /\ password' = IF req[w].password = None THEN password
                 ELSE [password EXCEPT ![req[w].user] = req[w].password]
  /\ Drop(w)
  /\ UNCHANGED <<token, sentAt, mailed, ghosts, clock>>

-----------------------------------------------------------------------------
\* A process dies, a save is refused or the mail cannot be sent.
Fail(w) ==
  /\ MayFail
  /\ ~Free(w)
  /\ lost' = IF req[w].at = "saved" THEN lost \cup {req[w].token} ELSE lost
  /\ Drop(w)
  /\ UNCHANGED <<columns, mailed, issued, clock>>

Tick ==
  /\ clock < MaxClock
  /\ clock' = clock + 1
  /\ UNCHANGED <<columns, mailed, ghosts, req>>

\* The next step of a request under way.
Continue(w) == SaveReset(w) \/ MailLink(w) \/ SavePassword(w)

Next ==
  \/ \E w \in Workers, u \in Users : AskReset(w, u)
  \/ \E w \in Workers, v \in Users, p \in Passwords \cup {None} :
       \/ \E t \in mailed[v] : OpenLink(w, v, t, p)
       \/ OpenSettings(w, v, p)
  \/ \E w \in Workers : Continue(w)
  \/ \E w \in Workers : Fail(w)
  \/ Tick

Spec == Init /\ [][Next]_vars

\* A request that was begun takes its next step, unless it dies.
FairSpec == Spec /\ \A w \in Workers : WF_vars(Continue(w))

-----------------------------------------------------------------------------
(* Properties.                                                             *)

\* The time in a row is the time of the token beside it, so that a link is
\* never judged by the age of another one.
SentWithItsToken ==
  \A u \in Users :
    IF token[u] = None THEN sentAt[u] = None
    ELSE token[u] \in Drawn /\ sentAt[u] = issued[token[u]]

\* A token belongs to one row and goes to one mailbox, that of its user: a link
\* never sets the password of somebody else.
LinkIsItsReaders ==
  /\ \A u, v \in Users : token[u] \in mailed[v] => u = v
  /\ \A w \in Workers, v \in Users :
       req[w].token \in mailed[v] => req[w].user = v

\* However many requests for a link overlap, the link that works has been sent
\* to its user, or is about to be, or the request that saved it died.
LinkOnItsWay ==
  \A u \in Users :
    \/ token[u] \in mailed[u] \cup lost \cup {None}
    \/ \E w \in Workers : req[w].at = "saved" /\ req[w].token = token[u]

Lock == INSTANCE ResetLock WITH
  Owners   <- Users,
  Attempts <- Workers,
  Settings <- Passwords,
  YoungFor <- Lifetime,
  Nothing  <- None,
  cut      <- issued,
  lock     <- token,
  trying   <- [w \in Workers |-> IF req[w].at \in {"opened", "settings"}
                 THEN [owner |-> req[w].user, key |-> req[w].token] ELSE None],
  setting  <- password,
  now      <- clock

\* A password changes only by a request from the settings, of its own user or an
\* administrator, or by one that came with the token saved last, when this was
\* younger than two hours: whichever mail arrives first and whatever is saved
\* while the request runs.  The settings leave the keys as they were.
ResetsAreALock == Lock!FairResetLockSpec
=============================================================================
