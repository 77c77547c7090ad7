------------------------------- MODULE Members -------------------------------
(***************************************************************************)
(* The users and what hangs on them: signing up, changing the account,     *)
(* following, proposing dates ("let's go"), reposting a date, and deleting *)
(* a user with the rows that are declared dependent on it.                 *)
(*                                                                         *)
(* The tables have no foreign keys and, but for the e-mail, no unique      *)
(* index: the rules are validations and callbacks that read rows first and *)
(* write later.  A request is one action up to what it has read and one    *)
(* for what it writes; several workers serve requests, and a request can   *)
(* die in between.                                                         *)
(***************************************************************************)
EXTENDS Naturals, FiniteSets

CONSTANTS
  Names,      \* usernames
  Emails,     \* e-mail addresses
  Workers,    \* server processes
  MaxUsers,   \* bounds on the rows ever inserted
  MaxFollows,
  MaxDates,
  None        \* SQL NULL, or nothing

ASSUME MembersAssumption ==
  /\ {MaxUsers, MaxFollows, MaxDates} \subseteq Nat
  /\ None \notin Names \cup Emails \cup Nat

VARIABLES
  users,          \* table users
  relationships,  \* table relationships
  letsgos,        \* table letsgos: the dates proposed
  keys,           \* last key of each table
  req,            \* worker -> the request it is serving
  overtaken       \* not in the code: the workers whose request looked for a name
                  \* that another request has given to a user since

vars == <<users, relationships, letsgos, keys, req, overtaken>>

UserIds == 1..MaxUsers
FollowIds == 1..MaxFollows
DateIds == 1..MaxDates

User == [id: UserIds, username: Names, email: Emails]
Relationship == [id: FollowIds, follower: UserIds, followed: UserIds]

\* from is the column repost_from_user_id, which holds the key of a date.
Letsgo == [id: DateIds, user: UserIds, from: DateIds \cup {None}]

Keys == [users: 0..MaxUsers, follows: 0..MaxFollows, dates: 0..MaxDates]

\* What a request has read: the acting user, the other user, the keys of the
\* rows it is about to remove, the date it reposts; and the columns it is about to
\* write.  since is not in the code: the last keys at the time of the deletion.
Request == [at: {"idle", "signup", "update", "follow", "unfollow", "post",
                 "repost", "destroy"},
            name: Names \cup {None}, email: Emails \cup {None},
            user: UserIds \cup {None}, other: UserIds \cup {None},
            follows: SUBSET FollowIds, dates: SUBSET DateIds,
            since: Keys \cup {None}]

Idle == [at |-> "idle", name |-> None, email |-> None, user |-> None,
         other |-> None, follows |-> {}, dates |-> {}, since |-> None]

\* The type invariant: the rows of the three tables, the keys handed out
\* and the memory of every request.
TypeOK ==
  /\ users \subseteq User
  /\ relationships \subseteq Relationship
  /\ letsgos \subseteq Letsgo
  /\ keys \in Keys
  /\ req \in [Workers -> Request]
  /\ overtaken \subseteq Workers

Init ==
  /\ users = {} /\ relationships = {} /\ letsgos = {}
  /\ keys = [users |-> 0, follows |-> 0, dates |-> 0]
  /\ req = [w \in Workers |-> Idle]
  /\ overtaken = {}

-----------------------------------------------------------------------------
Ids(rows) == {r.id : r \in rows}
Exists(u) == u \in Ids(users)

\* following?: the rows of which find_by takes one.
Follows(u, v) == {r \in relationships : r.follower = u /\ r.followed = v}

Free(w) == req[w].at = "idle"
Drop(w) == req' = [req EXCEPT ![w] = Idle]
Enter(w, step, u, v) ==
  req' = [req EXCEPT ![w] = [Idle EXCEPT !.at = step, !.user = u, !.other = v]]

-----------------------------------------------------------------------------
(* Signing up, and changing the account.                                   *)

\* The validations look for a user with the name or the e-mail ...
CheckSignup(w, name, email) ==
  /\ Free(w)
  /\ \A u \in users : u.username # name /\ u.email # email
  /\ req' = [req EXCEPT ![w] = [Idle EXCEPT !.at = "signup", !.name = name,
                                            !.email = email]]
  /\ UNCHANGED <<users, relationships, letsgos, keys>>

\* ... and the unique index on the e-mail looks again.
InsertUser(w) ==
  /\ req[w].at = "signup"
  /\ keys.users < MaxUsers
  /\ \A u \in users : u.email # req[w].email
  /\ keys' = [keys EXCEPT !.users = @ + 1]
  /\ users' = users \cup {[id |-> keys'.users, username |-> req[w].name,
                           email |-> req[w].email]}
  /\ Drop(w)
  /\ UNCHANGED <<relationships, letsgos>>

\* Active Record writes the columns that differ from the row it loaded.
Changed(new, old) == IF new = old THEN None ELSE new
Written(new, old) == IF new = None THEN old ELSE new

\* Slip: the validation of the name is for new users only.
CheckUpdateOfEmail(w, u, name, email) ==
  /\ Free(w)
  /\ \E me \in users :
       /\ me.id = u /\ <<me.username, me.email>> # <<name, email>>
       /\ \A v \in users \ {me} : v.email # email
       /\ req' = [req EXCEPT ![w] = [Idle EXCEPT !.at = "update", !.user = u,
                                       !.name = Changed(name, me.username),
                                       !.email = Changed(email, me.email)]]
  /\ UNCHANGED <<users, relationships, letsgos, keys>>

\* The form of the settings, sent by the user or an administrator.  Every update
\* validates the whole row: who shares a name with another user can change nothing
\* else before the name.
CheckUpdate(w, u, name, email) ==
  /\ Free(w)
  /\ \E me \in users :
       /\ me.id = u /\ <<me.username, me.email>> # <<name, email>>
       /\ \A v \in users \ {me} : v.username # name /\ v.email # email
       /\ req' = [req EXCEPT ![w] = [Idle EXCEPT !.at = "update", !.user = u,
                                       !.name = Changed(name, me.username),
                                       !.email = Changed(email, me.email)]]
  /\ UNCHANGED <<users, relationships, letsgos, keys>>

\* Slip: no index on the e-mail.
SaveUpdateUnindexed(w) ==
  /\ req[w].at = "update"
  /\ users' = {IF u.id # req[w].user THEN u
                ELSE [u EXCEPT !.username = Written(req[w].name, @),
                               !.email = Written(req[w].email, @)] : u \in users}
  /\ Drop(w)
  /\ UNCHANGED <<relationships, letsgos, keys>>

\* An UPDATE of no row if the user was deleted meanwhile.
SaveUpdate(w) ==
  /\ req[w].at = "update"
  /\ \A u \in users : u.id # req[w].user => u.email # req[w].email
  /\ users' = {IF u.id # req[w].user THEN u
                ELSE [u EXCEPT !.username = Written(req[w].name, @),
                               !.email = Written(req[w].email, @)] : u \in users}
  /\ Drop(w)
  /\ UNCHANGED <<relationships, letsgos, keys>>

-----------------------------------------------------------------------------
(* Following.                                                              *)

\* UsersController#follow asks following? first, the two entries of
\* RelationshipsController do not.  A user's own profile has the button too.
BeginFollow(w, u, v) ==
  /\ Free(w) /\ Exists(u) /\ Exists(v)
  /\ Enter(w, "follow", u, v)
  /\ UNCHANGED <<users, relationships, letsgos, keys>>

BeginFollowOnce(w, u, v) == Follows(u, v) = {} /\ BeginFollow(w, u, v)

\* Slip: creates the row of nobody, outside of current_user.relationships.
SaveFollowOfNobody(w) ==
  /\ req[w].at = "follow"
  /\ keys.follows < MaxFollows
  /\ keys' = [keys EXCEPT !.follows = @ + 1]
  /\ relationships' = relationships \cup
       {[id |-> keys'.follows, follower |-> None, followed |-> req[w].other]}
  /\ Drop(w)
  /\ UNCHANGED <<users, letsgos>>

SaveFollow(w) ==
  /\ req[w].at = "follow"
  /\ keys.follows < MaxFollows
  /\ keys' = [keys EXCEPT !.follows = @ + 1]
  /\ relationships' = relationships \cup
       {[id |-> keys'.follows, follower |-> req[w].user,
         followed |-> req[w].other]}
  /\ Drop(w)
  /\ UNCHANGED <<users, letsgos>>

\* Slip: takes the row of the followed user for that of the follower.
BeginUnfollowOfOther(w, u, v) ==
  /\ Free(w) /\ Exists(u) /\ Exists(v)
  /\ \E r \in Follows(v, u) :
       req' = [req EXCEPT ![w] = [Idle EXCEPT !.at = "unfollow", !.user = u,
                                    !.other = v, !.follows = {r.id}]]
  /\ UNCHANGED <<users, relationships, letsgos, keys>>

\* One of the rows; with none the request ends in an error.
BeginUnfollow(w, u, v) ==
  /\ Free(w) /\ Exists(u) /\ Exists(v)
  /\ \E r \in Follows(u, v) :
       req' = [req EXCEPT ![w] = [Idle EXCEPT !.at = "unfollow", !.user = u,
                                    !.other = v, !.follows = {r.id}]]
  /\ UNCHANGED <<users, relationships, letsgos, keys>>

SaveUnfollow(w) ==
  /\ req[w].at = "unfollow"
  /\ relationships' = {r \in relationships : r.id \notin req[w].follows}
  /\ Drop(w)
  /\ UNCHANGED <<users, letsgos, keys>>

-----------------------------------------------------------------------------
(* Dates.                                                                  *)

BeginPost(w, u) ==
  /\ Free(w) /\ Exists(u)
  /\ Enter(w, "post", u, None)
  /\ UNCHANGED <<users, relationships, letsgos, keys>>

\* dup of the date, offered for the dates of others: the column gets the key of
\* the date itself.
BeginRepost(w, u) ==
  /\ Free(w) /\ Exists(u)
  /\ \E l \in letsgos :
       /\ l.user # u
       /\ req' = [req EXCEPT ![w] = [Idle EXCEPT !.at = "repost", !.user = u,
                                       !.dates = {l.id}]]
  /\ UNCHANGED <<users, relationships, letsgos, keys>>

SaveDate(w) ==
  /\ req[w].at \in {"post", "repost"}
  /\ keys.dates < MaxDates
  /\ keys' = [keys EXCEPT !.dates = @ + 1]
  /\ \E from \in (IF req[w].at = "post" THEN {None} ELSE req[w].dates) :
       letsgos' = letsgos \cup
         {[id |-> keys'.dates, user |-> req[w].user, from |-> from]}
  /\ Drop(w)
  /\ UNCHANGED <<users, relationships>>

\* Its user, or an administrator.
DestroyLetsgo(w) ==
  /\ Free(w)
  /\ \E l \in letsgos : letsgos' = letsgos \ {l}
  /\ UNCHANGED <<users, relationships, keys, req>>

-----------------------------------------------------------------------------
(* Deleting a user.                                                        *)

\* Slip: without reverse_relationships.
BeginDestroyForward(w, u) ==
  /\ Free(w) /\ Exists(u)
  /\ req' = [req EXCEPT ![w] =
       [Idle EXCEPT !.at = "destroy", !.user = u, !.since = keys,
          !.follows = Ids({r \in relationships : r.follower = u}),
          !.dates = Ids({l \in letsgos : l.user = u})]]
  /\ UNCHANGED <<users, relationships, letsgos, keys>>

\* The transaction reads the dependent rows ...
BeginDestroy(w, u) ==
  /\ Free(w) /\ Exists(u)
  /\ req' = [req EXCEPT ![w] =
       [Idle EXCEPT !.at = "destroy", !.user = u, !.since = keys,
          !.follows = Ids({r \in relationships : u \in {r.follower, r.followed}}),
          !.dates = Ids({l \in letsgos : l.user = u})]]
  /\ UNCHANGED <<users, relationships, letsgos, keys>>

\* ... deletes them by key and the user last.  The second destroy of the
\* controller finds nothing left to do.
CommitDestroy(w) ==
  /\ req[w].at = "destroy"
  /\ relationships' = {r \in relationships : r.id \notin req[w].follows}
  /\ letsgos' = {l \in letsgos : l.id \notin req[w].dates}
  /\ users' = {u \in users : u.id # req[w].user}
  /\ Drop(w)
  /\ UNCHANGED keys

-----------------------------------------------------------------------------
\* The process dies, or the index refuses the e-mail: nothing is written.
Fail(w) ==
  /\ ~Free(w)
  /\ Drop(w)
  /\ UNCHANGED <<users, relationships, letsgos, keys>>

Step(w) ==
  \/ \E name \in Names, email \in Emails :
       \/ CheckSignup(w, name, email)
       \/ \E u \in UserIds : CheckUpdate(w, u, name, email)
  \/ InsertUser(w) \/ SaveUpdate(w)
  \/ \E u, v \in UserIds :
       BeginFollow(w, u, v) \/ BeginFollowOnce(w, u, v) \/ BeginUnfollow(w, u, v)
  \/ SaveFollow(w) \/ SaveUnfollow(w)
  \/ \E u \in UserIds :
       BeginPost(w, u) \/ BeginRepost(w, u) \/ BeginDestroy(w, u)
  \/ SaveDate(w) \/ DestroyLetsgo(w) \/ CommitDestroy(w)
  \/ Fail(w)

\* Not in the code: whom the users saved in a step of w overtake.
Watch(w) ==
  overtaken' = (overtaken \ {w}) \cup
    {x \in Workers \ {w} : \E u \in users' \ users : u.username = req[x].name}

Next == \E w \in Workers : Step(w) /\ Watch(w)

Spec == Init /\ [][Next]_vars

-----------------------------------------------------------------------------
(* Safety.                                                                 *)

\* No two accounts share an e-mail, which find_by_email of the login and of the
\* password reset relies on, even if sign-ups and changes of an e-mail validate
\* at the same time.
EmailsUnique == \A u, v \in users : u.email = v.email => u = v

\* The same for the name, which every profile page looks users up by.
UsernamesUnique == \A u, v \in users : u.username = v.username => u = v

\* A name that another user has is given, by a sign-up or in the settings, only by a
\* request that was overtaken: the other one got it after the request had looked
\* for it and before it wrote.
NamesGivenTwiceByRace ==
  [][\A u \in users' \ users, v \in users :
       /\ u.id # v.id /\ u.username = v.username
       /\ \A old \in users : old.id = u.id => old.username # u.username
       => \E w \in overtaken : req[w].name = u.username /\ req'[w] = Idle]_vars

\* Deleting a user leaves none of its rows, neither the users it followed, nor
\* its followers, nor its dates, but those saved while the deletion ran.
DeletionTakesItsRows ==
  [][\A w \in Workers :
       req[w].at = "destroy" /\ req'[w] # req[w]
         /\ req[w].user \in Ids(users) \ Ids(users')
       => /\ \A r \in relationships' :
               req[w].user \in {r.follower, r.followed} => r.id > req[w].since.follows
          /\ \A l \in letsgos' :
               l.user = req[w].user => l.id > req[w].since.dates]_vars

\* A user that follows another one goes on following until the follower asks
\* otherwise or one of them is deleted.
FollowEndsByRequest ==
  [][\A r \in relationships \ relationships' : \E w \in Workers :
       /\ req'[w] # req[w]
       /\ \/ req[w].at = "unfollow" /\ req[w].user = r.follower
          \/ req[w].at = "destroy" /\ req[w].user \in {r.follower, r.followed}]_vars

=============================================================================
