---------------------------- MODULE MembersProofs ----------------------------
(***************************************************************************)
(* Theorems about Members: for any number of names, e-mails, workers and   *)
(* rows.  What a request has read stays true, as far as its write depends  *)
(* on it, while other requests insert, change and delete rows.             *)
(***************************************************************************)
EXTENDS Members, TLAPS, FiniteSetTheorems

-----------------------------------------------------------------------------
(* The inductive invariant.                                                *)

\* Keys are handed out in order, and name one row each.
KeysOK ==
  /\ \A u \in users : u.id <= keys.users
  /\ \A u, v \in users : u.id = v.id => u = v
  /\ \A r \in relationships : r.id <= keys.follows
  /\ \A r, s \in relationships : r.id = s.id => r = s
  /\ \A l \in letsgos : l.id <= keys.dates

\* The row an unfollow is about to remove is one of the follower.
UnfollowOK(r) ==
  /\ \A i \in r.follows : i <= keys.follows
  /\ \A f \in relationships : f.id \in r.follows => f.follower = r.user

\* A deletion knows the rows of its user, but those saved later.
DestroyOK(r) ==
  /\ r.since \in Keys
  /\ r.since.follows <= keys.follows /\ r.since.dates <= keys.dates
  /\ \A i \in r.follows : i <= keys.follows
  /\ \A f \in relationships :
       /\ f.id \in r.follows => r.user \in {f.follower, f.followed}
       /\ r.user \in {f.follower, f.followed} =>
            f.id \in r.follows \/ f.id > r.since.follows
  /\ \A l \in letsgos : l.user = r.user => l.id \in r.dates \/ l.id > r.since.dates

RequestOK(r) ==
  /\ r.at \notin {"idle", "signup"} => r.user \in UserIds
  /\ r.at \notin {"signup", "update"} => r.name = None
  /\ r.at = "signup" => r.name \in Names /\ r.email \in Emails
  /\ r.at = "follow" => r.other \in UserIds
  /\ r.at = "unfollow" => UnfollowOK(r)
  /\ r.at = "destroy" => DestroyOK(r)

RequestsOK == \A w \in Workers : RequestOK(req[w])

\* The type invariant, but for the history of names.
StateOK ==
  /\ users \subseteq User
  /\ relationships \subseteq Relationship
  /\ letsgos \subseteq Letsgo
  /\ keys \in Keys
  /\ req \in [Workers -> Request]

MembersInv == StateOK /\ KeysOK /\ EmailsUnique /\ RequestsOK

-----------------------------------------------------------------------------
(* Steps that change one request and no row.                               *)

LEMMA IdleRequest == Idle \in Request /\ Idle.at = "idle" /\ Idle.name = None
  BY DEF Idle, Request

\* Reading leaves the invariant, if what the request remembers is right.
LEMMA OnlyRequest ==
  ASSUME MembersInv, NEW w \in Workers, NEW r \in Request, RequestOK(r),
         req' = [req EXCEPT ![w] = r],
         UNCHANGED <<users, relationships, letsgos, keys>>
  PROVE  MembersInv'
  <1>1. StateOK'
    BY DEF MembersInv, StateOK
  <1>2. KeysOK' /\ EmailsUnique'
    BY DEF MembersInv, KeysOK, EmailsUnique
  <1>3. RequestsOK'
    <2> SUFFICES ASSUME NEW v \in Workers PROVE RequestOK(req[v])'
      BY DEF RequestsOK
    <2>1. RequestOK(req'[v])
      BY DEF MembersInv, StateOK, RequestsOK
    <2> QED
      BY <2>1 DEF RequestOK, UnfollowOK, DestroyOK
  <1> QED BY <1>1, <1>2, <1>3 DEF MembersInv

\* Writing ends the request, and leaves the invariant if the other ones bear it.
LEMMA RequestEnds ==
  ASSUME MembersInv, NEW w \in Workers, Drop(w),
         \A r \in Request : RequestOK(r) => RequestOK(r)'
  PROVE  /\ req' \in [Workers -> Request]
         /\ RequestsOK'
  <1>1. req' \in [Workers -> Request]
    BY IdleRequest DEF MembersInv, StateOK, Drop
  <1>2. RequestsOK'
    <2> SUFFICES ASSUME NEW v \in Workers PROVE RequestOK(req[v])'
      BY DEF RequestsOK
    <2>1. CASE v = w
      <3>1. req'[v].at = "idle" /\ req'[v].name = None
        BY <2>1, IdleRequest DEF Drop, MembersInv, StateOK
      <3> QED BY <3>1 DEF RequestOK
    <2>2. CASE v # w
      <3>1. PICK r \in Request : r = req[v]
        BY DEF MembersInv, StateOK
      <3>2. RequestOK(r)
        BY <3>1 DEF MembersInv, RequestsOK
      <3>3. RequestOK(r)'
        BY <3>2
      <3>4. req'[v] = r
        BY <2>2, <3>1 DEF Drop, MembersInv, StateOK
      <3> QED BY <3>3, <3>4 DEF RequestOK, UnfollowOK, DestroyOK
    <2> QED BY <2>1, <2>2
  <1> QED BY <1>1, <1>2
-----------------------------------------------------------------------------
(* One lemma per action: first those that read.                            *)

LEMMA CheckSignupKeeps ==
  ASSUME MembersInv, NEW w \in Workers, NEW name \in Names, NEW email \in Emails,
         CheckSignup(w, name, email)
  PROVE  MembersInv'
  <1> DEFINE r == [Idle EXCEPT !.at = "signup", !.name = name, !.email = email]
  <1>1. r \in Request /\ RequestOK(r)
    BY DEF Idle, Request, RequestOK
  <1> QED BY <1>1, OnlyRequest DEF CheckSignup

LEMMA CheckUpdateKeeps ==
  ASSUME MembersInv, NEW w \in Workers, NEW u \in UserIds, NEW name \in Names,
         NEW email \in Emails, CheckUpdate(w, u, name, email)
  PROVE  MembersInv'
  <1>1. PICK me \in users :
          req' = [req EXCEPT ![w] = [Idle EXCEPT !.at = "update", !.user = u,
                                       !.name = Changed(name, me.username),
                                       !.email = Changed(email, me.email)]]
    BY DEF CheckUpdate
  <1> DEFINE r == [Idle EXCEPT !.at = "update", !.user = u,
                               !.name = Changed(name, me.username),
                               !.email = Changed(email, me.email)]
  <1>2. r \in Request /\ RequestOK(r)
    BY DEF Idle, Request, RequestOK, Changed
  <1> QED BY <1>1, <1>2, OnlyRequest DEF CheckUpdate

\* A request to follow, and one to post a date, only names users.
LEMMA EnterKeeps ==
  ASSUME MembersInv, NEW w \in Workers, NEW step \in {"follow", "post"},
         NEW u \in UserIds, NEW v \in UserIds \cup {None},
         step = "follow" => v \in UserIds,
         Enter(w, step, u, v), UNCHANGED <<users, relationships, letsgos, keys>>
  PROVE  MembersInv'
  <1> DEFINE r == [Idle EXCEPT !.at = step, !.user = u, !.other = v]
  <1>1. r \in Request /\ RequestOK(r)
    BY DEF Idle, Request, RequestOK
  <1> QED BY <1>1, OnlyRequest DEF Enter

LEMMA BeginFollowKeeps ==
  ASSUME MembersInv, NEW w \in Workers, NEW u \in UserIds, NEW v \in UserIds,
         BeginFollow(w, u, v)
  PROVE  MembersInv'
  BY EnterKeeps DEF BeginFollow

LEMMA BeginPostKeeps ==
  ASSUME MembersInv, NEW w \in Workers, NEW u \in UserIds, BeginPost(w, u)
  PROVE  MembersInv'
  BY EnterKeeps DEF BeginPost

LEMMA BeginRepostKeeps ==
  ASSUME MembersInv, NEW w \in Workers, NEW u \in UserIds, BeginRepost(w, u)
  PROVE  MembersInv'
  <1>1. PICK l \in letsgos :
          req' = [req EXCEPT ![w] = [Idle EXCEPT !.at = "repost", !.user = u,
                                                 !.dates = {l.id}]]
    BY DEF BeginRepost
  <1> DEFINE r == [Idle EXCEPT !.at = "repost", !.user = u, !.dates = {l.id}]
  <1>2. l.id \in DateIds
    BY DEF MembersInv, StateOK, Letsgo
  <1>3. r \in Request /\ RequestOK(r)
    BY <1>2 DEF Idle, Request, RequestOK
  <1> QED BY <1>1, <1>3, OnlyRequest DEF BeginRepost

\* find_by meets one of the rows of the pair.
LEMMA BeginUnfollowKeeps ==
  ASSUME MembersInv, NEW w \in Workers, NEW u \in UserIds, NEW v \in UserIds,
         BeginUnfollow(w, u, v)
  PROVE  MembersInv'
  <1>1. PICK f \in Follows(u, v) :
          req' = [req EXCEPT ![w] = [Idle EXCEPT !.at = "unfollow", !.user = u,
                                       !.other = v, !.follows = {f.id}]]
    BY DEF BeginUnfollow
  <1> DEFINE r == [Idle EXCEPT !.at = "unfollow", !.user = u, !.other = v,
                               !.follows = {f.id}]
  <1>2. /\ f \in relationships /\ f.follower = u
        /\ f.id \in FollowIds /\ f.id <= keys.follows
    BY DEF Follows, MembersInv, StateOK, Relationship, KeysOK
  <1>3. \A g \in relationships : g.id = f.id => g.follower = u
    BY <1>2 DEF MembersInv, KeysOK
  <1>4. r \in Request
    BY <1>2 DEF Idle, Request
  <1>5. /\ r.at = "unfollow" /\ r.user = u /\ r.follows = {f.id} /\ r.name = None
    BY DEF Idle
  <1>6. RequestOK(r)
    BY <1>2, <1>3, <1>5 DEF RequestOK, UnfollowOK
  <1> QED BY <1>1, <1>4, <1>6, OnlyRequest DEF BeginUnfollow

LEMMA BeginDestroyKeeps ==
  ASSUME MembersInv, NEW w \in Workers, NEW u \in UserIds, BeginDestroy(w, u)
  PROVE  MembersInv'
  <1> DEFINE F == Ids({f \in relationships : u \in {f.follower, f.followed}})
             D == Ids({l \in letsgos : l.user = u})
             r == [Idle EXCEPT !.at = "destroy", !.user = u, !.since = keys,
                               !.follows = F, !.dates = D]
  <1>1. /\ keys \in Keys /\ keys.follows \in Nat /\ keys.dates \in Nat
    BY MembersAssumption DEF MembersInv, StateOK, Keys
  <1>2. F \subseteq FollowIds /\ D \subseteq DateIds
    BY DEF Ids, MembersInv, StateOK, Relationship, Letsgo
  <1>3. \A i \in F : i <= keys.follows
    BY DEF Ids, MembersInv, KeysOK
  <1>4. \A f \in relationships : f.id \in F <=> u \in {f.follower, f.followed}
    BY DEF Ids, MembersInv, KeysOK
  <1>5. \A l \in letsgos : l.user = u => l.id \in D
    BY DEF Ids
  <1> HIDE DEF F, D
  <1>6. r \in Request
    BY <1>1, <1>2 DEF Idle, Request
  <1>7. /\ r.at = "destroy" /\ r.user = u /\ r.since = keys /\ r.name = None
        /\ r.follows = F /\ r.dates = D
    BY DEF Idle
  <1> HIDE DEF r
  <1>8. DestroyOK(r)
    BY <1>1, <1>3, <1>4, <1>5, <1>7 DEF DestroyOK
  <1>9. RequestOK(r)
    BY <1>7, <1>8 DEF RequestOK
  <1>10. req' = [req EXCEPT ![w] = r]
    BY DEF BeginDestroy, r, F, D
  <1> QED BY <1>6, <1>9, <1>10, OnlyRequest DEF BeginDestroy

LEMMA FailKeeps ==
  ASSUME MembersInv, NEW w \in Workers, Fail(w)
  PROVE  MembersInv'
  <1>1. RequestOK(Idle)
    BY IdleRequest DEF RequestOK
  <1> QED BY <1>1, IdleRequest, OnlyRequest DEF Fail, Drop
-----------------------------------------------------------------------------
(* The actions that write.                                                 *)

\* Keys only grow, and the bounds on them hold for new rows.
LEMMA KeyTypes ==
  ASSUME MembersInv
  PROVE  /\ keys \in Keys
         /\ keys.users \in Nat /\ keys.follows \in Nat /\ keys.dates \in Nat
  BY MembersAssumption DEF MembersInv, StateOK, Keys

LEMMA InsertUserKeeps ==
  ASSUME MembersInv, NEW w \in Workers, InsertUser(w)
  PROVE  MembersInv'
  <1> DEFINE id == keys.users + 1
             new == [id |-> id, username |-> req[w].name, email |-> req[w].email]
  <1>1. /\ keys' = [keys EXCEPT !.users = id]
        /\ users' = users \cup {new}
        /\ relationships' = relationships /\ letsgos' = letsgos
        /\ keys.users < MaxUsers
        /\ \A u \in users : u.email # req[w].email
        /\ Drop(w)
    BY KeyTypes DEF InsertUser, Keys
  <1>2. req[w].name \in Names /\ req[w].email \in Emails
    BY DEF InsertUser, MembersInv, RequestsOK, RequestOK
  <1>3. id \in UserIds /\ id \in Nat /\ id > keys.users
    BY <1>1, KeyTypes, MembersAssumption DEF UserIds
  <1>4. /\ keys' \in Keys /\ keys'.users = id
        /\ keys'.follows = keys.follows /\ keys'.dates = keys.dates
    BY <1>1, <1>3, KeyTypes DEF Keys, UserIds
  <1>5. \A u \in users : u.id \in Nat /\ u.id < id
    <2>1. \A u \in users : u.id \in UserIds /\ u.id <= keys.users
      BY DEF MembersInv, StateOK, KeysOK, User
    <2> QED BY <2>1, <1>3, KeyTypes, MembersAssumption DEF UserIds
  <1>6. new \in User /\ new.id = id /\ new.email = req[w].email
    BY <1>2, <1>3 DEF User
  <1> HIDE DEF id, new
  <1>7. req' \in [Workers -> Request] /\ RequestsOK'
    <2> SUFFICES ASSUME NEW r \in Request, RequestOK(r) PROVE RequestOK(r)'
      BY <1>1, RequestEnds
    <2>1. r.at = "unfollow" => UnfollowOK(r)'
      BY <1>1, <1>4 DEF RequestOK, UnfollowOK
    <2>2. r.at = "destroy" => DestroyOK(r)'
      BY <1>1, <1>4 DEF RequestOK, DestroyOK
    <2> QED BY <2>1, <2>2 DEF RequestOK
  <1>8. StateOK'
    BY <1>1, <1>4, <1>6, <1>7 DEF MembersInv, StateOK
  <1>9. KeysOK'
    BY <1>1, <1>3, <1>4, <1>5, <1>6, KeyTypes DEF MembersInv, KeysOK
  <1>10. EmailsUnique'
    BY <1>1, <1>6 DEF MembersInv, EmailsUnique
  <1> QED BY <1>7, <1>8, <1>9, <1>10 DEF MembersInv

\* The row u as an update of w leaves it.
Updated(w, u) ==
  IF u.id # req[w].user THEN u
  ELSE [u EXCEPT !.username = Written(req[w].name, @),
                 !.email = Written(req[w].email, @)]

LEMMA UpdatedRow ==
  ASSUME MembersInv, NEW w \in Workers, NEW u \in users
  PROVE  /\ Updated(w, u) \in User /\ Updated(w, u).id = u.id
         /\ Updated(w, u).username =
              IF u.id # req[w].user THEN u.username ELSE Written(req[w].name, u.username)
         /\ Updated(w, u).email =
              IF u.id # req[w].user THEN u.email ELSE Written(req[w].email, u.email)
  <1>1. u \in User /\ req[w] \in Request
    BY DEF MembersInv, StateOK
  <1>2. /\ Written(req[w].name, u.username) \in Names
        /\ Written(req[w].email, u.email) \in Emails
    BY <1>1 DEF User, Request, Written
  <1> QED BY <1>1, <1>2 DEF User, Updated

LEMMA SaveUpdateKeeps ==
  ASSUME MembersInv, NEW w \in Workers, SaveUpdate(w)
  PROVE  MembersInv'
  <1>1. /\ users' = {Updated(w, u) : u \in users}
        /\ \A u \in users : u.id # req[w].user => u.email # req[w].email
        /\ UNCHANGED <<relationships, letsgos, keys>>
        /\ Drop(w)
    BY DEF SaveUpdate, Updated
  <1>2. req' \in [Workers -> Request] /\ RequestsOK'
    <2> SUFFICES ASSUME NEW r \in Request, RequestOK(r) PROVE RequestOK(r)'
      BY <1>1, RequestEnds
    <2>1. r.at = "unfollow" => UnfollowOK(r)'
      BY <1>1 DEF RequestOK, UnfollowOK
    <2>2. r.at = "destroy" => DestroyOK(r)'
      BY <1>1 DEF RequestOK, DestroyOK
    <2> QED BY <2>1, <2>2 DEF RequestOK
  <1>3. StateOK'
    BY <1>1, <1>2, UpdatedRow DEF MembersInv, StateOK
  <1>4. KeysOK'
    BY <1>1, UpdatedRow DEF MembersInv, KeysOK
  <1>5. EmailsUnique'
    <2> SUFFICES ASSUME NEW u \in users, NEW v \in users,
                        Updated(w, u).email = Updated(w, v).email
                 PROVE  Updated(w, u) = Updated(w, v)
      BY <1>1 DEF EmailsUnique
    <2>1. u.email = v.email => u = v
      BY DEF MembersInv, EmailsUnique
    <2>2. CASE u.id = req[w].user /\ v.id = req[w].user
      BY <2>2 DEF MembersInv, KeysOK
    <2>3. CASE u.id = req[w].user /\ v.id # req[w].user
      BY <2>1, <2>3, <1>1, UpdatedRow DEF Written
    <2>4. CASE u.id # req[w].user /\ v.id = req[w].user
      BY <2>1, <2>4, <1>1, UpdatedRow DEF Written
    <2>5. CASE u.id # req[w].user /\ v.id # req[w].user
      BY <2>1, <2>5, UpdatedRow
    <2> QED BY <2>2, <2>3, <2>4, <2>5
  <1> QED BY <1>2, <1>3, <1>4, <1>5 DEF MembersInv

LEMMA SaveFollowKeeps ==
  ASSUME MembersInv, NEW w \in Workers, SaveFollow(w)
  PROVE  MembersInv'
  <1> DEFINE id == keys.follows + 1
             new == [id |-> id, follower |-> req[w].user, followed |-> req[w].other]
  <1>1. /\ keys' = [keys EXCEPT !.follows = id]
        /\ relationships' = relationships \cup {new}
        /\ users' = users /\ letsgos' = letsgos
        /\ keys.follows < MaxFollows
        /\ Drop(w)
    BY KeyTypes DEF SaveFollow, Keys
  <1>2. req[w].user \in UserIds /\ req[w].other \in UserIds
    BY DEF SaveFollow, MembersInv, RequestsOK, RequestOK
  <1>3. id \in FollowIds /\ id \in Nat /\ id > keys.follows
    BY <1>1, KeyTypes, MembersAssumption DEF FollowIds
  <1>4. /\ keys' \in Keys /\ keys'.follows = id
        /\ keys'.users = keys.users /\ keys'.dates = keys.dates
    BY <1>1, <1>3, KeyTypes DEF Keys, FollowIds
  <1>5. \A f \in relationships : f.id \in Nat /\ f.id < id
    <2>1. \A f \in relationships : f.id \in FollowIds /\ f.id <= keys.follows
      BY DEF MembersInv, StateOK, KeysOK, Relationship
    <2> QED BY <2>1, <1>3, KeyTypes, MembersAssumption DEF FollowIds
  <1>6. new \in Relationship /\ new.id = id
    BY <1>2, <1>3 DEF Relationship
  <1> HIDE DEF id, new
  <1>7. req' \in [Workers -> Request] /\ RequestsOK'
    <2> SUFFICES ASSUME NEW r \in Request, RequestOK(r) PROVE RequestOK(r)'
      BY <1>1, RequestEnds
    <2>0. r.follows \subseteq FollowIds /\ \A i \in r.follows : i \in Nat
      BY MembersAssumption DEF Request, FollowIds
    <2>1. r.at = "unfollow" => UnfollowOK(r)'
      <3> SUFFICES ASSUME r.at = "unfollow" PROVE UnfollowOK(r)'
        OBVIOUS
      <3>1. \A i \in r.follows : i <= keys.follows
        BY DEF RequestOK, UnfollowOK
      <3>2. new.id \notin r.follows /\ \A i \in r.follows : i <= keys'.follows
        BY <3>1, <2>0, <1>3, <1>4, <1>6, KeyTypes
      <3> QED BY <3>2, <1>1 DEF RequestOK, UnfollowOK
    <2>2. r.at = "destroy" => DestroyOK(r)'
      <3> SUFFICES ASSUME r.at = "destroy" PROVE DestroyOK(r)'
        OBVIOUS
      <3>1. \A i \in r.follows : i <= keys.follows
        BY DEF RequestOK, DestroyOK
      <3>2. new.id \notin r.follows /\ \A i \in r.follows : i <= keys'.follows
        BY <3>1, <2>0, <1>3, <1>4, <1>6, KeyTypes
      <3>3. /\ r.since \in Keys /\ r.since.follows \in Nat
            /\ r.since.follows <= keys.follows
        BY MembersAssumption DEF RequestOK, DestroyOK, Keys
      <3>4. new.id > r.since.follows /\ r.since.follows <= keys'.follows
        BY <3>3, <1>3, <1>4, <1>6, KeyTypes
      <3> QED BY <3>2, <3>3, <3>4, <1>1, <1>4 DEF RequestOK, DestroyOK
    <2> QED BY <2>1, <2>2 DEF RequestOK
  <1>8. StateOK'
    BY <1>1, <1>4, <1>6, <1>7 DEF MembersInv, StateOK
  <1>9. KeysOK'
    BY <1>1, <1>3, <1>4, <1>5, <1>6, KeyTypes DEF MembersInv, KeysOK
  <1>10. EmailsUnique'
    BY <1>1 DEF MembersInv, EmailsUnique
  <1> QED BY <1>7, <1>8, <1>9, <1>10 DEF MembersInv

LEMMA SaveDateKeeps ==
  ASSUME MembersInv, NEW w \in Workers, SaveDate(w)
  PROVE  MembersInv'
  <1> DEFINE id == keys.dates + 1
  <1>1. PICK from \in (IF req[w].at = "post" THEN {None} ELSE req[w].dates) :
          letsgos' = letsgos \cup {[id |-> id, user |-> req[w].user, from |-> from]}
    BY KeyTypes DEF SaveDate, Keys
  <1> DEFINE new == [id |-> id, user |-> req[w].user, from |-> from]
  <1>2. /\ keys' = [keys EXCEPT !.dates = id]
        /\ users' = users /\ relationships' = relationships
        /\ keys.dates < MaxDates
        /\ Drop(w)
    BY KeyTypes DEF SaveDate, Keys
  <1>3. req[w].user \in UserIds /\ from \in DateIds \cup {None}
    <2>1. req[w] \in Request /\ req[w].at \in {"post", "repost"}
      BY DEF SaveDate, MembersInv, StateOK
    <2>2. req[w].dates \subseteq DateIds
      BY <2>1 DEF Request
    <2> QED BY <1>1, <2>1, <2>2 DEF MembersInv, RequestsOK, RequestOK
  <1>4. id \in DateIds /\ id \in Nat /\ id > keys.dates
    BY <1>2, KeyTypes, MembersAssumption DEF DateIds
  <1>5. /\ keys' \in Keys /\ keys'.dates = id
        /\ keys'.users = keys.users /\ keys'.follows = keys.follows
    BY <1>2, <1>4, KeyTypes DEF Keys, DateIds
  <1>6. \A l \in letsgos : l.id \in Nat /\ l.id < id
    <2>1. \A l \in letsgos : l.id \in DateIds /\ l.id <= keys.dates
      BY DEF MembersInv, StateOK, KeysOK, Letsgo
    <2> QED BY <2>1, <1>4, KeyTypes, MembersAssumption DEF DateIds
  <1>7. new \in Letsgo /\ new.id = id
    BY <1>3, <1>4 DEF Letsgo
  <1>8. letsgos' = letsgos \cup {new}
    BY <1>1
  <1> HIDE DEF id, new
  <1>9. req' \in [Workers -> Request] /\ RequestsOK'
    <2> SUFFICES ASSUME NEW r \in Request, RequestOK(r) PROVE RequestOK(r)'
      BY <1>2, RequestEnds
    <2>1. r.at = "unfollow" => UnfollowOK(r)'
      BY <1>2, <1>5 DEF RequestOK, UnfollowOK
    <2>2. r.at = "destroy" => DestroyOK(r)'
      <3> SUFFICES ASSUME r.at = "destroy" PROVE DestroyOK(r)'
        OBVIOUS
      <3>1. r.since \in Keys /\ r.since.dates \in Nat /\ r.since.dates <= keys.dates
        BY MembersAssumption DEF RequestOK, DestroyOK, Keys
      <3>2. new.id > r.since.dates /\ r.since.dates <= keys'.dates
        BY <3>1, <1>4, <1>5, <1>7, KeyTypes
      <3> QED BY <3>1, <3>2, <1>2, <1>5, <1>8 DEF RequestOK, DestroyOK
    <2> QED BY <2>1, <2>2 DEF RequestOK
  <1>10. StateOK'
    BY <1>2, <1>5, <1>7, <1>8, <1>9 DEF MembersInv, StateOK
  <1>11. KeysOK'
    BY <1>2, <1>4, <1>5, <1>6, <1>7, <1>8, KeyTypes DEF MembersInv, KeysOK
  <1>12. EmailsUnique'
    BY <1>2 DEF MembersInv, EmailsUnique
  <1> QED BY <1>9, <1>10, <1>11, <1>12 DEF MembersInv

\* Rows that are removed take nothing from the others.
LEMMA RemovalKeeps ==
  ASSUME MembersInv, users' \subseteq users, relationships' \subseteq relationships,
         letsgos' \subseteq letsgos, UNCHANGED keys
  PROVE  /\ users' \subseteq User /\ relationships' \subseteq Relationship
         /\ letsgos' \subseteq Letsgo /\ keys' \in Keys
         /\ KeysOK' /\ EmailsUnique'
         /\ \A r \in Request : RequestOK(r) => RequestOK(r)'
  <1>1. /\ users' \subseteq User /\ relationships' \subseteq Relationship
        /\ letsgos' \subseteq Letsgo /\ keys' \in Keys
    BY DEF MembersInv, StateOK
  <1>2. KeysOK' /\ EmailsUnique'
    BY DEF MembersInv, KeysOK, EmailsUnique
  <1>3. \A r \in Request : RequestOK(r) => RequestOK(r)'
    <2> SUFFICES ASSUME NEW r \in Request, RequestOK(r) PROVE RequestOK(r)'
      OBVIOUS
    <2>1. r.at = "unfollow" => UnfollowOK(r)'
      BY DEF RequestOK, UnfollowOK
    <2>2. r.at = "destroy" => DestroyOK(r)'
      BY DEF RequestOK, DestroyOK
    <2> QED BY <2>1, <2>2 DEF RequestOK
  <1> QED BY <1>1, <1>2, <1>3

LEMMA SaveUnfollowKeeps ==
  ASSUME MembersInv, NEW w \in Workers, SaveUnfollow(w)
  PROVE  MembersInv'
  BY RemovalKeeps, RequestEnds DEF SaveUnfollow, MembersInv, StateOK

LEMMA CommitDestroyKeeps ==
  ASSUME MembersInv, NEW w \in Workers, CommitDestroy(w)
  PROVE  MembersInv'
  BY RemovalKeeps, RequestEnds DEF CommitDestroy, MembersInv, StateOK

LEMMA DestroyLetsgoKeeps ==
  ASSUME MembersInv, NEW w \in Workers, DestroyLetsgo(w)
  PROVE  MembersInv'
  <1>1. /\ users' \subseteq users /\ relationships' \subseteq relationships
        /\ letsgos' \subseteq letsgos /\ keys' = keys /\ req' = req
    BY DEF DestroyLetsgo
  <1>2. RequestsOK'
    <2> SUFFICES ASSUME NEW v \in Workers PROVE RequestOK(req[v])'
      BY DEF RequestsOK
    <2>1. PICK r \in Request : r = req[v]
      BY DEF MembersInv, StateOK
    <2>2. RequestOK(r)'
      BY <1>1, <2>1, RemovalKeeps DEF MembersInv, RequestsOK
    <2> QED
      BY <1>1, <2>1, <2>2 DEF RequestOK, UnfollowOK, DestroyOK
  <1> QED BY <1>1, <1>2, RemovalKeeps DEF MembersInv, StateOK
-----------------------------------------------------------------------------
(* The invariant, and what follows from it.                                *)

LEMMA InitMembers == Init => MembersInv
  <1> SUFFICES ASSUME Init PROVE MembersInv
    OBVIOUS
  <1>1. StateOK
    BY IdleRequest, MembersAssumption DEF Init, StateOK, Keys
  <1>2. KeysOK /\ EmailsUnique
    BY DEF Init, KeysOK, EmailsUnique
  <1>3. RequestsOK
    BY IdleRequest DEF Init, RequestsOK, RequestOK
  <1> QED BY <1>1, <1>2, <1>3 DEF MembersInv

\* The rows change in a step of one worker only.
LEMMA StepsOfWorkers ==
  ASSUME [Next]_vars
  PROVE  (\E w \in Workers : Step(w) /\ Watch(w)) \/ UNCHANGED vars
  BY DEF Next

LEMMA StepMembers == ASSUME MembersInv, NEW w \in Workers, Step(w)  PROVE MembersInv'
  <1>1. ASSUME NEW name \in Names, NEW email \in Emails, CheckSignup(w, name, email)
        PROVE  MembersInv'
    BY <1>1, CheckSignupKeeps
  <1>2. ASSUME NEW u \in UserIds, NEW name \in Names, NEW email \in Emails,
               CheckUpdate(w, u, name, email)
        PROVE  MembersInv'
    BY <1>2, CheckUpdateKeeps
  <1>3. ASSUME InsertUser(w) \/ SaveUpdate(w) \/ SaveFollow(w) \/ SaveUnfollow(w)
               \/ SaveDate(w) \/ DestroyLetsgo(w) \/ CommitDestroy(w) \/ Fail(w)
        PROVE  MembersInv'
    BY <1>3, InsertUserKeeps, SaveUpdateKeeps, SaveFollowKeeps, SaveUnfollowKeeps,
       SaveDateKeeps, DestroyLetsgoKeeps, CommitDestroyKeeps, FailKeeps
  <1>4. ASSUME NEW u \in UserIds, NEW v \in UserIds,
               BeginFollow(w, u, v) \/ BeginFollowOnce(w, u, v) \/ BeginUnfollow(w, u, v)
        PROVE  MembersInv'
    BY <1>4, BeginFollowKeeps, BeginUnfollowKeeps DEF BeginFollowOnce
  <1>5. ASSUME NEW u \in UserIds,
               BeginPost(w, u) \/ BeginRepost(w, u) \/ BeginDestroy(w, u)
        PROVE  MembersInv'
    BY <1>5, BeginPostKeeps, BeginRepostKeeps, BeginDestroyKeeps
  <1> QED BY <1>1, <1>2, <1>3, <1>4, <1>5 DEF Step

LEMMA NextMembers == MembersInv /\ [Next]_vars => MembersInv'
  <1> SUFFICES ASSUME MembersInv, [Next]_vars PROVE MembersInv'
    OBVIOUS
  <1>1. CASE UNCHANGED vars
    BY <1>1 DEF vars, MembersInv, StateOK, KeysOK, EmailsUnique, RequestsOK,
                RequestOK, UnfollowOK, DestroyOK
  <1> QED BY <1>1, StepsOfWorkers, StepMembers

\* What the tables hold and what requests have read stays consistent.
THEOREM MembersInvariance == Spec => []MembersInv
  BY InitMembers, NextMembers, PTL DEF Spec

\* No two accounts share an e-mail, for any number of overlapping sign-ups and
\* changes.
THEOREM EmailsUniqueTheorem == Spec => []EmailsUnique
  <1>1. MembersInv => EmailsUnique
    BY DEF MembersInv
  <1> QED BY <1>1, MembersInvariance, PTL

-----------------------------------------------------------------------------
(* What a step may never do.                                               *)

\* Which steps change the users, the relationships and the dates.
LEMMA UsersChange ==
  ASSUME MembersInv, NEW w \in Workers, Step(w)
  PROVE  users' \subseteq users \/ InsertUser(w) \/ SaveUpdate(w)
  BY DEF Step, CheckSignup, CheckUpdate, SaveFollow, SaveUnfollow, SaveDate,
         DestroyLetsgo, CommitDestroy, Fail, BeginFollow, BeginFollowOnce,
         BeginUnfollow, BeginPost, BeginRepost, BeginDestroy

LEMMA RelationshipsChange ==
  ASSUME MembersInv, Next
  PROVE  \/ relationships \subseteq relationships'
         \/ \E w \in Workers : SaveUnfollow(w)
         \/ \E w \in Workers : CommitDestroy(w)
  BY DEF Next, Step, CheckSignup, CheckUpdate, InsertUser, SaveUpdate, SaveFollow,
         SaveDate, DestroyLetsgo, Fail, BeginFollow, BeginFollowOnce, BeginUnfollow,
         BeginPost, BeginRepost, BeginDestroy

\* A user is gone only after CommitDestroy of that user.
LEMMA UsersGone ==
  ASSUME MembersInv, Next, Ids(users) \ Ids(users') # {}
  PROVE  \E w \in Workers : CommitDestroy(w)
  <1>1. \A w \in Workers : InsertUser(w) => Ids(users) \subseteq Ids(users')
    BY DEF InsertUser, Ids
  <1>2. \A w \in Workers : SaveUpdate(w) => Ids(users) \subseteq Ids(users')
    <2> SUFFICES ASSUME NEW w \in Workers, SaveUpdate(w), NEW u \in users
                 PROVE  u.id \in Ids(users')
      BY DEF Ids
    <2>1. Updated(w, u) \in users'
      BY DEF SaveUpdate, Updated
    <2>2. Updated(w, u).id = u.id
      BY UpdatedRow
    <2> QED BY <2>1, <2>2 DEF Ids
  <1>3. \/ users' = users
        \/ \E w \in Workers : InsertUser(w)
        \/ \E w \in Workers : SaveUpdate(w)
        \/ \E w \in Workers : CommitDestroy(w)
    BY DEF Next, Step, CheckSignup, CheckUpdate, SaveFollow, SaveUnfollow, SaveDate,
           DestroyLetsgo, Fail, BeginFollow, BeginFollowOnce,
           BeginUnfollow, BeginPost, BeginRepost, BeginDestroy
  <1> QED BY <1>1, <1>2, <1>3 DEF Ids

LEMMA WriterGoesIdle ==
  ASSUME MembersInv, NEW w \in Workers, Drop(w)
  PROVE  req'[w] = Idle /\ \A v \in Workers : v # w => req'[v] = req[v]
  BY DEF Drop, MembersInv, StateOK

\* A step of one worker leaves the requests of the others alone; its own ends,
\* begins or, where only a date is deleted, stays what it was.
LEMMA OneRequest ==
  ASSUME MembersInv, NEW w \in Workers, Step(w)
  PROVE  \/ req' = req /\ Free(w) /\ users' = users
         \/ Drop(w)
         \/ /\ \E r \in Request : req' = [req EXCEPT ![w] = r]
            /\ \A u \in users : u.username # req'[w].name
            /\ users' = users
  <1>1. req \in [Workers -> Request] /\ users \subseteq User
    BY DEF MembersInv, StateOK
  <1>2. \A u \in users : u.username # None
    BY <1>1, MembersAssumption DEF User
  <1> DEFINE Begun == /\ \E r \in Request : req' = [req EXCEPT ![w] = r]
                      /\ \A u \in users : u.username # req'[w].name
                      /\ users' = users
  <1>3. ASSUME NEW r \in Request, req' = [req EXCEPT ![w] = r], users' = users,
               \A u \in users : u.username # r.name
        PROVE  Begun
    BY <1>1, <1>3
  <1> HIDE DEF Begun
  <1>4. ASSUME NEW name \in Names, NEW email \in Emails, CheckSignup(w, name, email)
        PROVE  Begun
    <2> DEFINE r == [Idle EXCEPT !.at = "signup", !.name = name, !.email = email]
    <2>1. r \in Request /\ r.name = name
      BY DEF Idle, Request
    <2> QED BY <1>3, <1>4, <2>1 DEF CheckSignup
  <1>5. ASSUME NEW u \in UserIds, NEW name \in Names, NEW email \in Emails,
               CheckUpdate(w, u, name, email)
        PROVE  Begun
    <2>1. PICK me \in users :
            /\ \A v \in users \ {me} : v.username # name
            /\ req' = [req EXCEPT ![w] = [Idle EXCEPT !.at = "update", !.user = u,
                                            !.name = Changed(name, me.username),
                                            !.email = Changed(email, me.email)]]
      BY <1>5 DEF CheckUpdate
    <2> DEFINE r == [Idle EXCEPT !.at = "update", !.user = u,
                                 !.name = Changed(name, me.username),
                                 !.email = Changed(email, me.email)]
    <2>2. r \in Request /\ r.name = Changed(name, me.username)
      BY DEF Idle, Request, Changed
    <2>3. \A v \in users : v.username # r.name
      BY <1>2, <2>1, <2>2 DEF Changed
    <2> QED BY <1>3, <1>5, <2>1, <2>2, <2>3 DEF CheckUpdate
  <1>6. ASSUME NEW u \in UserIds, NEW v \in UserIds \cup {None},
               NEW step \in {"follow", "post"}, Enter(w, step, u, v), users' = users
        PROVE  Begun
    <2> DEFINE r == [Idle EXCEPT !.at = step, !.user = u, !.other = v]
    <2>1. r \in Request /\ r.name = None
      BY DEF Idle, Request
    <2> QED BY <1>2, <1>3, <1>6, <2>1 DEF Enter
  <1>7. ASSUME NEW u \in UserIds, NEW v \in UserIds, BeginUnfollow(w, u, v)
        PROVE  Begun
    <2>1. PICK f \in Follows(u, v) :
            req' = [req EXCEPT ![w] = [Idle EXCEPT !.at = "unfollow", !.user = u,
                                         !.other = v, !.follows = {f.id}]]
      BY <1>7 DEF BeginUnfollow
    <2> DEFINE r == [Idle EXCEPT !.at = "unfollow", !.user = u, !.other = v,
                                 !.follows = {f.id}]
    <2>2. f.id \in FollowIds
      BY DEF Follows, MembersInv, StateOK, Relationship
    <2>3. r \in Request /\ r.name = None
      BY <2>2 DEF Idle, Request
    <2> QED BY <1>2, <1>3, <1>7, <2>1, <2>3 DEF BeginUnfollow
  <1>8. ASSUME NEW u \in UserIds, BeginRepost(w, u)
        PROVE  Begun
    <2>1. PICK l \in letsgos :
            req' = [req EXCEPT ![w] = [Idle EXCEPT !.at = "repost", !.user = u,
                                                   !.dates = {l.id}]]
      BY <1>8 DEF BeginRepost
    <2> DEFINE r == [Idle EXCEPT !.at = "repost", !.user = u, !.dates = {l.id}]
    <2>2. l.id \in DateIds
      BY DEF MembersInv, StateOK, Letsgo
    <2>3. r \in Request /\ r.name = None
      BY <2>2 DEF Idle, Request
    <2> QED BY <1>2, <1>3, <1>8, <2>1, <2>3 DEF BeginRepost
  <1>9. ASSUME NEW u \in UserIds, BeginDestroy(w, u)
        PROVE  Begun
    <2> DEFINE F == Ids({f \in relationships : u \in {f.follower, f.followed}})
               D == Ids({l \in letsgos : l.user = u})
               r == [Idle EXCEPT !.at = "destroy", !.user = u, !.since = keys,
                                 !.follows = F, !.dates = D]
    <2>1. F \subseteq FollowIds /\ D \subseteq DateIds /\ keys \in Keys
      BY DEF Ids, MembersInv, StateOK, Relationship, Letsgo
    <2> HIDE DEF F, D
    <2>2. r \in Request /\ r.name = None
      BY <2>1 DEF Idle, Request
    <2> USE DEF F, D
    <2> QED BY <1>2, <1>3, <1>9, <2>2 DEF BeginDestroy
  <1>10. ASSUME NEW u \in UserIds, NEW v \in UserIds,
                \/ BeginFollow(w, u, v) \/ BeginFollowOnce(w, u, v) \/ BeginPost(w, u)
         PROVE  Begun
    BY <1>6, <1>10 DEF BeginFollow, BeginFollowOnce, BeginPost
  <1>11. ASSUME InsertUser(w) \/ SaveUpdate(w) \/ SaveFollow(w) \/ SaveUnfollow(w)
                \/ SaveDate(w) \/ CommitDestroy(w) \/ Fail(w)
         PROVE  Drop(w)
    BY <1>11 DEF InsertUser, SaveUpdate, SaveFollow, SaveUnfollow, SaveDate,
                 CommitDestroy, Fail
  <1>12. DestroyLetsgo(w) => req' = req /\ Free(w) /\ users' = users
    BY DEF DestroyLetsgo
  <1>13. Begun \/ Drop(w) \/ DestroyLetsgo(w)
    BY <1>4, <1>5, <1>7, <1>8, <1>9, <1>10, <1>11 DEF Step
  <1> QED BY <1>12, <1>13 DEF Begun

-----------------------------------------------------------------------------
(* Names that are given while another request is about to give them.       *)

\* Who was not overtaken still finds the name free.
OvertakenOK ==
  /\ overtaken \subseteq Workers
  /\ \A w \in Workers \ overtaken, u \in users : u.username # req[w].name

LEMMA NextOvertaken == MembersInv /\ OvertakenOK /\ [Next]_vars => OvertakenOK'
  <1> SUFFICES ASSUME MembersInv, OvertakenOK, [Next]_vars PROVE OvertakenOK'
    OBVIOUS
  <1>1. CASE UNCHANGED vars
    BY <1>1 DEF vars, OvertakenOK
  <1>2. ASSUME NEW w \in Workers, Step(w), Watch(w)
        PROVE  OvertakenOK'
    <2>1. overtaken' \subseteq Workers
      BY <1>2 DEF Watch, OvertakenOK
    <2>2. ASSUME NEW x \in Workers, x \notin overtaken', NEW u \in users'
          PROVE  u.username # req'[x].name
      <3>1. req \in [Workers -> Request] /\ users' \subseteq User
        BY <1>2, StepMembers DEF MembersInv, StateOK
      <3>2. u.username # None
        BY <3>1, MembersAssumption DEF User
      <3>3. CASE x # w
        <4>1. req'[x] = req[x]
          BY <1>2, <3>1, <3>3, OneRequest DEF Drop
        <4>2. x \notin overtaken /\ ~\E v \in users' \ users : v.username = req[x].name
          BY <1>2, <2>2, <3>3 DEF Watch
        <4> QED BY <4>1, <4>2 DEF OvertakenOK
      <3>4. CASE x = w
        <4>1. CASE req' = req /\ Free(w)
          BY <3>2, <3>4, <4>1 DEF Free, MembersInv, RequestsOK, RequestOK
        <4>2. CASE Drop(w)
          BY <3>1, <3>2, <3>4, <4>2 DEF Drop, Idle
        <4> QED BY <1>2, <3>4, <4>1, <4>2, OneRequest
      <3> QED BY <3>3, <3>4
    <2> QED BY <2>1, <2>2 DEF OvertakenOK
  <1> QED BY <1>1, <1>2, StepsOfWorkers

LEMMA OvertakenInvariance == Spec => []OvertakenOK
  <1>1. Init => OvertakenOK
    BY DEF Init, OvertakenOK
  <1> QED BY <1>1, NextOvertaken, MembersInvariance, PTL DEF Spec

\* Every row and every request keeps its type.
THEOREM MembersTypeCorrect == Spec => []TypeOK
  <1>1. MembersInv /\ OvertakenOK => TypeOK
    BY DEF MembersInv, StateOK, OvertakenOK, TypeOK
  <1> QED BY <1>1, MembersInvariance, OvertakenInvariance, PTL

\* A name that another user has is given, by a sign-up or in the settings, only by a
\* request that another one overtook between its check and its write.
THEOREM NamesGivenTwiceByRaceTheorem == Spec => NamesGivenTwiceByRace
  <1>1. MembersInv /\ OvertakenOK /\ [Next]_vars =>
          [\A u \in users' \ users, v \in users :
             /\ u.id # v.id /\ u.username = v.username
             /\ \A old \in users : old.id = u.id => old.username # u.username
             => \E w \in overtaken : req[w].name = u.username /\ req'[w] = Idle]_vars
    <2> SUFFICES ASSUME MembersInv, OvertakenOK, Next, NEW u \in users' \ users,
                        NEW v \in users, u.username = v.username,
                        \A old \in users : old.id = u.id => old.username # u.username
                 PROVE  \E w \in overtaken : req[w].name = u.username /\ req'[w] = Idle
      OBVIOUS
    <2>1. PICK w \in Workers : InsertUser(w) \/ SaveUpdate(w)
      BY UsersChange DEF Next
    <2>2. Drop(w)
      BY <2>1 DEF InsertUser, SaveUpdate
    <2>3. req[w].name = u.username
      <3>1. CASE InsertUser(w)
        BY <3>1 DEF InsertUser
      <3>2. CASE SaveUpdate(w)
        <4>1. PICK x \in users : u = Updated(w, x)
          BY <3>2 DEF SaveUpdate, Updated
        <4>2. u.id = x.id /\ u.username # x.username
          BY <4>1, UpdatedRow
        <4> QED BY <4>1, <4>2, UpdatedRow DEF Written
      <3> QED BY <2>1, <3>1, <3>2
    <2>4. w \in overtaken
      BY <2>3 DEF OvertakenOK
    <2> QED BY <2>2, <2>3, <2>4, WriterGoesIdle
  <1> QED BY <1>1, MembersInvariance, OvertakenInvariance, PTL
          DEF Spec, NamesGivenTwiceByRace

-----------------------------------------------------------------------------
(* Rows that go.                                                           *)

\* A user is no longer followed only because the follower asked for it or one of
\* the two was deleted.
THEOREM FollowEndsByRequestTheorem == Spec => FollowEndsByRequest
  <1>1. MembersInv /\ [Next]_vars =>
          [\A r \in relationships \ relationships' : \E w \in Workers :
             /\ req'[w] # req[w]
             /\ \/ req[w].at = "unfollow" /\ req[w].user = r.follower
                \/ req[w].at = "destroy" /\ req[w].user \in {r.follower, r.followed}]_vars
    <2> SUFFICES ASSUME MembersInv, Next, NEW r \in relationships \ relationships'
                 PROVE  \E w \in Workers :
                          /\ req'[w] # req[w]
                          /\ \/ req[w].at = "unfollow" /\ req[w].user = r.follower
                             \/ /\ req[w].at = "destroy"
                                /\ req[w].user \in {r.follower, r.followed}
      OBVIOUS
    <2>1. PICK w \in Workers : SaveUnfollow(w) \/ CommitDestroy(w)
      BY RelationshipsChange
    <2>2. r.id \in req[w].follows /\ Drop(w) /\ req[w].at \in {"unfollow", "destroy"}
      BY <2>1 DEF SaveUnfollow, CommitDestroy
    <2>3. req'[w] # req[w]
      BY <2>2, WriterGoesIdle, IdleRequest
    <2>4. CASE req[w].at = "unfollow"
      BY <2>2, <2>3, <2>4 DEF MembersInv, RequestsOK, RequestOK, UnfollowOK
    <2>5. CASE req[w].at = "destroy"
      BY <2>2, <2>3, <2>5 DEF MembersInv, RequestsOK, RequestOK, DestroyOK
    <2> QED BY <2>2, <2>4, <2>5
  <1> QED BY <1>1, MembersInvariance, PTL DEF Spec, FollowEndsByRequest

\* The deletion of a user leaves no row of the user but those saved meanwhile.
THEOREM DeletionTakesItsRowsTheorem == Spec => DeletionTakesItsRows
  <1>1. MembersInv /\ [Next]_vars =>
          [\A w \in Workers :
             req[w].at = "destroy" /\ req'[w] # req[w]
               /\ req[w].user \in Ids(users) \ Ids(users')
             => /\ \A r \in relationships' :
                     req[w].user \in {r.follower, r.followed}
                       => r.id > req[w].since.follows
                /\ \A l \in letsgos' :
                     l.user = req[w].user => l.id > req[w].since.dates]_vars
    <2> SUFFICES ASSUME MembersInv, Next, NEW w \in Workers, req[w].at = "destroy",
                        req'[w] # req[w], req[w].user \in Ids(users) \ Ids(users')
                 PROVE  /\ \A r \in relationships' :
                             req[w].user \in {r.follower, r.followed}
                               => r.id > req[w].since.follows
                        /\ \A l \in letsgos' :
                             l.user = req[w].user => l.id > req[w].since.dates
      OBVIOUS
    <2>1. PICK v \in Workers : CommitDestroy(v)
      BY UsersGone
    <2>2. v = w
      BY <2>1, WriterGoesIdle DEF CommitDestroy
    <2>3. /\ relationships' = {r \in relationships : r.id \notin req[w].follows}
          /\ letsgos' = {l \in letsgos : l.id \notin req[w].dates}
      BY <2>1, <2>2 DEF CommitDestroy
    <2> QED BY <2>3 DEF MembersInv, RequestsOK, RequestOK, DestroyOK
  <1> QED BY <1>1, MembersInvariance, PTL DEF Spec, DeletionTakesItsRows

-----------------------------------------------------------------------------
(* How many users can get one name.                                        *)

\* The keys of the users called n, and the requests that found n free and have
\* not saved their user yet.
Named(n) == Ids({u \in users : u.username = n})
Seeking(n) == {w \in Workers : req[w].name = n}

\* A request that passed the check takes a place until it ends: when there is a
\* user of the name no other one passes.
NamesInv ==
  \A n \in Names :
    Cardinality(Named(n)) + Cardinality(Seeking(n)) <= Cardinality(Workers)

\* There are finitely many keys, and no more requests than workers.
LEMMA NamesFinite ==
  ASSUME MembersInv, IsFiniteSet(Workers), NEW n
  PROVE  /\ IsFiniteSet(Named(n)) /\ Cardinality(Named(n)) \in Nat
         /\ IsFiniteSet(Seeking(n)) /\ Cardinality(Seeking(n)) \in Nat
         /\ Cardinality(Seeking(n)) <= Cardinality(Workers)
         /\ Cardinality(Workers) \in Nat
  <1>1. IsFiniteSet(UserIds)
    BY MembersAssumption, FS_Interval DEF UserIds
  <1>2. Named(n) \subseteq UserIds
    BY DEF Named, Ids, MembersInv, StateOK, User
  <1>3. Seeking(n) \subseteq Workers
    BY DEF Seeking
  <1> QED BY <1>1, <1>2, <1>3, FS_Subset, FS_CardinalityType

\* What takes users and requests away, or leaves them, keeps the bound.
LEMMA FewerKeepNames ==
  ASSUME MembersInv, NamesInv, IsFiniteSet(Workers), NEW n \in Names,
         Named(n)' \subseteq Named(n), Seeking(n)' \subseteq Seeking(n)
  PROVE  Cardinality(Named(n)') + Cardinality(Seeking(n)') <= Cardinality(Workers)
  <1>1. /\ Cardinality(Named(n)') <= Cardinality(Named(n))
        /\ Cardinality(Named(n)') \in Nat
    BY NamesFinite, FS_Subset, FS_CardinalityType
  <1>2. /\ Cardinality(Seeking(n)') <= Cardinality(Seeking(n))
        /\ Cardinality(Seeking(n)') \in Nat
    BY NamesFinite, FS_Subset, FS_CardinalityType
  <1>3. Cardinality(Named(n)) + Cardinality(Seeking(n)) <= Cardinality(Workers)
    BY DEF NamesInv
  <1> QED BY <1>1, <1>2, <1>3, NamesFinite

\* Where nobody is called n, there are no more requests for it than workers.
LEMMA FreeNameKept ==
  ASSUME MembersInv, IsFiniteSet(Workers), NEW n \in Names,
         \A u \in users' : u.username # n
  PROVE  Cardinality(Named(n)') + Cardinality(Seeking(n)') <= Cardinality(Workers)
  <1>1. Named(n)' = {}
    BY DEF Named, Ids
  <1>2. Cardinality(Named(n)') = 0
    BY <1>1, FS_EmptySet
  <1>3. Seeking(n)' \subseteq Workers
    BY DEF Seeking
  <1>4. /\ Cardinality(Seeking(n)') <= Cardinality(Workers)
        /\ Cardinality(Seeking(n)') \in Nat
    BY <1>3, FS_Subset, FS_CardinalityType
  <1> QED BY <1>2, <1>4

\* The request that saves a user gives up its place to it.
LEMMA SaverGivesWay ==
  ASSUME MembersInv, NamesInv, IsFiniteSet(Workers), NEW w \in Workers, Drop(w),
         NEW n \in Names, req[w].name = n, NEW id, Named(n)' \subseteq Named(n) \cup {id}
  PROVE  Cardinality(Named(n)') + Cardinality(Seeking(n)') <= Cardinality(Workers)
  <1>1. Seeking(n)' = Seeking(n) \ {w} /\ w \in Seeking(n)
    <2>1. req'[w] = Idle /\ \A v \in Workers : v # w => req'[v] = req[v]
      BY WriterGoesIdle
    <2>2. req'[w].name # n
      BY <2>1, MembersAssumption DEF Idle
    <2> QED BY <2>1, <2>2 DEF Seeking
  <1>2. /\ IsFiniteSet(Named(n) \cup {id})
        /\ Cardinality(Named(n) \cup {id}) =
             IF id \in Named(n) THEN Cardinality(Named(n)) ELSE Cardinality(Named(n)) + 1
    BY NamesFinite, FS_AddElement
  <1>3. /\ Cardinality(Named(n)') <= Cardinality(Named(n) \cup {id})
        /\ Cardinality(Named(n)') \in Nat
    BY <1>2, FS_Subset, FS_CardinalityType
  <1>4. Cardinality(Seeking(n)') = Cardinality(Seeking(n)) - 1
    <2>1. IsFiniteSet(Seeking(n))
      BY NamesFinite
    <2>2. Cardinality(Seeking(n) \ {w}) = Cardinality(Seeking(n)) - 1
      BY <1>1, <2>1, FS_RemoveElement
    <2> QED BY <1>1, <2>2
  <1>5. Cardinality(Named(n)) + Cardinality(Seeking(n)) <= Cardinality(Workers)
    BY DEF NamesInv
  <1> QED BY <1>2, <1>3, <1>4, <1>5, NamesFinite

\* A save gives the name it looked for to one user, and no name to another one.
LEMMA SavesNameOne ==
  ASSUME MembersInv, NEW w \in Workers, NEW n \in Names, InsertUser(w) \/ SaveUpdate(w)
  PROVE  /\ \E id : Named(n)' \subseteq Named(n) \cup {id}
         /\ req[w].name # n => Named(n)' \subseteq Named(n)
  <1>1. CASE InsertUser(w)
    <2>1. Named(n)' \subseteq Named(n) \cup {keys'.users}
      BY <1>1 DEF InsertUser, Named, Ids
    <2>2. req[w].name # n => Named(n)' \subseteq Named(n)
      BY <1>1 DEF InsertUser, Named, Ids
    <2> QED BY <2>1, <2>2
  <1>2. CASE SaveUpdate(w)
    <2>1. ASSUME NEW u \in users', u.username = n
          PROVE  /\ u.id \in Named(n) \cup {req[w].user}
                 /\ req[w].name # n => u.id \in Named(n)
      <3>1. PICK x \in users : u = Updated(w, x)
        BY <1>2, <2>1 DEF SaveUpdate, Updated
      <3>2. u.id = x.id /\ (x.id # req[w].user \/ req[w].name # n => x.username = n)
        BY <2>1, <3>1, UpdatedRow DEF Written
      <3> QED BY <3>2 DEF Named, Ids
    <2>2. Named(n)' \subseteq Named(n) \cup {req[w].user}
      BY <2>1 DEF Named, Ids
    <2>3. req[w].name # n => Named(n)' \subseteq Named(n)
      BY <2>1 DEF Named, Ids
    <2> QED BY <2>2, <2>3
  <1> QED BY <1>1, <1>2

\* Every step keeps the bound.
LEMMA NextNames ==
  ASSUME IsFiniteSet(Workers), MembersInv, NamesInv, [Next]_vars
  PROVE  NamesInv'
  <1> SUFFICES ASSUME NEW n \in Names
               PROVE  Cardinality(Named(n)') + Cardinality(Seeking(n)')
                        <= Cardinality(Workers)
    BY DEF NamesInv
  <1>1. CASE UNCHANGED vars
    BY <1>1, FewerKeepNames DEF vars, Named, Seeking
  <1>2. ASSUME NEW w \in Workers, Step(w)
        PROVE  Cardinality(Named(n)') + Cardinality(Seeking(n)') <= Cardinality(Workers)
    <2>0. req \in [Workers -> Request]
      BY DEF MembersInv, StateOK
    <2>1. CASE req' = req /\ users' = users
      BY <2>1, FewerKeepNames DEF Named, Seeking
    <2>2. CASE /\ \E r \in Request : req' = [req EXCEPT ![w] = r]
               /\ \A u \in users : u.username # req'[w].name
               /\ users' = users
      <3>1. CASE req'[w].name = n
        BY <2>2, <3>1, FreeNameKept
      <3>2. CASE req'[w].name # n
        <4>1. Seeking(n)' \subseteq Seeking(n)
          BY <2>0, <2>2, <3>2 DEF Seeking
        <4> QED BY <2>2, <4>1, FewerKeepNames DEF Named
      <3> QED BY <3>1, <3>2
    <2>3. CASE Drop(w)
      <3>1. Seeking(n)' \subseteq Seeking(n)
        BY <2>0, <2>3, MembersAssumption DEF Seeking, Drop, Idle
      <3>2. CASE users' \subseteq users
        BY <3>1, <3>2, FewerKeepNames DEF Named, Ids
      <3>3. CASE InsertUser(w) \/ SaveUpdate(w)
        <4>1. CASE req[w].name = n
          <5>1. PICK id : Named(n)' \subseteq Named(n) \cup {id}
            BY <3>3, SavesNameOne
          <5> QED BY <2>3, <4>1, <5>1, SaverGivesWay
        <4>2. CASE req[w].name # n
          BY <3>1, <3>3, <4>2, SavesNameOne, FewerKeepNames
        <4> QED BY <4>1, <4>2
      <3> QED BY <1>2, <3>2, <3>3, UsersChange
    <2> QED BY <1>2, <2>1, <2>2, <2>3, OneRequest
  <1> QED BY <1>1, <1>2, StepsOfWorkers

\* In the beginning nobody has a name or seeks one.
LEMMA InitNames == ASSUME IsFiniteSet(Workers), Init  PROVE NamesInv
  <1>1. \A n \in Names : Named(n) = {} /\ Seeking(n) = {}
    BY MembersAssumption DEF Init, Named, Ids, Seeking, Idle
  <1>2. Cardinality({}) = 0 /\ Cardinality(Workers) \in Nat
    BY FS_EmptySet, FS_CardinalityType
  <1> QED BY <1>1, <1>2 DEF NamesInv

\* No more users share a name than the site has server processes.
FewShareAName ==
  \A n \in Names :
    Cardinality(Ids({u \in users : u.username = n})) <= Cardinality(Workers)

LEMMA NamesAreShared ==
  ASSUME IsFiniteSet(Workers), MembersInv, NamesInv
  PROVE  FewShareAName
  <1> SUFFICES ASSUME NEW n \in Names PROVE Cardinality(Named(n)) <= Cardinality(Workers)
    BY DEF FewShareAName, Named
  <1> QED BY NamesFinite DEF NamesInv

\* However many sign-ups and changes of a name overlap, and over the whole life of
\* the site: the race that the missing index allows does not add up.
THEOREM FewShareANameTheorem == IsFiniteSet(Workers) => (Spec => []FewShareAName)
  <1> SUFFICES ASSUME IsFiniteSet(Workers) PROVE Spec => []FewShareAName
    OBVIOUS
  <1>1. Init => NamesInv
    BY InitNames
  <1>2. MembersInv /\ NamesInv /\ [Next]_vars => NamesInv'
    BY NextNames
  <1>3. MembersInv /\ NamesInv => FewShareAName
    BY NamesAreShared
  <1> QED BY <1>1, <1>2, <1>3, MembersInvariance, PTL DEF Spec

OneWorker == \A v, w \in Workers : v = w

LEMMA OneWorkerCounts ==
  ASSUME OneWorker
  PROVE  /\ IsFiniteSet(Workers) /\ Cardinality(Workers) \in Nat
         /\ Cardinality(Workers) <= 1
  <1>1. CASE Workers = {}
    <2>1. IsFiniteSet({}) /\ Cardinality({}) = 0
      BY FS_EmptySet
    <2> QED BY <1>1, <2>1
  <1>2. CASE Workers # {}
    <2>1. PICK w \in Workers : TRUE
      BY <1>2
    <2>2. Workers = {w}
      BY <2>1 DEF OneWorker
    <2>3. IsFiniteSet({w}) /\ Cardinality({w}) = 1
      BY FS_Singleton
    <2> QED BY <2>2, <2>3
  <1> QED BY <1>1, <1>2

\* Two members of a set make it larger than one.
LEMMA TwoAreMoreThanOne ==
  ASSUME NEW S, IsFiniteSet(S), NEW x \in S, NEW y \in S, x # y
  PROVE  Cardinality(S) \in Nat /\ Cardinality(S) > 1
  <1> DEFINE T == {x}
  <1>1. IsFiniteSet(T) /\ Cardinality(T) = 1
    BY FS_Singleton
  <1>2. y \notin T /\ T \cup {y} \subseteq S
    OBVIOUS
  <1> HIDE DEF T
  <1>3. IsFiniteSet(T \cup {y}) /\ Cardinality(T \cup {y}) = 2
    BY <1>1, <1>2, FS_AddElement
  <1>4. Cardinality(T \cup {y}) <= Cardinality(S) /\ Cardinality(S) \in Nat
    BY <1>2, FS_Subset, FS_CardinalityType
  <1> QED BY <1>3, <1>4

\* With one server process names are unique, as the validation says, through every
\* sign-up and every change of a name: the race is the only way to a second user.
THEOREM UsernamesUniqueAlone == OneWorker => (Spec => []UsernamesUnique)
  <1> SUFFICES ASSUME OneWorker PROVE Spec => []UsernamesUnique
    OBVIOUS
  <1>1. IsFiniteSet(Workers)
    BY OneWorkerCounts
  <1>2. MembersInv /\ FewShareAName => UsernamesUnique
    <2> SUFFICES ASSUME MembersInv, FewShareAName, NEW u \in users, NEW v \in users,
                        u.username = v.username, u.id # v.id
                 PROVE  FALSE
      BY DEF UsernamesUnique, MembersInv, KeysOK
    <2> DEFINE n == u.username
    <2>1. n \in Names
      BY DEF MembersInv, StateOK, User
    <2>2. u.id \in Named(n) /\ v.id \in Named(n)
      BY DEF Named, Ids
    <2>3. Cardinality(Named(n)) <= Cardinality(Workers)
      BY <2>1 DEF FewShareAName, Named
    <2> HIDE DEF n
    <2>4. Cardinality(Named(n)) > 1 /\ Cardinality(Named(n)) \in Nat
      BY <1>1, <2>2, NamesFinite, TwoAreMoreThanOne
    <2> QED BY <2>3, <2>4, OneWorkerCounts
  <1>3. Spec => []FewShareAName
    BY <1>1, FewShareANameTheorem
  <1> QED BY <1>2, <1>3, MembersInvariance, PTL
=============================================================================
