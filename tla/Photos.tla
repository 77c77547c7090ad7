-------------------------------- MODULE Photos --------------------------------
(***************************************************************************)
(* The photos of users: uploads with a quota, removal, the photo a user    *)
(* chose to stand for the profile, and the two pages with buttons for      *)
(* them, the own profile and the administrator's list of pictures.         *)
(*                                                                         *)
(* An upload saves a row without a user first; the quota is a count read   *)
(* before the row gets its user.  No foreign key holds avatar_id or        *)
(* user_id, so a page can meet a photo, or a user, that is gone: it raises *)
(* and shows nothing.  A page once shown keeps its buttons, but the        *)
(* requests behind them can also be sent by hand: the controller takes any *)
(* key, asks for no page, and for a log in only where it uses the user.    *)
(***************************************************************************)
EXTENDS Naturals, FiniteSets

CONSTANTS
  Users,
  Admin,      \* the reader of the list of pictures
  Workers,    \* server processes
  LIMIT,      \* photos a user may have
  MaxPhotos,  \* bound on the photos ever uploaded
  Default,    \* the default of avatar_id: 8, the key of a photo like any other
  None        \* SQL NULL, or nothing

ASSUME PhotosAssumption ==
  /\ IsFiniteSet(Workers) /\ Workers # {}
  /\ {LIMIT, Default} \subseteq Nat \ {0} /\ MaxPhotos \in Nat
  /\ Admin \notin Users
  /\ None \notin Users \cup Nat

VARIABLES
  users,      \* table users
  photos,     \* table photos
  avatar,     \* column avatar_id
  last,       \* the last key of photos
  page,       \* reader -> the photos with buttons on the pages shown so far
  abandoned,  \* photos whose upload left them without a user; not in the code
  req         \* worker -> the upload it is serving

vars == <<users, photos, avatar, last, page, abandoned, req>>

PhotoIds == 1..MaxPhotos

\* What a request, or avatar_id, can name; the photo may be there or not.
Named == PhotoIds \cup {Default}

Photo == [id: PhotoIds, user: Users \cup {None}]
Readers == Users \cup {Admin}

Request == [at: {"idle", "created", "counted"}, user: Users \cup {None},
            photo: PhotoIds \cup {None}]
Idle == [at |-> "idle", user |-> None, photo |-> None]

\* The type invariant: the rows, the pages and the memory of every upload.
TypeOK ==
  /\ users \subseteq Users
  /\ photos \subseteq Photo
  /\ avatar \in [Users -> Named]
  /\ last \in 0..MaxPhotos
  /\ page \in [Readers -> SUBSET PhotoIds]
  /\ abandoned \subseteq PhotoIds
  /\ req \in [Workers -> Request]

\* The photo of the default is still to come.
Init ==
  /\ users = Users
  /\ photos = {}
  /\ avatar = [u \in Users |-> Default]
  /\ last = 0
  /\ page = [r \in Readers |-> {}]
  /\ abandoned = {}
  /\ req = [w \in Workers |-> Idle]

-----------------------------------------------------------------------------
Ids(rows) == {p.id : p \in rows}
PhotosOf(u) == {p \in photos : p.user = u}
Free(w) == req[w].at = "idle"
Drop(w) == req' = [req EXCEPT ![w] = Idle]

(* Uploading.                                                              *)

\* Photo.create: the row has no user, and the quota returns early.  The form is
\* open to all: without a log in, u is None.
CreatePhoto(w, u) ==
  /\ Free(w) /\ u \in users \cup {None}
  /\ last < MaxPhotos
  /\ last' = last + 1
  /\ photos' = photos \cup {[id |-> last', user |-> None]}
  /\ req' = [req EXCEPT ![w] = [at |-> "created", user |-> u, photo |-> last']]
  /\ UNCHANGED <<users, avatar, page, abandoned>>

\* Slip: one more than the limit.
CountPhotosUpTo(w) ==
  /\ req[w].at = "created"
  /\ req[w].user = None \/ Cardinality(PhotosOf(req[w].user)) <= LIMIT
  /\ req' = [req EXCEPT ![w].at = "counted"]
  /\ UNCHANGED <<users, photos, avatar, last, page, abandoned>>

\* The second save counts the photos of the user, if there is one, in its
\* validation ...
WithinQuota(u) == u = None \/ Cardinality(PhotosOf(u)) < LIMIT

CountPhotos(w) ==
  /\ req[w].at = "created"
  /\ WithinQuota(req[w].user)
  /\ req' = [req EXCEPT ![w].at = "counted"]
  /\ UNCHANGED <<users, photos, avatar, last, page, abandoned>>

\* ... and refuses; the row of the first save stays.
RefusePhoto(w) ==
  /\ req[w].at = "created"
  /\ ~WithinQuota(req[w].user)
  /\ abandoned' = abandoned \cup {req[w].photo}
  /\ Drop(w)
  /\ UNCHANGED <<users, photos, avatar, last, page>>

\* Slip: the user was set on another copy of the row.
SavePhotoAsLoaded(w) ==
  /\ req[w].at = "counted"
  /\ Drop(w)
  /\ UNCHANGED <<users, photos, avatar, last, page, abandoned>>

\* Then the row gets its user, if it is there still and there is one.
SavePhoto(w) ==
  /\ req[w].at = "counted"
  /\ photos' = {IF p.id = req[w].photo THEN [p EXCEPT !.user = req[w].user] ELSE p
                  : p \in photos}
  /\ abandoned' = IF req[w].user = None THEN abandoned \cup {req[w].photo} ELSE abandoned
  /\ Drop(w)
  /\ UNCHANGED <<users, avatar, last, page>>

\* A process dies.
Fail(w) ==
  /\ ~Free(w)
  /\ abandoned' = abandoned \cup {req[w].photo}
  /\ Drop(w)
  /\ UNCHANGED <<users, photos, avatar, last, page>>

-----------------------------------------------------------------------------
(* Pages and their buttons.                                                *)

\* Slip: avatar.try(:id), a page that shows without an avatar.
ViewProfileAnyway(u) ==
  /\ u \in users
  /\ page' = [page EXCEPT ![u] = @ \cup Ids(PhotosOf(u))]
  /\ UNCHANGED <<users, photos, avatar, last, abandoned, req>>

\* Slip: buttons under the photos of everybody, without the question whether
\* the profile is the reader's own.
ViewAnyProfile(u) ==
  /\ u \in users
  /\ avatar[u] \in Ids(photos)
  /\ page' = [page EXCEPT ![u] = @ \cup Ids(photos)]
  /\ UNCHANGED <<users, photos, avatar, last, abandoned, req>>

\* The own profile has both buttons under each photo, and raises at
\* @user.avatar.id when the avatar is gone.
ViewProfile(u) ==
  /\ u \in users
  /\ avatar[u] \in Ids(photos)
  /\ page' = [page EXCEPT ![u] = @ \cup Ids(PhotosOf(u))]
  /\ UNCHANGED <<users, photos, avatar, last, abandoned, req>>

\* Slip: leaves the name of the user out when there is none.
ViewPicturesAnyway ==
  /\ page' = [page EXCEPT ![Admin] = @ \cup Ids(photos)]
  /\ UNCHANGED <<users, photos, avatar, last, abandoned, req>>

\* The list of pictures has "remove" under each, and raises at
\* photo.user.username when one has no user.
ViewPictures ==
  /\ \A p \in photos : p.user \in users
  /\ page' = [page EXCEPT ![Admin] = @ \cup Ids(photos)]
  /\ UNCHANGED <<users, photos, avatar, last, abandoned, req>>

\* Slip: takes the avatar away with the photo.
DestroyPhotoAndAvatar(i) ==
  /\ i \in Ids(photos)
  /\ photos' = {p \in photos : p.id # i}
  /\ avatar' = [u \in Users |-> IF avatar[u] = i THEN None ELSE avatar[u]]
  /\ UNCHANGED <<users, last, page, abandoned, req>>

\* "remove", from a page or by hand: nobody asks who sends it, or whose photo it
\* is.  The photo of a page shown earlier may be gone.
DestroyPhoto(i) ==
  /\ i \in Ids(photos)
  /\ photos' = {p \in photos : p.id # i}
  /\ UNCHANGED <<users, avatar, last, page, abandoned, req>>

\* "Set as Profile Image" writes the key it was sent into the row of who is
\* logged in, whether the photo is there or not, and whosever it is.
SetAvatar(u, i) ==
  /\ u \in users
  /\ avatar' = [avatar EXCEPT ![u] = i]
  /\ UNCHANGED <<users, photos, last, page, abandoned, req>>

\* A user is deleted; the photos stay, for has_many :photos has no dependent.
DestroyUser(u) ==
  /\ u \in users
  /\ users' = users \ {u}
  /\ UNCHANGED <<photos, avatar, last, page, abandoned, req>>

Next ==
  \/ \E w \in Workers, u \in Users \cup {None} : CreatePhoto(w, u)
  \/ \E w \in Workers : CountPhotos(w)
  \/ \E w \in Workers : RefusePhoto(w)
  \/ \E w \in Workers : SavePhoto(w)
  \/ \E w \in Workers : Fail(w)
  \/ \E u \in Users : ViewProfile(u)
  \/ ViewPictures
  \/ \E i \in PhotoIds : DestroyPhoto(i)
  \/ \E u \in Users, i \in Named : SetAvatar(u, i)
  \/ \E u \in Users : DestroyUser(u)

Spec == Init /\ [][Next]_vars

-----------------------------------------------------------------------------
(* Properties.                                                             *)

\* Uploads that count at once pass the quota together; a user can get past it
\* by one photo for every worker but one, and never further.
QuotaWithOverlap ==
  \A u \in Users :
    Cardinality(PhotosOf(u)) < LIMIT + Cardinality(Workers)

\* A photo is without a user only while its upload runs, or because that died, was
\* refused or came without a log in: no upload of a user ends well and leaves one.
OwnerlessIsAbandoned ==
  \A p \in photos :
    p.user = None =>
      \/ p.id \in abandoned
      \/ \E w \in Workers : req[w].photo = p.id

\* No page ever offers an abandoned photo, neither the profile, which lists
\* the photos of its user, nor the pictures, which raise while there is one: who
\* wants to remove it has to write the request by hand.
AbandonedNotOffered == \A r \in Readers : page[r] \cap abandoned = {}

\* The controller lets anybody remove any photo.  What keeps users from the photos
\* of others is what the pages offer: a photo that is there is offered, on pages
\* shown however long ago, to its own user and the administrator alone.
OfferedToItsUser ==
  \A u \in Users, p \in photos : p.id \in page[u] => p.user = u

HasAvatar(u) == avatar[u] \in Ids(photos)

\* A user whose avatar was removed and who has no page open with a photo that is
\* still there gets no other one by a page or a button, whatever is uploaded or
\* removed: the page with the button raises without an avatar.  The only way back is
\* a request by hand, with a key that no page has offered.  (While the default is
\* still to come, every user who chose nothing gets an avatar with that upload.)
LockedOut(u) ==
  /\ avatar[u] <= last /\ ~HasAvatar(u)
  /\ page[u] \cap Ids(photos) = {}

LockedOutStays ==
  [][\A u \in Users :
       LockedOut(u) /\ avatar'[u] \in page[u] \cup {avatar[u]} => LockedOut(u)']_vars
=============================================================================
