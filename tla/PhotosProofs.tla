----------------------------- MODULE PhotosProofs -----------------------------
(***************************************************************************)
(* Theorems about Photos: for any number of users, workers and uploads,    *)
(* and any limit.                                                          *)
(***************************************************************************)
EXTENDS Photos, TLAPS, FiniteSetTheorems

-----------------------------------------------------------------------------
(* The inductive invariant.                                                *)

\* Keys are handed out in order, and name one row each.
KeysOK ==
  /\ \A p \in photos : p.id <= last
  /\ \A p, q \in photos : p.id = q.id => p = q
  /\ \A i \in abandoned : i <= last

\* An upload under way has a row of its own, which nobody owns yet.
UploadOK(w) ==
  /\ req[w].at = "idle" => req[w].photo = None
  /\ req[w].at # "idle" =>
    /\ req[w].user \in Users \cup {None} /\ req[w].photo \in PhotoIds
    /\ req[w].photo <= last /\ req[w].photo \notin abandoned
    /\ \A p \in photos : p.id = req[w].photo => p.user = None
    /\ \A v \in Workers : req[v].photo = req[w].photo => v = w

UploadsOK == \A w \in Workers : UploadOK(w)

\* The row of an upload that left it without a user never gets one.
AbandonedAreOwnerless ==
  \A p \in photos : p.id \in abandoned => p.user = None

\* A page shows rows that have a user, and a profile those of its user; what an
\* upload under way holds, or left without a user, it never shows.
PagesOK ==
  /\ \A r \in Readers : \A i \in page[r] : i <= last
  /\ \A r \in Readers : \A p \in photos : p.id \in page[r] => p.user # None
  /\ \A r \in Readers, w \in Workers : req[w].photo \notin page[r]

PhotosInv ==
  /\ TypeOK
  /\ KeysOK
  /\ UploadsOK
  /\ OwnerlessIsAbandoned
  /\ AbandonedAreOwnerless
  /\ PagesOK
  /\ AbandonedNotOffered
  /\ OfferedToItsUser

LEMMA InitPhotos == Init => PhotosInv
  <1> SUFFICES ASSUME Init PROVE PhotosInv
    OBVIOUS
  <1>1. None \notin Users /\ None \notin Nat /\ MaxPhotos \in Nat
    BY PhotosAssumption
  <1>2. Default \in Named /\ 0 \in 0..MaxPhotos /\ 0 \in Nat
    BY <1>1 DEF Named
  <1>3. Idle \in Request /\ Idle.at = "idle"
    BY DEF Idle, Request
  <1>4. TypeOK
    BY <1>2, <1>3 DEF Init, TypeOK
  <1>5. KeysOK
    BY DEF Init, KeysOK
  <1>6. UploadsOK
    BY <1>3 DEF Init, UploadsOK, UploadOK, Idle
  <1>7. OwnerlessIsAbandoned
    BY DEF Init, OwnerlessIsAbandoned
  <1>8. AbandonedAreOwnerless /\ PagesOK /\ AbandonedNotOffered /\ OfferedToItsUser
    BY DEF Init, AbandonedAreOwnerless, PagesOK, AbandonedNotOffered, OfferedToItsUser,
           Readers
  <1> QED BY <1>4, <1>5, <1>6, <1>7, <1>8 DEF PhotosInv

-----------------------------------------------------------------------------
(* One lemma per action.                                                   *)

LEMMA CreatePhotoKeeps ==
  ASSUME PhotosInv, NEW w \in Workers, NEW u \in Users \cup {None}, CreatePhoto(w, u)
  PROVE  PhotosInv'
  <1> DEFINE new == [id |-> last + 1, user |-> None]
             upload == [at |-> "created", user |-> u, photo |-> last + 1]
  <1>1. None \notin Users /\ None \notin Nat /\ MaxPhotos \in Nat
    BY PhotosAssumption
  <1>2. /\ last \in Nat /\ last < MaxPhotos /\ last' = last + 1
        /\ last + 1 \in PhotoIds /\ last' \in 0..MaxPhotos
    BY <1>1 DEF CreatePhoto, PhotosInv, TypeOK, PhotoIds
  <1>3. new \in Photo /\ new.id = last + 1 /\ new.user = None
    BY <1>2 DEF Photo
  <1>4. /\ upload \in Request /\ upload.user = u /\ upload.photo = last + 1
        /\ upload.at = "created"
    BY <1>2 DEF Request
  <1>5. photos' = photos \cup {new} /\ req' = [req EXCEPT ![w] = upload]
    BY DEF CreatePhoto
  <1> HIDE DEF new, upload
  <1>6. UNCHANGED <<users, avatar, page, abandoned>>
    BY DEF CreatePhoto
  <1>7. req' \in [Workers -> Request] /\ req'[w] = upload
        /\ \A v \in Workers : v # w => req'[v] = req[v]
    BY <1>4, <1>5 DEF PhotosInv, TypeOK
  <1>8. \A p \in photos : p.id \in Nat /\ p.id < last'
    BY <1>1, <1>2 DEF PhotosInv, KeysOK, TypeOK, Photo, PhotoIds
  <1>9. \A v \in Workers : req[v].photo # last + 1
    <2>1. TAKE v \in Workers
    <2>2. CASE req[v].at = "idle"
      BY <1>1, <1>2, <2>2 DEF PhotosInv, UploadsOK, UploadOK, TypeOK, Idle
    <2>3. CASE req[v].at # "idle"
      BY <1>2, <2>3 DEF PhotosInv, UploadsOK, UploadOK, PhotoIds
    <2> QED BY <2>2, <2>3
  <1>10. TypeOK'
    BY <1>2, <1>3, <1>5, <1>6, <1>7 DEF PhotosInv, TypeOK
  <1>11. KeysOK'
    <2>1. \A p \in photos : p.id # new.id
      BY <1>2, <1>3, <1>8
    <2>2. \A i \in abandoned : i \in Nat /\ i <= last
      BY <1>1 DEF PhotosInv, TypeOK, KeysOK, PhotoIds
    <2> QED BY <1>2, <1>3, <1>5, <1>6, <1>8, <2>1, <2>2 DEF PhotosInv, KeysOK
  <1>12. UploadsOK'
    <2> SUFFICES ASSUME NEW v \in Workers PROVE UploadOK(v)'
      BY DEF UploadsOK
    <2>2. CASE v = w
      <3>1. last + 1 \notin abandoned
        BY <1>1, <1>2 DEF PhotosInv, TypeOK, KeysOK, PhotoIds
      <3> QED BY <1>2, <1>3, <1>4, <1>5, <1>6, <1>7, <1>8, <1>9, <2>2, <3>1
            DEF UploadOK
    <2>3. CASE v # w
      BY <1>2, <1>3, <1>4, <1>5, <1>6, <1>7, <1>9, <2>3
      DEF PhotosInv, UploadsOK, UploadOK, PhotoIds
    <2> QED BY <2>2, <2>3
  <1>13. OwnerlessIsAbandoned'
    <2> SUFFICES ASSUME NEW p \in photos', p.user = None
                 PROVE  p.id \in abandoned' \/ \E v \in Workers : req'[v].photo = p.id
      BY DEF OwnerlessIsAbandoned
    <2>2. CASE p = new
      BY <1>3, <1>4, <1>7, <2>2
    <2>3. CASE p \in photos /\ p.user = None
      <3>1. p.id # None
        BY <1>1, <1>8, <2>3
      <3> QED BY <1>1, <1>4, <1>6, <1>7, <1>8, <2>3, <3>1
            DEF PhotosInv, OwnerlessIsAbandoned, CreatePhoto, Free, UploadsOK, UploadOK
    <2> QED BY <1>5, <2>2, <2>3
  <1>14. AbandonedAreOwnerless'
    BY <1>3, <1>5, <1>6 DEF PhotosInv, AbandonedAreOwnerless
  <1>15. \A r \in Readers : last + 1 \notin page[r] /\ \A i \in page[r] : i <= last'
    <2>1. \A r \in Readers : \A i \in page[r] : i \in Nat /\ i <= last
      BY <1>1 DEF PhotosInv, PagesOK, TypeOK, PhotoIds
    <2> QED BY <1>2, <2>1
  <1>16. PagesOK'
    <2>1. \A r \in Readers, v \in Workers : req'[v].photo \notin page[r]
      BY <1>4, <1>7, <1>15 DEF PhotosInv, PagesOK
    <2> QED BY <1>3, <1>5, <1>6, <1>15, <2>1 DEF PhotosInv, PagesOK
  <1>17. AbandonedNotOffered' /\ OfferedToItsUser'
    BY <1>3, <1>5, <1>6, <1>15 DEF PhotosInv, AbandonedNotOffered, OfferedToItsUser, Readers
  <1> QED BY <1>10, <1>11, <1>12, <1>13, <1>14, <1>16, <1>17 DEF PhotosInv

\* Counting changes no row.
LEMMA CountPhotosKeeps ==
  ASSUME PhotosInv, NEW w \in Workers, CountPhotos(w)
  PROVE  PhotosInv'
  <1>1. /\ UNCHANGED <<users, photos, avatar, last, page, abandoned>>
        /\ req' = [req EXCEPT ![w].at = "counted"] /\ req[w].at = "created"
    BY DEF CountPhotos
  <1>2. /\ req' \in [Workers -> Request]
        /\ \A v \in Workers : v # w => req'[v] = req[v]
        /\ req'[w].at = "counted" /\ req'[w].photo = req[w].photo
        /\ req'[w].user = req[w].user
    BY <1>1 DEF PhotosInv, TypeOK, Request
  <1>3. UploadsOK'
    <2> SUFFICES ASSUME NEW v \in Workers PROVE UploadOK(v)'
      BY DEF UploadsOK
    <2> QED BY <1>1, <1>2 DEF PhotosInv, UploadsOK, UploadOK
  <1>4. OwnerlessIsAbandoned'
    BY <1>1, <1>2 DEF PhotosInv, OwnerlessIsAbandoned
  <1>5. PagesOK'
    BY <1>1, <1>2 DEF PhotosInv, PagesOK
  <1> QED BY <1>1, <1>2, <1>3, <1>4, <1>5
        DEF PhotosInv, TypeOK, KeysOK, AbandonedAreOwnerless, AbandonedNotOffered,
            OfferedToItsUser

\* A refusal and a death leave the row, and say so.
LEMMA AbandonKeeps ==
  ASSUME PhotosInv, NEW w \in Workers, ~Free(w), Drop(w),
         abandoned' = abandoned \cup {req[w].photo},
         UNCHANGED <<users, photos, avatar, last, page>>
  PROVE  PhotosInv'
  <1>1. /\ req' \in [Workers -> Request] /\ req'[w] = Idle
        /\ \A v \in Workers : v # w => req'[v] = req[v]
    BY DEF PhotosInv, TypeOK, Drop, Idle, Request
  <1>2. /\ req[w].at # "idle" /\ req[w].photo \in PhotoIds /\ req[w].photo <= last
        /\ \A p \in photos : p.id = req[w].photo => p.user = None
    BY DEF PhotosInv, UploadsOK, UploadOK, Free
  <1>3. TypeOK' /\ KeysOK'
    BY <1>1, <1>2 DEF PhotosInv, TypeOK, KeysOK
  <1>4. UploadsOK'
    <2> SUFFICES ASSUME NEW v \in Workers PROVE UploadOK(v)'
      BY DEF UploadsOK
    <2>2. CASE v = w
      BY <1>1, <2>2 DEF UploadOK, Idle
    <2>3. CASE v # w
      <3>1. req[v].at # "idle" => req[v].photo # req[w].photo
        BY <2>3 DEF PhotosInv, UploadsOK, UploadOK
      <3>2. req[v].at # "idle" => req[v].photo # None
        BY PhotosAssumption DEF PhotosInv, UploadsOK, UploadOK, PhotoIds
      <3> QED BY <1>1, <2>3, <3>1, <3>2 DEF PhotosInv, UploadsOK, UploadOK, Idle
    <2> QED BY <2>2, <2>3
  <1>5. OwnerlessIsAbandoned'
    BY <1>1 DEF PhotosInv, OwnerlessIsAbandoned
  <1>6. AbandonedAreOwnerless'
    BY <1>2 DEF PhotosInv, AbandonedAreOwnerless
  <1>7. PagesOK' /\ AbandonedNotOffered'
    <2>1. \A r \in Readers : None \notin page[r] /\ req[w].photo \notin page[r]
      BY PhotosAssumption DEF PhotosInv, TypeOK, PagesOK, PhotoIds
    <2> QED BY <1>1, <2>1 DEF PhotosInv, PagesOK, AbandonedNotOffered, Idle
  <1> QED BY <1>3, <1>4, <1>5, <1>6, <1>7 DEF PhotosInv, OfferedToItsUser

\* The rows after a photo got its user: the same keys, and one new owner.
LEMMA SavedRows ==
  ASSUME PhotosInv, NEW w \in Workers, SavePhoto(w)
  PROVE  /\ req[w].user \in Users \cup {None} /\ req[w].photo \in PhotoIds
         /\ \A q \in photos' :
              \/ q \in photos /\ q.id # req[w].photo
              \/ q = [id |-> req[w].photo, user |-> req[w].user]
         /\ \A q \in photos' : \E p \in photos : p.id = q.id
         /\ \A p \in photos : \E q \in photos' : q.id = p.id
  <1> DEFINE Saved(p) == IF p.id = req[w].photo THEN [p EXCEPT !.user = req[w].user]
                         ELSE p
  <1>1. req[w].user \in Users \cup {None} /\ req[w].photo \in PhotoIds
    BY DEF PhotosInv, UploadsOK, UploadOK, SavePhoto
  <1>2. photos' = {Saved(p) : p \in photos}
    BY DEF SavePhoto
  <1>3. ASSUME NEW p \in photos
        PROVE  /\ Saved(p).id = p.id
               /\ Saved(p) = IF p.id = req[w].photo
                             THEN [id |-> req[w].photo, user |-> req[w].user] ELSE p
    BY DEF PhotosInv, TypeOK, Photo
  <1> HIDE DEF Saved
  <1>4. \A q \in photos' : \E p \in photos : q = Saved(p)
    BY <1>2
  <1>5. \A p \in photos : Saved(p) \in photos'
    BY <1>2
  <1> QED BY <1>1, <1>3, <1>4, <1>5

LEMMA SavePhotoKeeps ==
  ASSUME PhotosInv, NEW w \in Workers, SavePhoto(w)
  PROVE  PhotosInv'
  <1> DEFINE row == [id |-> req[w].photo, user |-> req[w].user]
  <1>1. /\ req' \in [Workers -> Request] /\ req'[w] = Idle
        /\ \A v \in Workers : v # w => req'[v] = req[v]
        /\ req[w].at # "idle"
        /\ UNCHANGED <<users, avatar, last, page>>
        /\ abandoned' = IF req[w].user = None THEN abandoned \cup {req[w].photo}
                        ELSE abandoned
    BY DEF PhotosInv, TypeOK, Drop, Idle, Request, SavePhoto
  <1>2. /\ req[w].user \in Users \cup {None} /\ req[w].photo \in PhotoIds
        /\ \A q \in photos' : (q \in photos /\ q.id # req[w].photo) \/ q = row
        /\ \A q \in photos' : \E p \in photos : p.id = q.id
    BY SavedRows
  <1>3. /\ row \in Photo /\ row.id = req[w].photo /\ row.user = req[w].user
    BY <1>2 DEF Photo
  <1> HIDE DEF row
  <1>4. None \notin Users /\ None \notin PhotoIds
    BY PhotosAssumption DEF PhotoIds
  <1>5. /\ req[w].photo <= last /\ req[w].photo \notin abandoned
        /\ \A p \in photos : p.id = req[w].photo => p.user = None
        /\ \A v \in Workers : req[v].photo = req[w].photo => v = w
    BY <1>1 DEF PhotosInv, UploadsOK, UploadOK
  <1>6. TypeOK'
    BY <1>1, <1>2, <1>3 DEF PhotosInv, TypeOK
  <1>7. KeysOK'
    BY <1>1, <1>2, <1>3, <1>5 DEF PhotosInv, KeysOK
  <1>8. UploadsOK'
    <2> SUFFICES ASSUME NEW v \in Workers PROVE UploadOK(v)'
      BY DEF UploadsOK
    <2>2. CASE v = w
      BY <1>1, <2>2 DEF UploadOK, Idle
    <2>3. CASE v # w
      <3>1. \A q \in photos' : q.id = req[v].photo => q \in photos
        BY <1>2, <1>3, <1>5, <2>3
      <3>2. req[v].at # "idle" => req[v].photo # None
        BY <1>4 DEF PhotosInv, UploadsOK, UploadOK
      <3>3. req[v].at # "idle" => req[v].photo # req[w].photo
        BY <1>5, <2>3
      <3> QED BY <1>1, <2>3, <3>1, <3>2, <3>3 DEF PhotosInv, UploadsOK, UploadOK, Idle
    <2> QED BY <2>2, <2>3
  <1>9. OwnerlessIsAbandoned'
    <2> SUFFICES ASSUME NEW q \in photos', q.user = None
                 PROVE  q.id \in abandoned' \/ \E v \in Workers : req'[v].photo = q.id
      BY DEF OwnerlessIsAbandoned
    <2>2. CASE q = row
      BY <1>1, <1>3, <2>2
    <2>3. CASE q \in photos /\ q.id # req[w].photo
      BY <1>1, <2>3 DEF PhotosInv, OwnerlessIsAbandoned
    <2> QED BY <1>2, <2>2, <2>3
  <1>10. AbandonedAreOwnerless'
    BY <1>1, <1>2, <1>3, <1>5 DEF PhotosInv, AbandonedAreOwnerless
  <1>11. \A r \in Readers : None \notin page[r] /\ req[w].photo \notin page[r]
    BY <1>4 DEF PhotosInv, TypeOK, PagesOK
  <1>12. PagesOK' /\ AbandonedNotOffered'
    BY <1>1, <1>2, <1>3, <1>11 DEF PhotosInv, PagesOK, AbandonedNotOffered, Idle
  <1>13. OfferedToItsUser'
    BY <1>1, <1>2, <1>3, <1>11 DEF PhotosInv, OfferedToItsUser, Readers
  <1> QED BY <1>6, <1>7, <1>8, <1>9, <1>10, <1>12, <1>13 DEF PhotosInv

\* A page grows by photos that have a user, a profile by its own.
LEMMA ViewKeeps ==
  ASSUME PhotosInv, NEW r \in Readers, NEW shown \in SUBSET photos,
         page' = [page EXCEPT ![r] = @ \cup Ids(shown)],
         \A p \in shown : p.user # None,
         r \in Users => \A p \in shown : p.user = r,
         UNCHANGED <<users, photos, avatar, last, abandoned, req>>
  PROVE  PhotosInv'
  <1>1. /\ Ids(shown) \subseteq PhotoIds
        /\ \A i \in Ids(shown) : i <= last
        /\ \A p \in photos : p.id \in Ids(shown) => p \in shown
    BY DEF PhotosInv, TypeOK, KeysOK, Photo, Ids
  <1>2. page' \in [Readers -> SUBSET PhotoIds]
    BY <1>1 DEF PhotosInv, TypeOK
  <1>3. \A s \in Readers : page'[s] = IF s = r THEN page[r] \cup Ids(shown) ELSE page[s]
    BY DEF PhotosInv, TypeOK
  <1> HIDE DEF Ids
  <1>4. TypeOK' /\ KeysOK' /\ UploadsOK' /\ OwnerlessIsAbandoned' /\ AbandonedAreOwnerless'
    BY <1>2 DEF PhotosInv, TypeOK, KeysOK, UploadsOK, UploadOK, OwnerlessIsAbandoned,
                AbandonedAreOwnerless
  <1>5. PagesOK' /\ AbandonedNotOffered'
    <2>1. \A p \in shown, w \in Workers : p.id # req[w].photo
      <3>1. TAKE p \in shown, w \in Workers
      <3>2. p.id # None
        BY PhotosAssumption DEF PhotosInv, TypeOK, Photo, PhotoIds
      <3> QED BY <3>2 DEF PhotosInv, UploadsOK, UploadOK
    <2>2. \A p \in shown : p.id \notin abandoned
      BY DEF PhotosInv, AbandonedAreOwnerless
    <2>3. \A i \in Ids(shown) : i \notin abandoned /\ \A w \in Workers : req[w].photo # i
      BY <2>1, <2>2 DEF Ids
    <2> QED BY <1>1, <1>3, <2>3 DEF PhotosInv, PagesOK, AbandonedNotOffered
  <1>6. OfferedToItsUser'
    BY <1>1, <1>3 DEF PhotosInv, OfferedToItsUser, Readers
  <1> QED BY <1>4, <1>5, <1>6 DEF PhotosInv

LEMMA ViewProfileKeeps ==
  ASSUME PhotosInv, NEW u \in Users, ViewProfile(u)
  PROVE  PhotosInv'
  <1>1. u \in Readers /\ PhotosOf(u) \subseteq photos
    BY DEF Readers, PhotosOf
  <1>2. \A p \in PhotosOf(u) : p.user = u /\ p.user # None
    BY PhotosAssumption DEF PhotosOf
  <1> QED BY <1>1, <1>2, ViewKeeps DEF ViewProfile

LEMMA ViewPicturesKeeps ==
  ASSUME PhotosInv, ViewPictures
  PROVE  PhotosInv'
  <1>1. Admin \in Readers /\ Admin \notin Users
    BY PhotosAssumption DEF Readers
  <1>2. \A p \in photos : p.user # None
    BY PhotosAssumption DEF ViewPictures, PhotosInv, TypeOK
  <1> QED BY <1>1, <1>2, ViewKeeps DEF ViewPictures

LEMMA DestroyPhotoKeeps ==
  ASSUME PhotosInv, NEW i \in PhotoIds, DestroyPhoto(i)
  PROVE  PhotosInv'
  BY DEF DestroyPhoto, PhotosInv, TypeOK, KeysOK, UploadsOK, UploadOK,
         OwnerlessIsAbandoned, AbandonedAreOwnerless, PagesOK, AbandonedNotOffered,
         OfferedToItsUser

LEMMA SetAvatarKeeps ==
  ASSUME PhotosInv, NEW u \in Users, NEW i \in Named, SetAvatar(u, i)
  PROVE  PhotosInv'
  <1>1. avatar' \in [Users -> Named]
    BY DEF PhotosInv, TypeOK, SetAvatar
  <1> QED BY <1>1
        DEF SetAvatar, PhotosInv, TypeOK, KeysOK, UploadsOK, UploadOK,
            OwnerlessIsAbandoned, AbandonedAreOwnerless, PagesOK, AbandonedNotOffered,
            OfferedToItsUser

LEMMA DestroyUserKeeps ==
  ASSUME PhotosInv, NEW u \in Users, DestroyUser(u)
  PROVE  PhotosInv'
  BY DEF DestroyUser, PhotosInv, TypeOK, KeysOK, UploadsOK, UploadOK,
         OwnerlessIsAbandoned, AbandonedAreOwnerless, PagesOK, AbandonedNotOffered,
         OfferedToItsUser

LEMMA NextPhotos == PhotosInv /\ [Next]_vars => PhotosInv'
  <1> SUFFICES ASSUME PhotosInv, [Next]_vars PROVE PhotosInv'
    OBVIOUS
  <1>1. CASE UNCHANGED vars
    BY <1>1 DEF vars, PhotosInv, TypeOK, KeysOK, UploadsOK, UploadOK,
                OwnerlessIsAbandoned, AbandonedAreOwnerless, PagesOK,
                AbandonedNotOffered, OfferedToItsUser
  <1>2. ASSUME NEW w \in Workers, NEW u \in Users \cup {None}, CreatePhoto(w, u)
        PROVE  PhotosInv'
    BY <1>2, CreatePhotoKeeps
  <1>3. ASSUME NEW w \in Workers,
               CountPhotos(w) \/ RefusePhoto(w) \/ SavePhoto(w) \/ Fail(w)
        PROVE  PhotosInv'
    <2>1. CASE RefusePhoto(w)
      BY <2>1, AbandonKeeps DEF RefusePhoto, Free
    <2>2. CASE Fail(w)
      BY <2>2, AbandonKeeps DEF Fail
    <2> QED BY <1>3, <2>1, <2>2, CountPhotosKeeps, SavePhotoKeeps
  <1>4. ASSUME NEW u \in Users, ViewProfile(u) \/ DestroyUser(u)
        PROVE  PhotosInv'
    BY <1>4, ViewProfileKeeps, DestroyUserKeeps
  <1>5. ASSUME NEW u \in Users, NEW i \in Named, SetAvatar(u, i)
        PROVE  PhotosInv'
    BY <1>5, SetAvatarKeeps
  <1>6. ASSUME NEW i \in PhotoIds, DestroyPhoto(i)
        PROVE  PhotosInv'
    BY <1>6, DestroyPhotoKeeps
  <1> QED BY <1>1, <1>2, <1>3, <1>4, <1>5, <1>6, ViewPicturesKeeps DEF Next

\* Rows, pages and uploads fit together after any history of either page.
THEOREM PhotosInvariance == Spec => []PhotosInv
  BY InitPhotos, NextPhotos, PTL DEF Spec

\* Every row, page and upload keeps its type.
THEOREM PhotosTypeCorrect == Spec => []TypeOK
  <1>1. PhotosInv => TypeOK
    BY DEF PhotosInv
  <1> QED BY <1>1, PhotosInvariance, PTL

\* A row without a user is that of an upload under way or of one that failed.
THEOREM OwnerlessIsAbandonedTheorem == Spec => []OwnerlessIsAbandoned
  <1>1. PhotosInv => OwnerlessIsAbandoned
    BY DEF PhotosInv
  <1> QED BY <1>1, PhotosInvariance, PTL

\* A photo that was left without a user is on no page, and never will be.
THEOREM AbandonedNotOfferedTheorem == Spec => []AbandonedNotOffered
  <1>1. PhotosInv => AbandonedNotOffered
    BY DEF PhotosInv
  <1> QED BY <1>1, PhotosInvariance, PTL

\* A profile offers, however long ago it was shown, photos of its own user alone.
THEOREM OfferedToItsUserTheorem == Spec => []OfferedToItsUser
  <1>1. PhotosInv => OfferedToItsUser
    BY DEF PhotosInv
  <1> QED BY <1>1, PhotosInvariance, PTL

-----------------------------------------------------------------------------
(* What a step does to the rows.                                           *)

\* Only an upload adds a key, the next one.
LEMMA NewRowsHaveNewKeys ==
  ASSUME PhotosInv, [Next]_vars, NEW k \in Ids(photos'), k \notin Ids(photos)
  PROVE  k = last + 1
  <1>1. photos' # photos
    OBVIOUS
  <1>2. ASSUME NEW w \in Workers, NEW u \in Users \cup {None}, CreatePhoto(w, u)
        PROVE  k = last + 1
    BY <1>2 DEF CreatePhoto, Ids
  <1>3. ASSUME NEW w \in Workers, SavePhoto(w)
        PROVE  FALSE
    <2>1. PICK q \in photos' : q.id = k
      BY DEF Ids
    <2>2. PICK p \in photos : p.id = q.id
      BY <1>3, SavedRows
    <2> QED BY <2>1, <2>2 DEF Ids
  <1>4. ASSUME NEW i \in PhotoIds, DestroyPhoto(i)
        PROVE  FALSE
    BY <1>4 DEF DestroyPhoto, Ids
  <1> QED BY <1>1, <1>2, <1>3, <1>4
        DEF Next, vars, CountPhotos, RefusePhoto, Fail, ViewProfile, ViewPictures,
            SetAvatar, DestroyUser

\* A choice changes no row and no page.
LEMMA AvatarsStay ==
  ASSUME PhotosInv, [Next]_vars, NEW u \in Users, avatar'[u] # avatar[u]
  PROVE  UNCHANGED <<photos, page, last>>
  BY DEF Next, vars, CreatePhoto, CountPhotos, RefusePhoto, SavePhoto, Fail,
         ViewProfile, ViewPictures, SetAvatar, DestroyPhoto, DestroyUser

\* Keys only grow.
LEMMA KeysGrow ==
  ASSUME PhotosInv, [Next]_vars
  PROVE  last \in Nat /\ last' \in Nat /\ last <= last'
  <1>1. last \in Nat
    BY PhotosAssumption DEF PhotosInv, TypeOK
  <1> QED BY <1>1
        DEF Next, vars, CreatePhoto, CountPhotos, RefusePhoto, SavePhoto, Fail,
            ViewProfile, ViewPictures, SetAvatar, DestroyPhoto, DestroyUser

\* A profile grows only when it is shown, which takes an avatar.
LEMMA ProfilesStay ==
  ASSUME PhotosInv, [Next]_vars, NEW u \in Users, page'[u] # page[u]
  PROVE  HasAvatar(u)
  <1>1. u \in Readers /\ u # Admin
    BY PhotosAssumption DEF Readers
  <1>2. ASSUME NEW v \in Users, ViewProfile(v)
        PROVE  HasAvatar(u)
    BY <1>1, <1>2 DEF ViewProfile, HasAvatar, PhotosInv, TypeOK
  <1>3. ASSUME ViewPictures
        PROVE  FALSE
    BY <1>1, <1>3 DEF ViewPictures, PhotosInv, TypeOK
  <1> QED BY <1>2, <1>3
        DEF Next, vars, CreatePhoto, CountPhotos, RefusePhoto, SavePhoto, Fail,
            SetAvatar, DestroyPhoto, DestroyUser

-----------------------------------------------------------------------------
(* What a step may not do.                                                 *)

\* Whoever is locked out gets an avatar again only by a request that names a photo
\* no page of theirs has offered.
THEOREM LockedOutStaysTheorem == Spec => LockedOutStays
  <1>1. ASSUME PhotosInv, [Next]_vars, NEW u \in Users, LockedOut(u),
               avatar'[u] \in page[u] \cup {avatar[u]}
        PROVE  LockedOut(u)'
    <2>1. /\ avatar[u] <= last /\ avatar[u] \in Nat
          /\ ~HasAvatar(u) /\ page[u] \cap Ids(photos) = {}
      BY <1>1, PhotosAssumption DEF LockedOut, PhotosInv, TypeOK, Named, PhotoIds
    <2>2. page'[u] = page[u]
      BY <1>1, <2>1, ProfilesStay
    <2>3. \A i \in page[u] : i \in Nat /\ i <= last
      BY <1>1 DEF PhotosInv, PagesOK, TypeOK, Readers, PhotoIds
    <2>4. last \in Nat /\ last' \in Nat /\ last <= last'
      BY <1>1, KeysGrow
    <2>5. \A i \in page[u] \cup {avatar[u]} : i \notin Ids(photos')
      <3>1. TAKE i \in page[u] \cup {avatar[u]}
      <3>2. i \notin Ids(photos) /\ i # last + 1
        BY <2>1, <2>3, <2>4 DEF HasAvatar
      <3> QED BY <1>1, <3>2, NewRowsHaveNewKeys
    <2>6. avatar'[u] <= last'
      BY <1>1, <2>1, <2>3, <2>4
    <2> QED BY <1>1, <2>2, <2>5, <2>6 DEF LockedOut, HasAvatar
  <1>2. PhotosInv /\ [Next]_vars =>
          \A u \in Users :
            LockedOut(u) /\ avatar'[u] \in page[u] \cup {avatar[u]} => LockedOut(u)'
    BY <1>1
  <1> QED BY <1>2, PhotosInvariance, PTL DEF Spec, LockedOutStays

-----------------------------------------------------------------------------
(* The quota.                                                              *)

\* The uploads of a user that have passed the count and not yet been saved.
Counted(u) == {w \in Workers : req[w].at = "counted" /\ req[w].user = u}

\* Each of them may add a photo, and at most one for every worker exists.
QuotaInv ==
  \A u \in Users :
    Cardinality(PhotosOf(u)) + Cardinality(Counted(u)) < LIMIT + Cardinality(Workers)

LEMMA WorkersFinite ==
  /\ IsFiniteSet(Workers) /\ Cardinality(Workers) \in Nat
  /\ Cardinality(Workers) >= 1
  <1>1. IsFiniteSet(Workers) /\ Workers # {}
    BY PhotosAssumption
  <1> QED BY <1>1, FS_CardinalityType, FS_EmptySet

\* Two photos of a user differ in the key, of which there are finitely many.
LEMMA PhotosOfFinite ==
  ASSUME TypeOK, NEW u \in Users
  PROVE  IsFiniteSet(PhotosOf(u)) /\ Cardinality(PhotosOf(u)) \in Nat
  <1> DEFINE key == [p \in PhotosOf(u) |-> p.id]
  <1>1. IsFiniteSet(PhotoIds)
    BY PhotosAssumption, FS_Interval DEF PhotoIds
  <1>2. \A p \in PhotosOf(u) : p = [id |-> p.id, user |-> u] /\ p.id \in PhotoIds
    BY DEF PhotosOf, TypeOK, Photo
  <1>3. key \in Injection(PhotosOf(u), PhotoIds)
    BY <1>2 DEF Injection, IsInjective
  <1> QED BY <1>1, <1>3, FS_Injection, FS_CardinalityType

LEMMA CountedFinite ==
  ASSUME NEW u \in Users
  PROVE  /\ IsFiniteSet(Counted(u)) /\ Cardinality(Counted(u)) \in Nat
         /\ Cardinality(Counted(u)) <= Cardinality(Workers)
  <1>1. Counted(u) \subseteq Workers
    BY DEF Counted
  <1> QED BY <1>1, WorkersFinite, FS_Subset, FS_CardinalityType

\* What takes photos and uploads away, or leaves them, keeps the bound.
LEMMA FewerKeepQuota ==
  ASSUME TypeOK, QuotaInv, NEW u \in Users,
         PhotosOf(u)' \subseteq PhotosOf(u), Counted(u)' \subseteq Counted(u)
  PROVE  Cardinality(PhotosOf(u)') + Cardinality(Counted(u)')
           < LIMIT + Cardinality(Workers)
  <1>1. /\ IsFiniteSet(PhotosOf(u)') /\ Cardinality(PhotosOf(u)') <= Cardinality(PhotosOf(u))
        /\ Cardinality(PhotosOf(u)') \in Nat
    BY PhotosOfFinite, FS_Subset, FS_CardinalityType
  <1>2. /\ Cardinality(Counted(u)') <= Cardinality(Counted(u))
        /\ Cardinality(Counted(u)') \in Nat
    BY CountedFinite, FS_Subset, FS_CardinalityType
  <1>3. Cardinality(PhotosOf(u)) + Cardinality(Counted(u)) < LIMIT + Cardinality(Workers)
    BY DEF QuotaInv
  <1>4. LIMIT \in Nat
    BY PhotosAssumption
  <1> QED BY <1>1, <1>2, <1>3, <1>4, PhotosOfFinite, CountedFinite, WorkersFinite

\* Who passes the count has fewer photos than the limit.
LEMMA CountPhotosKeepsQuota ==
  ASSUME PhotosInv, QuotaInv, NEW w \in Workers, CountPhotos(w), NEW u \in Users
  PROVE  Cardinality(PhotosOf(u)') + Cardinality(Counted(u)')
           < LIMIT + Cardinality(Workers)
  <1>1. PhotosOf(u)' = PhotosOf(u)
    BY DEF CountPhotos, PhotosOf
  <1>2. \A v \in Workers : v # w => req'[v] = req[v]
    BY DEF CountPhotos, PhotosInv, TypeOK
  <1>3. req'[w].user = req[w].user
    BY DEF CountPhotos, PhotosInv, TypeOK, Request
  <1>4. CASE req[w].user = u
    <2>1. Cardinality(PhotosOf(u)) < LIMIT
      BY <1>4, PhotosAssumption DEF CountPhotos, WithinQuota
    <2>2. Counted(u)' \subseteq Workers
      BY DEF Counted
    <2>3. /\ Cardinality(Counted(u)') <= Cardinality(Workers)
          /\ Cardinality(Counted(u)') \in Nat
      BY <2>2, WorkersFinite, FS_Subset, FS_CardinalityType
    <2>4. Cardinality(PhotosOf(u)) \in Nat /\ LIMIT \in Nat
      BY PhotosOfFinite, PhotosAssumption DEF PhotosInv
    <2> QED BY <1>1, <2>1, <2>3, <2>4, WorkersFinite
  <1>5. CASE req[w].user # u
    <2>1. Counted(u)' \subseteq Counted(u)
      BY <1>2, <1>3, <1>5 DEF Counted
    <2> QED BY <1>1, <2>1, FewerKeepQuota DEF PhotosInv
  <1> QED BY <1>4, <1>5

\* An upload that is saved adds one photo and is no longer counted.
LEMMA SavePhotoKeepsQuota ==
  ASSUME PhotosInv, QuotaInv, NEW w \in Workers, SavePhoto(w), NEW u \in Users
  PROVE  Cardinality(PhotosOf(u)') + Cardinality(Counted(u)')
           < LIMIT + Cardinality(Workers)
  <1> DEFINE row == [id |-> req[w].photo, user |-> req[w].user]
  <1>1. \A q \in photos' : q \in photos \/ q = row
    BY SavedRows
  <1>2. /\ req'[w].at = "idle" /\ \A v \in Workers : v # w => req'[v] = req[v]
        /\ req[w].at = "counted"
    BY DEF SavePhoto, Drop, Idle, PhotosInv, TypeOK
  <1>3. CASE req[w].user = u
    <2>1. PhotosOf(u)' \subseteq PhotosOf(u) \cup {row}
      BY <1>1 DEF PhotosOf
    <2>2. Counted(u)' = Counted(u) \ {w} /\ w \in Counted(u)
      BY <1>2, <1>3 DEF Counted
    <2> HIDE DEF row
    <2>3. /\ IsFiniteSet(PhotosOf(u) \cup {row})
          /\ Cardinality(PhotosOf(u) \cup {row}) <= Cardinality(PhotosOf(u)) + 1
          /\ Cardinality(PhotosOf(u) \cup {row}) \in Nat
      <3>1. IsFiniteSet(PhotosOf(u)) /\ Cardinality(PhotosOf(u)) \in Nat
        BY PhotosOfFinite DEF PhotosInv
      <3>2. /\ IsFiniteSet(PhotosOf(u) \cup {row})
            /\ Cardinality(PhotosOf(u) \cup {row}) =
                 IF row \in PhotosOf(u) THEN Cardinality(PhotosOf(u))
                 ELSE Cardinality(PhotosOf(u)) + 1
        BY <3>1, FS_AddElement
      <3> QED BY <3>1, <3>2
    <2>4. /\ Cardinality(PhotosOf(u)') <= Cardinality(PhotosOf(u) \cup {row})
          /\ Cardinality(PhotosOf(u)') \in Nat
      BY <2>1, <2>3, FS_Subset, FS_CardinalityType
    <2>5. Cardinality(Counted(u)') = Cardinality(Counted(u)) - 1
      BY <2>2, CountedFinite, FS_RemoveElement
    <2>6. Cardinality(PhotosOf(u)) + Cardinality(Counted(u))
            < LIMIT + Cardinality(Workers)
      BY DEF QuotaInv
    <2>7. /\ Cardinality(PhotosOf(u)) \in Nat /\ Cardinality(Counted(u)) \in Nat
          /\ LIMIT \in Nat
      BY PhotosOfFinite, CountedFinite, PhotosAssumption DEF PhotosInv
    <2> QED BY <2>3, <2>4, <2>5, <2>6, <2>7, WorkersFinite
  <1>4. CASE req[w].user # u
    <2>1. PhotosOf(u)' \subseteq PhotosOf(u)
      BY <1>1, <1>4 DEF PhotosOf
    <2>2. Counted(u)' \subseteq Counted(u)
      BY <1>2 DEF Counted
    <2> QED BY <2>1, <2>2, FewerKeepQuota DEF PhotosInv
  <1> QED BY <1>3, <1>4

LEMMA NextQuota == PhotosInv /\ QuotaInv /\ [Next]_vars => QuotaInv'
  <1> SUFFICES ASSUME PhotosInv, QuotaInv, [Next]_vars, NEW u \in Users
               PROVE  Cardinality(PhotosOf(u)') + Cardinality(Counted(u)')
                        < LIMIT + Cardinality(Workers)
    BY DEF QuotaInv
  <1>1. ASSUME PhotosOf(u)' \subseteq PhotosOf(u), Counted(u)' \subseteq Counted(u)
        PROVE  Cardinality(PhotosOf(u)') + Cardinality(Counted(u)')
                 < LIMIT + Cardinality(Workers)
    BY <1>1, FewerKeepQuota DEF PhotosInv
  <1>2. ASSUME NEW w \in Workers, NEW v \in Users \cup {None}, CreatePhoto(w, v)
        PROVE  PhotosOf(u)' \subseteq PhotosOf(u) /\ Counted(u)' \subseteq Counted(u)
    BY <1>2, PhotosAssumption DEF CreatePhoto, PhotosOf, Counted, PhotosInv, TypeOK
  <1>3. ASSUME NEW w \in Workers, RefusePhoto(w) \/ Fail(w)
        PROVE  PhotosOf(u)' \subseteq PhotosOf(u) /\ Counted(u)' \subseteq Counted(u)
    BY <1>3 DEF RefusePhoto, Fail, Drop, Idle, PhotosOf, Counted, PhotosInv, TypeOK
  <1>4. ASSUME NEW i \in PhotoIds, DestroyPhoto(i)
        PROVE  PhotosOf(u)' \subseteq PhotosOf(u) /\ Counted(u)' \subseteq Counted(u)
    BY <1>4 DEF DestroyPhoto, PhotosOf, Counted
  <1>5. ASSUME UNCHANGED <<photos, req>>
        PROVE  PhotosOf(u)' \subseteq PhotosOf(u) /\ Counted(u)' \subseteq Counted(u)
    BY <1>5 DEF PhotosOf, Counted
  <1> QED BY <1>1, <1>2, <1>3, <1>4, <1>5, CountPhotosKeepsQuota, SavePhotoKeepsQuota
        DEF Next, vars, ViewProfile, ViewPictures, SetAvatar, DestroyUser

LEMMA InitQuota == Init => QuotaInv
  <1> SUFFICES ASSUME Init, NEW u \in Users
               PROVE  Cardinality(PhotosOf(u)) + Cardinality(Counted(u))
                        < LIMIT + Cardinality(Workers)
    BY DEF QuotaInv
  <1>1. Counted(u) = {}
    BY DEF Init, Counted, Idle
  <1>2. PhotosOf(u) = {}
    BY DEF Init, PhotosOf
  <1>3. Cardinality(Counted(u)) = 0 /\ Cardinality(PhotosOf(u)) = 0
    BY <1>1, <1>2, FS_EmptySet
  <1>4. LIMIT \in Nat /\ LIMIT >= 1
    BY PhotosAssumption
  <1> QED BY <1>3, <1>4, WorkersFinite

\* However uploads overlap, a user passes the limit by less than the number of
\* server processes: for every limit and every number of them.
THEOREM QuotaWithOverlapTheorem == Spec => []QuotaWithOverlap
  <1>1. Spec => []QuotaInv
    BY InitQuota, NextQuota, PhotosInvariance, PTL DEF Spec
  <1>2. PhotosInv /\ QuotaInv => QuotaWithOverlap
    <2> SUFFICES ASSUME PhotosInv, QuotaInv, NEW u \in Users
                 PROVE  Cardinality(PhotosOf(u)) < LIMIT + Cardinality(Workers)
      BY DEF QuotaWithOverlap
    <2>1. /\ Cardinality(PhotosOf(u)) \in Nat /\ Cardinality(Counted(u)) \in Nat
          /\ LIMIT \in Nat
      BY PhotosOfFinite, CountedFinite, PhotosAssumption DEF PhotosInv
    <2> QED BY <2>1, WorkersFinite DEF QuotaInv
  <1> QED BY <1>1, <1>2, PhotosInvariance, PTL

\* With one server process the quota of Photo is kept to the photo, with any number
\* of uploads that are refused or die: only overlap breaks it.
THEOREM QuotaKeptAlone ==
  ASSUME Cardinality(Workers) = 1
  PROVE  Spec => [](\A u \in Users : Cardinality(PhotosOf(u)) <= LIMIT)
  <1>1. PhotosInv /\ QuotaWithOverlap => \A u \in Users : Cardinality(PhotosOf(u)) <= LIMIT
    <2> SUFFICES ASSUME PhotosInv, QuotaWithOverlap, NEW u \in Users
                 PROVE  Cardinality(PhotosOf(u)) <= LIMIT
      OBVIOUS
    <2>1. Cardinality(PhotosOf(u)) \in Nat /\ LIMIT \in Nat
      BY PhotosOfFinite, PhotosAssumption DEF PhotosInv
    <2> QED BY <2>1 DEF QuotaWithOverlap
  <1> QED BY <1>1, PhotosInvariance, QuotaWithOverlapTheorem, PTL
=============================================================================
