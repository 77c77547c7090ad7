----------------------------- MODULE FeedProofs -----------------------------
(***************************************************************************)
(* Theorems about Feed: for any number of users and dates, any size of a   *)
(* page and any walk through the pages.                                    *)
(***************************************************************************)
EXTENDS Feed, TLAPS, FiniteSetTheorems

-----------------------------------------------------------------------------
(* The inductive invariant.                                                *)

\* The list is finite, and nothing in it is of the future.
ListOK ==
  /\ IsFiniteSet(letsgos)
  /\ \A d \in letsgos : d.at <= clock

\* The word that is kept still says which boxes were ticked.
SexualityOK == sexuality = SexualityOf(gender[Reader], boxes)

SteadyOK == steady \subseteq Placed

\* While none came in, the dates on the screen can only have moved up.
ScreenOK ==
  ~came /\ page > 0 => \A d \in screen \cap steady : Place(d) < page * PageSize

FeedInv ==
  /\ TypeOK
  /\ ListOK
  /\ SexualityOK
  /\ SteadyOK
  /\ ScreenOK
  /\ ShownAsTicked
  /\ MissesForDepartures

-----------------------------------------------------------------------------
(* The list and the places in it.                                          *)

LEMMA Constants ==
  /\ PageSize \in Nat /\ PageSize > 0 /\ Reader \in Users
  /\ MaxDates \in Nat /\ MaxClock \in Nat /\ MaxMoves \in Nat
  BY FeedAssumption

\* The word users#create keeps for the boxes that were ticked says exactly those
\* boxes to letsgos#index, for either gender and any choice.
THEOREM GendersUndoesSexualityOf ==
  ASSUME NEW own \in Sexes, NEW ticked \in (SUBSET Sexes) \ {{}}
  PROVE  Genders(own, SexualityOf(own, ticked)) = ticked
  <1>1. own = "Male" \/ own = "Female"
    BY DEF Sexes
  <1>2. ticked = Sexes \/ ticked = {"Male"} \/ ticked = {"Female"}
    BY DEF Sexes
  <1> QED BY <1>1, <1>2 DEF Genders, SexualityOf, Sexes

LEMMA ListedIsWanted ==
  ASSUME TypeOK, SexualityOK
  PROVE  Listed = Wanted
  <1>1. gender[Reader] \in Sexes
    BY Constants DEF TypeOK
  <1>2. Genders(gender[Reader], sexuality) = boxes
    BY <1>1, GendersUndoesSexualityOf DEF TypeOK, SexualityOK
  <1> QED BY <1>2 DEF Listed, Wanted

\* The dates before d.
Earlier(d) == {e \in Wanted : e.at < d.at}

LEMMA WantedFinite ==
  ASSUME TypeOK, ListOK
  PROVE  /\ IsFiniteSet(Wanted) /\ Cardinality(Wanted) \in Nat
         /\ \A d \in Wanted : d.at \in Nat /\ d.at <= clock /\ clock \in Nat
         /\ \A d : IsFiniteSet(Earlier(d)) /\ Place(d) \in Nat /\ Place(d) = Cardinality(Earlier(d))
  <1>1. Wanted \subseteq letsgos
    BY DEF Wanted
  <1>2. IsFiniteSet(Wanted) /\ Cardinality(Wanted) \in Nat
    BY <1>1, FS_Subset, FS_CardinalityType DEF ListOK
  <1>3. \A d \in Wanted : d.at \in Nat /\ d.at <= clock /\ clock \in Nat
    BY <1>1, Constants DEF TypeOK, ListOK, Letsgo
  <1>4. ASSUME NEW d
        PROVE  IsFiniteSet(Earlier(d)) /\ Place(d) \in Nat /\ Place(d) = Cardinality(Earlier(d))
    <2>1. Earlier(d) \subseteq Wanted
      BY DEF Earlier
    <2>2. IsFiniteSet(Earlier(d)) /\ Cardinality(Earlier(d)) \in Nat
      BY <1>2, <2>1, FS_Subset, FS_CardinalityType
    <2> QED BY <2>2 DEF Place, Earlier
  <1> QED BY <1>2, <1>3, <1>4

\* What is earlier has fewer dates before it.
LEMMA EarlierHasLess ==
  ASSUME TypeOK, ListOK, NEW d \in Wanted, NEW e \in Wanted, d.at < e.at
  PROVE  Place(d) < Place(e)
  <1>1. /\ d.at \in Nat /\ e.at \in Nat /\ \A f \in Wanted : f.at \in Nat
        /\ IsFiniteSet(Earlier(d)) /\ IsFiniteSet(Earlier(e))
        /\ Place(d) = Cardinality(Earlier(d)) /\ Place(e) = Cardinality(Earlier(e))
        /\ Place(d) \in Nat /\ Place(e) \in Nat
    BY WantedFinite
  <1>2. Earlier(d) \cup {d} \subseteq Earlier(e) /\ d \notin Earlier(d)
    BY <1>1 DEF Earlier
  <1>3. Cardinality(Earlier(d) \cup {d}) = Cardinality(Earlier(d)) + 1
    BY <1>1, <1>2, FS_AddElement
  <1>4. Cardinality(Earlier(d) \cup {d}) <= Cardinality(Earlier(e))
    BY <1>1, <1>2, FS_Subset
  <1> QED BY <1>1, <1>3, <1>4

\* No two dates that are alone in their seconds have the same place.
LEMMA PlacesDiffer ==
  ASSUME TypeOK, ListOK, NEW d \in Placed, NEW e \in Placed, Place(d) = Place(e)
  PROVE  d = e
  <1> SUFFICES ASSUME d # e PROVE FALSE
    OBVIOUS
  <1>1. d \in Wanted /\ e \in Wanted /\ d.at # e.at
    BY DEF Placed
  <1>2. d.at \in Nat /\ e.at \in Nat /\ Place(d) \in Nat
    BY <1>1, WantedFinite
  <1> QED BY <1>1, <1>2, EarlierHasLess

\* So few of them have a place in an interval.
LEMMA FewInAnInterval ==
  ASSUME TypeOK, ListOK, NEW a \in Nat, NEW k \in Nat,
         NEW S \in SUBSET Placed, \A d \in S : a <= Place(d) /\ Place(d) < a + k
  PROVE  IsFiniteSet(S) /\ Cardinality(S) \in Nat /\ Cardinality(S) <= k
  <1> DEFINE place == [d \in S |-> Place(d)]
             interval == a..(a + k - 1)
  <1>1. IsFiniteSet(interval) /\ Cardinality(interval) = k
    BY FS_Interval
  <1>2. \A d \in S : Place(d) \in interval
    BY WantedFinite
  <1>3. place \in Injection(S, interval)
    BY <1>2, PlacesDiffer DEF Injection, IsInjective
  <1> QED BY <1>1, <1>3, FS_Injection, FS_CardinalityType

LEMMA DisjointUnion ==
  ASSUME NEW S, NEW T, IsFiniteSet(S), IsFiniteSet(T), S \cap T = {}
  PROVE  /\ IsFiniteSet(S \cup T)
         /\ Cardinality(S \cup T) = Cardinality(S) + Cardinality(T)
  <1>1. Cardinality(S \cap T) = 0
    BY FS_EmptySet
  <1>2. /\ IsFiniteSet(S \cup T)
        /\ Cardinality(S \cup T) = Cardinality(S) + Cardinality(T) - Cardinality(S \cap T)
    BY FS_Union
  <1>3. Cardinality(S) \in Nat /\ Cardinality(T) \in Nat
    BY FS_CardinalityType
  <1> QED BY <1>1, <1>2, <1>3

\* A page has the steady dates whose place in the list it covers, and no others,
\* however the database orders the dates of one second.
THEOREM CutGoesByPlace ==
  ASSUME TypeOK, ListOK, NEW offset \in Nat, NEW s \in Slices(Wanted, offset),
         NEW d \in Placed
  PROVE  d \in s <=> offset <= Place(d) /\ Place(d) < offset + PageSize
  <1>1. d \in Wanted /\ \A e \in Wanted : e # d => e.at # d.at
    BY DEF Placed
  <1>2. PICK before \in SUBSET (Wanted \ s) :
          LET after == Wanted \ (before \cup s) IN
          /\ Cardinality(before) = offset \/ (after \cup s = {} /\ Cardinality(before) < offset)
          /\ Cardinality(s) = PageSize \/ (after = {} /\ Cardinality(s) < PageSize)
          /\ \A e \in before, f \in s \cup after : e.at <= f.at
          /\ \A e \in s, f \in after : e.at <= f.at
    BY DEF Slices
  <1> DEFINE after == Wanted \ (before \cup s)
  <1>3. /\ Cardinality(before) = offset \/ (after \cup s = {} /\ Cardinality(before) < offset)
        /\ Cardinality(s) = PageSize \/ (after = {} /\ Cardinality(s) < PageSize)
        /\ \A e \in before, f \in s \cup after : e.at <= f.at
        /\ \A e \in s, f \in after : e.at <= f.at
    BY <1>2
  <1>4. s \subseteq Wanted /\ before \subseteq Wanted /\ before \cap s = {}
    BY DEF Slices
  <1>5. /\ IsFiniteSet(s) /\ IsFiniteSet(before) 
        /\ Cardinality(s) \in Nat /\ Cardinality(before) \in Nat
    BY <1>4, WantedFinite, FS_Subset, FS_CardinalityType
  <1>6. Cardinality(before \cup s) = Cardinality(before) + Cardinality(s)
    BY <1>4, <1>5, DisjointUnion
  <1>7. /\ d.at \in Nat /\ \A e \in Wanted : e.at \in Nat
        /\ IsFiniteSet(Earlier(d)) /\ Place(d) = Cardinality(Earlier(d)) /\ Place(d) \in Nat
    BY <1>1, WantedFinite
  <1>8. PageSize \in Nat /\ PageSize > 0
    BY Constants
  <1>9. CASE d \in s
    <2>1. before \subseteq Earlier(d)
      BY <1>1, <1>3, <1>4, <1>7, <1>9 DEF Earlier
    <2>2. Cardinality(before) = offset
      BY <1>3, <1>9
    <2>3. offset <= Place(d)
      BY <1>5, <1>7, <2>1, <2>2, FS_Subset
    <2>4. Earlier(d) \subseteq before \cup (s \ {d})
      BY <1>3, <1>7, <1>9 DEF Earlier
    <2>5. /\ IsFiniteSet(s \ {d}) /\ Cardinality(s \ {d}) = Cardinality(s) - 1
      BY <1>5, <1>9, FS_RemoveElement
    <2>6. /\ IsFiniteSet(before \cup (s \ {d}))
          /\ Cardinality(before \cup (s \ {d})) = Cardinality(before) + Cardinality(s) - 1
      <3>1. before \cap (s \ {d}) = {}
        BY <1>4
      <3>2. /\ IsFiniteSet(before \cup (s \ {d}))
            /\ Cardinality(before \cup (s \ {d})) = Cardinality(before) + Cardinality(s \ {d})
        BY <1>5, <2>5, <3>1, DisjointUnion
      <3> QED BY <1>5, <2>5, <3>2
    <2>7. Place(d) <= Cardinality(before) + Cardinality(s) - 1
      BY <1>7, <2>4, <2>6, FS_Subset
    <2> QED BY <1>3, <1>5, <1>7, <1>8, <1>9, <2>2, <2>3, <2>7
  <1>10. CASE d \in before
    <2>1. Earlier(d) \subseteq before \ {d}
      BY <1>3, <1>4, <1>7, <1>10 DEF Earlier
    <2>2. /\ IsFiniteSet(before \ {d}) /\ Cardinality(before \ {d}) = Cardinality(before) - 1
      BY <1>5, <1>10, FS_RemoveElement
    <2>3. Place(d) <= Cardinality(before) - 1
      BY <1>7, <2>1, <2>2, FS_Subset
    <2> QED BY <1>3, <1>4, <1>5, <1>7, <1>10, <2>3
  <1>11. CASE d \in after
    <2>1. before \cup s \subseteq Earlier(d)
      BY <1>1, <1>3, <1>4, <1>7, <1>11 DEF Earlier
    <2>2. Cardinality(before) = offset /\ Cardinality(s) = PageSize
      BY <1>3, <1>11
    <2>3. offset + PageSize <= Place(d)
      BY <1>6, <1>7, <2>1, <2>2, FS_Subset
    <2> QED BY <1>7, <1>8, <1>11, <2>3
  <1> QED BY <1>1, <1>9, <1>10, <1>11

\* Where a place falls among the pages.
LEMMA PageOfPlace ==
  ASSUME NEW p \in Nat
  PROVE  \E n \in Nat : n * PageSize <= p /\ p < n * PageSize + PageSize
  <1> DEFINE n == p \div PageSize
  <1>1. PageSize \in Nat /\ PageSize > 0
    BY Constants
  <1>2. n \in Nat /\ n * PageSize <= p /\ p < n * PageSize + PageSize
    BY <1>1
  <1> QED BY <1>2

LEMMA PagesAreApart ==
  ASSUME NEW k \in Nat, NEW n \in Nat, k < n
  PROVE  k * PageSize + PageSize <= n * PageSize
  <1>1. PageSize \in Nat /\ PageSize > 0
    BY Constants
  <1>2. PICK m \in Nat : n = k + 1 + m
    <2>1. n - k - 1 \in Nat /\ n = k + 1 + (n - k - 1)
      OBVIOUS
    <2> QED BY <2>1
  <1>3. n * PageSize = k * PageSize + PageSize + m * PageSize
    BY <1>1, <1>2
  <1>4. m * PageSize \in Nat /\ k * PageSize \in Nat
    BY <1>1
  <1> QED BY <1>1, <1>3, <1>4

LEMMA OnePageOf ==
  ASSUME TypeOK, ListOK, NEW d \in Placed
  PROVE  \E n \in Nat : \A k \in Nat : \A s \in Slices(Wanted, k * PageSize) :
           d \in s <=> k = n
  <1>1. Place(d) \in Nat
    BY WantedFinite
  <1>2. PICK n \in Nat : n * PageSize <= Place(d) /\ Place(d) < n * PageSize + PageSize
    BY <1>1, PageOfPlace
  <1>3. ASSUME NEW k \in Nat, NEW s \in Slices(Wanted, k * PageSize)
        PROVE  d \in s <=> k = n
    <2>1. k * PageSize \in Nat /\ n * PageSize \in Nat /\ PageSize \in Nat
      BY Constants
    <2>2. d \in s <=> k * PageSize <= Place(d) /\ Place(d) < k * PageSize + PageSize
      BY <2>1, CutGoesByPlace
    <2>3. k < n => k * PageSize + PageSize <= n * PageSize
      BY PagesAreApart
    <2>4. n < k => n * PageSize + PageSize <= k * PageSize
      BY PagesAreApart
    <2> QED BY <1>1, <1>2, <2>1, <2>2, <2>3, <2>4
  <1> QED BY <1>3

-----------------------------------------------------------------------------
(* Dates come and go.                                                      *)

LEMMA InitFeed == Init => FeedInv
  <1> SUFFICES ASSUME Init PROVE FeedInv
    OBVIOUS
  <1>1. IsFiniteSet({}) /\ Cardinality({}) = 0
    BY FS_EmptySet
  <1>2. sexuality \in Sexualities
    BY DEF Init, SexualityOf, Sexualities
  <1>3. TypeOK
    <2>1. screen \subseteq Letsgo /\ Cardinality(screen) <= PageSize
      BY <1>1, Constants DEF Init
    <2>2. /\ last \in 0..MaxDates /\ clock \in 0..MaxClock /\ moves \in 0..MaxMoves
          /\ page \in Nat /\ reached \in Nat /\ page <= reached /\ gone \in Nat
      BY Constants DEF Init
    <2> QED BY <1>2, <2>1, <2>2 DEF Init, TypeOK
  <1>4. ListOK /\ SexualityOK /\ SteadyOK /\ ScreenOK /\ ShownAsTicked
    BY <1>1 DEF Init, ListOK, SexualityOK, SteadyOK, ScreenOK, ShownAsTicked
  <1>5. Missed = {}
    BY DEF Init, Missed
  <1>6. MissesForDepartures
    BY <1>1, <1>5 DEF MissesForDepartures, Init
  <1> QED BY <1>3, <1>4, <1>6 DEF FeedInv

\* Missed dates are few while places change: each date that leaves the list pulls
\* at most one other to a page already turned, for their places differ.
LEMMA DeparturesPullFew ==
  ASSUME FeedInv, TypeOK', ListOK', steady' \subseteq steady, steady' \subseteq Placed',
         UNCHANGED <<seen, reached>>,
         gone' = gone + Cardinality(Wanted \ Wanted')
  PROVE  MissesForDepartures'
  <1> DEFINE left == Wanted \ Wanted'
             k == Cardinality(left)
             R == reached * PageSize
             pulled == {d \in steady : R <= Place(d) /\ Place(d) < R + k}
  <1>1. TypeOK /\ ListOK /\ steady \subseteq Placed /\ Cardinality(Missed) <= gone
    BY DEF FeedInv, SteadyOK, MissesForDepartures
  <1>2. IsFiniteSet(left) /\ k \in Nat
    BY <1>1, WantedFinite, FS_Difference, FS_CardinalityType
  <1>3. R \in Nat
    BY <1>1, Constants DEF TypeOK
  <1>4. /\ IsFiniteSet(pulled) /\ Cardinality(pulled) \in Nat /\ Cardinality(pulled) <= k
    BY <1>1, <1>2, <1>3, FewInAnInterval
  <1>5. IsFiniteSet(Missed) /\ Cardinality(Missed) \in Nat
    <2>1. Missed \subseteq Wanted
      BY <1>1 DEF Missed, Placed
    <2> QED BY <1>1, <2>1, WantedFinite, FS_Subset, FS_CardinalityType
  <1>6. ASSUME NEW d \in Missed'
        PROVE  d \in Missed \cup pulled
    <2>1. d \in steady /\ Place(d)' < R /\ d \notin seen
      BY <1>6 DEF Missed
    <2>2. /\ Place(d) \in Nat /\ Place(d) = Cardinality(Earlier(d))
          /\ IsFiniteSet(Earlier(d))
      BY <1>1, WantedFinite
    <2>3. /\ Place(d)' \in Nat /\ Place(d)' = Cardinality(Earlier(d)')
          /\ IsFiniteSet(Earlier(d)')
      <3>1. Earlier(d)' \subseteq letsgos' /\ IsFiniteSet(letsgos')
        BY DEF Earlier, Wanted, ListOK
      <3>2. Place(d)' = Cardinality(Earlier(d)')
        BY DEF Place, Earlier
      <3> QED BY <3>1, <3>2, FS_Subset, FS_CardinalityType
    <2>4. Earlier(d) \subseteq Earlier(d)' \cup left
      BY DEF Earlier
    <2>5. /\ IsFiniteSet(Earlier(d)' \cup left)
          /\ Cardinality(Earlier(d)' \cup left)
               = Cardinality(Earlier(d)') + k - Cardinality(Earlier(d)' \cap left)
      BY <1>2, <2>3, FS_Union
    <2>6. Cardinality(Earlier(d)' \cap left) \in Nat
      BY <2>3, FS_Intersection, FS_CardinalityType
    <2>7. Place(d) <= Place(d)' + k
      BY <1>2, <2>2, <2>3, <2>4, <2>5, <2>6, FS_Subset
    <2> QED BY <1>2, <1>3, <2>1, <2>2, <2>3, <2>7 DEF Missed
  <1>7. /\ IsFiniteSet(Missed \cup pulled)
        /\ Cardinality(Missed \cup pulled) <= Cardinality(Missed) + k
    <2>1. Cardinality(Missed \cap pulled) \in Nat
      BY <1>5, FS_Intersection, FS_CardinalityType
    <2>2. /\ IsFiniteSet(Missed \cup pulled)
          /\ Cardinality(Missed \cup pulled)
               = Cardinality(Missed) + Cardinality(pulled) - Cardinality(Missed \cap pulled)
      BY <1>4, <1>5, FS_Union
    <2> QED BY <1>2, <1>4, <1>5, <2>1, <2>2
  <1>8. Cardinality(Missed') <= Cardinality(Missed \cup pulled) /\ Cardinality(Missed') \in Nat
    BY <1>6, <1>7, FS_Subset, FS_CardinalityType
  <1>9. gone \in Nat /\ Cardinality(Missed \cup pulled) \in Nat
    BY <1>1, <1>7, FS_CardinalityType DEF TypeOK
  <1> QED BY <1>1, <1>2, <1>5, <1>7, <1>8, <1>9 DEF MissesForDepartures

\* While none comes in, the dates of the screen stay above its end.
LEMMA NoneCameScreenOK ==
  ASSUME FeedInv, TypeOK', ListOK', steady' \subseteq steady, UNCHANGED <<screen, page>>,
         ~came' => ~came,
         ~came' => \A d \in steady' : Earlier(d)' \subseteq Earlier(d)
  PROVE  ScreenOK'
  <1> SUFFICES ASSUME ~came', page > 0, NEW d \in screen, d \in steady'
               PROVE  Place(d)' < page * PageSize
    BY DEF ScreenOK
  <1>1. Place(d) < page * PageSize
    BY DEF FeedInv, ScreenOK
  <1>2. Earlier(d)' \subseteq Earlier(d)
    OBVIOUS
  <1>3. /\ IsFiniteSet(Earlier(d)) /\ Place(d) = Cardinality(Earlier(d)) /\ Place(d) \in Nat
    BY WantedFinite DEF FeedInv
  <1>4. Place(d)' = Cardinality(Earlier(d)')
    BY DEF Place, Earlier
  <1>5. Place(d)' <= Place(d) /\ Place(d)' \in Nat
    BY <1>2, <1>3, <1>4, FS_Subset, FS_CardinalityType
  <1>6. page * PageSize \in Nat
    BY Constants DEF FeedInv, TypeOK
  <1> QED BY <1>1, <1>3, <1>5, <1>6

LEMMA PostKeeps ==
  ASSUME FeedInv, NEW u \in Users, Post(u)
  PROVE  FeedInv'
  <1> DEFINE new == [id |-> last + 1, user |-> u, at |-> clock]
  <1>1. /\ last' = last + 1 /\ last' \in 0..MaxDates /\ last + 1 \in DateIds
        /\ letsgos' = letsgos \cup {new} /\ steady' = steady \cap Placed'
        /\ UNCHANGED <<gender, boxes, sexuality, state, clock, moves, screen, page, seen,
                       reached, gone, came>>
    BY Constants DEF Post, FeedInv, TypeOK, DateIds, signup, walk
  <1>2. new \in Letsgo /\ new.at = clock /\ clock \in Nat
    BY <1>1, Constants DEF Letsgo, FeedInv, TypeOK
  <1> HIDE DEF new
  <1>3. TypeOK'
    BY <1>1, <1>2 DEF FeedInv, TypeOK
  <1>4. ListOK'
    BY <1>1, <1>2, FS_AddElement DEF FeedInv, ListOK
  <1>5. SexualityOK' /\ SteadyOK' /\ ShownAsTicked'
    BY <1>1 DEF FeedInv, SexualityOK, SteadyOK, ShownAsTicked
  <1>6. Wanted \subseteq Wanted' /\ Wanted' \subseteq Wanted \cup {new}
    BY <1>1 DEF Wanted
  <1>7. ScreenOK'
    <2>1. ASSUME NEW d \in steady'
          PROVE  Earlier(d)' \subseteq Earlier(d)
      <3>1. d \in Wanted
        BY <1>1, <2>1 DEF FeedInv, SteadyOK, Placed
      <3>2. d.at \in Nat /\ d.at <= clock
        BY <3>1, WantedFinite DEF FeedInv
      <3> QED BY <1>2, <1>6, <3>2 DEF Earlier
    <2> QED BY <1>1, <1>3, <1>4, <2>1, NoneCameScreenOK
  <1>8. MissesForDepartures'
    <2>1. Cardinality(Wanted \ Wanted') = 0
      BY <1>6, FS_EmptySet
    <2>2. gone' = gone + Cardinality(Wanted \ Wanted')
      BY <1>1, <2>1 DEF FeedInv, TypeOK
    <2> QED BY <1>1, <1>3, <1>4, <2>2, DeparturesPullFew
  <1> QED BY <1>3, <1>4, <1>5, <1>7, <1>8 DEF FeedInv

LEMMA DeleteKeeps ==
  ASSUME FeedInv, NEW d \in letsgos, Delete(d)
  PROVE  FeedInv'
  <1>1. /\ letsgos' = letsgos \ {d} /\ steady' = steady \cap Placed'
        /\ gone' = gone + Cardinality(Wanted \cap {d})
        /\ UNCHANGED <<gender, boxes, sexuality, state, last, clock, moves, screen, page, seen,
                       reached, came>>
    BY DEF Delete, signup, walk
  <1>2. Wanted \ Wanted' = Wanted \cap {d} /\ Wanted' \subseteq Wanted
    BY <1>1 DEF Wanted
  <1>3. Cardinality(Wanted \cap {d}) \in Nat
    BY WantedFinite, FS_Intersection, FS_CardinalityType DEF FeedInv
  <1>4. TypeOK'
    BY <1>1, <1>3 DEF FeedInv, TypeOK
  <1>5. ListOK'
    BY <1>1, FS_RemoveElement DEF FeedInv, ListOK
  <1>6. SexualityOK' /\ SteadyOK' /\ ShownAsTicked'
    BY <1>1 DEF FeedInv, SexualityOK, SteadyOK, ShownAsTicked
  <1>7. ScreenOK'
    <2>1. \A e \in steady' : Earlier(e)' \subseteq Earlier(e)
      BY <1>2 DEF Earlier
    <2> QED BY <1>1, <1>4, <1>5, <2>1, NoneCameScreenOK
  <1>8. MissesForDepartures'
    <2>1. gone' = gone + Cardinality(Wanted \ Wanted')
      BY <1>1, <1>2
    <2> QED BY <1>1, <1>4, <1>5, <2>1, DeparturesPullFew
  <1> QED BY <1>4, <1>5, <1>6, <1>7, <1>8 DEF FeedInv

LEMMA MoveKeeps ==
  ASSUME FeedInv, NEW u \in Users, NEW s \in States, Move(u, s)
  PROVE  FeedInv'
  <1>1. /\ moves' \in 0..MaxMoves /\ state' \in [Users -> States]
        /\ steady' = steady \cap Placed'
        /\ gone' = gone + Cardinality(Wanted \ Wanted')
        /\ came' = (came \/ Wanted' \ Wanted # {})
        /\ UNCHANGED <<gender, boxes, sexuality, letsgos, last, clock, screen, page, seen,
                       reached>>
    BY Constants DEF Move, FeedInv, TypeOK, signup, posts, walk
  <1>2. Cardinality(Wanted \ Wanted') \in Nat
    BY WantedFinite, FS_Difference, FS_CardinalityType DEF FeedInv
  <1>3. TypeOK'
    BY <1>1, <1>2 DEF FeedInv, TypeOK
  <1>4. ListOK' /\ SexualityOK' /\ SteadyOK' /\ ShownAsTicked'
    BY <1>1 DEF FeedInv, ListOK, SexualityOK, SteadyOK, ShownAsTicked
  <1>5. ScreenOK'
    <2>1. ~came' => ~came /\ \A e \in steady' : Earlier(e)' \subseteq Earlier(e)
      BY <1>1 DEF Earlier
    <2> QED BY <1>1, <1>3, <1>4, <2>1, NoneCameScreenOK
  <1>6. MissesForDepartures'
    BY <1>1, <1>3, <1>4, DeparturesPullFew
  <1> QED BY <1>3, <1>4, <1>5, <1>6 DEF FeedInv

LEMMA TickKeeps ==
  ASSUME FeedInv, Tick
  PROVE  FeedInv'
  <1>1. /\ clock' = clock + 1 /\ clock' \in 0..MaxClock
        /\ UNCHANGED <<gender, boxes, sexuality, state, letsgos, last, moves, screen, page, seen,
                       reached, steady, gone, came>>
    BY Constants DEF Tick, FeedInv, TypeOK, signup, posts, walk, ghosts
  <1>2. TypeOK'
    BY <1>1 DEF FeedInv, TypeOK
  <1>3. ListOK'
    <2>1. \A d \in letsgos : d.at \in Nat /\ clock \in Nat
      BY Constants DEF FeedInv, TypeOK, Letsgo
    <2> QED BY <1>1, <2>1 DEF FeedInv, ListOK
  <1>4. Wanted' = Wanted
    BY <1>1 DEF Wanted
  <1> QED BY <1>1, <1>2, <1>3, <1>4
        DEF FeedInv, SexualityOK, SteadyOK, ShownAsTicked, ScreenOK, MissesForDepartures, Missed,
            Place, Placed

-----------------------------------------------------------------------------
(* Turning pages.                                                          *)

\* A page is a cut of the dates the reader asked for.
LEMMA PageIsACut ==
  ASSUME FeedInv, NEW n \in Nat, Query(n)
  PROVE  /\ screen' \in Slices(Wanted, n * PageSize) /\ n * PageSize \in Nat
         /\ screen' \subseteq Wanted /\ screen' \subseteq Letsgo
         /\ Cardinality(screen') <= PageSize
         /\ page' = n + 1
         /\ UNCHANGED <<gender, boxes, sexuality, state, letsgos, last, clock, moves>>
         /\ Wanted' = Wanted /\ Placed' = Placed /\ \A d : Place(d)' = Place(d)
  <1>1. /\ UNCHANGED <<gender, boxes, sexuality, state, letsgos, last, clock, moves>>
        /\ page' = n + 1 /\ screen' \in Slices(Listed, n * PageSize)
    BY DEF Query, signup, posts
  <1>2. screen' \in Slices(Wanted, n * PageSize)
    BY <1>1, ListedIsWanted DEF FeedInv
  <1>3. screen' \subseteq Wanted /\ Cardinality(screen') <= PageSize
    <2>1. /\ screen' \subseteq Wanted
          /\ Cardinality(screen') = PageSize \/ Cardinality(screen') < PageSize
      BY <1>2 DEF Slices
    <2>2. Cardinality(screen') \in Nat
      BY <2>1, WantedFinite, FS_Subset, FS_CardinalityType DEF FeedInv
    <2> QED BY <2>1, <2>2, Constants
  <1>4. Wanted \subseteq Letsgo
    BY DEF Wanted, FeedInv, TypeOK
  <1>5. Wanted' = Wanted
    BY <1>1 DEF Wanted
  <1> QED BY <1>1, <1>2, <1>3, <1>4, <1>5, Constants DEF Placed, Place

\* What a new page leaves, whatever page it is.
LEMMA QueryKeeps ==
  ASSUME FeedInv, NEW n \in Nat, Query(n), steady' \subseteq Placed
  PROVE  ListOK' /\ SexualityOK' /\ SteadyOK' /\ ScreenOK' /\ ShownAsTicked'
  <1>1. /\ screen' \in Slices(Wanted, n * PageSize) /\ n * PageSize \in Nat
        /\ screen' \subseteq Wanted /\ page' = n + 1
        /\ UNCHANGED <<gender, boxes, sexuality, letsgos, clock>>
        /\ Placed' = Placed /\ \A d : Place(d)' = Place(d)
    BY PageIsACut
  <1>2. ScreenOK'
    <2> SUFFICES ASSUME NEW d \in screen', d \in steady'
                 PROVE  Place(d)' < page' * PageSize
      BY DEF ScreenOK
    <2>1. Place(d) < n * PageSize + PageSize
      BY <1>1, CutGoesByPlace DEF FeedInv
    <2>2. (n + 1) * PageSize = n * PageSize + PageSize
      BY Constants
    <2> QED BY <1>1, <2>1, <2>2
  <1>3. ShownAsTicked'
    BY <1>1 DEF ShownAsTicked, Wanted
  <1> QED BY <1>1, <1>2, <1>3 DEF FeedInv, ListOK, SexualityOK, SteadyOK

LEMMA FirstPageKeeps ==
  ASSUME FeedInv, FirstPage
  PROVE  FeedInv'
  <1>1. /\ Query(0) /\ came' = FALSE
        /\ seen' = screen' /\ reached' = 1 /\ steady' = Placed /\ gone' = 0
    BY DEF FirstPage, Query
  <1>2. /\ screen' \in Slices(Wanted, 0) /\ screen' \subseteq Letsgo
        /\ Cardinality(screen') <= PageSize /\ page' = 1
        /\ UNCHANGED <<gender, boxes, sexuality, state, letsgos, last, clock, moves>>
        /\ \A d : Place(d)' = Place(d)
    BY <1>1, PageIsACut, Constants
  <1>3. TypeOK'
    <2>1. seen' \cup steady' \subseteq Letsgo
      BY <1>1, <1>2 DEF FeedInv, TypeOK, Placed, Wanted
    <2>2. page' \in Nat /\ reached' \in Nat /\ page' <= reached' /\ gone' \in Nat
      BY <1>1, <1>2
    <2>3. came' \in BOOLEAN
      BY <1>1
    <2> QED BY <1>2, <2>1, <2>2, <2>3 DEF FeedInv, TypeOK
  <1>4. ListOK' /\ SexualityOK' /\ SteadyOK' /\ ScreenOK' /\ ShownAsTicked'
    BY <1>1, QueryKeeps
  <1>5. MissesForDepartures'
    <2>1. ASSUME NEW d \in Missed'
          PROVE  FALSE
      <3>1. d \in Placed /\ Place(d) < 1 * PageSize /\ d \notin screen'
        BY <1>1, <1>2, <2>1 DEF Missed
      <3>2. Place(d) \in Nat
        BY WantedFinite DEF FeedInv
      <3>3. d \in screen'
        BY <1>2, <3>1, <3>2, CutGoesByPlace, Constants DEF FeedInv
      <3> QED BY <3>1, <3>3
    <2>2. Cardinality(Missed') = 0
      BY <2>1, FS_EmptySet
    <2> QED BY <1>1, <2>2 DEF MissesForDepartures
  <1> QED BY <1>3, <1>4, <1>5 DEF FeedInv

\* A page further on has every date whose place it covers, and a page back
\* covers no new place.
LEMMA TurnKeeps ==
  ASSUME FeedInv, NEW n \in Nat, n <= page, Query(n), Turn
  PROVE  FeedInv'
  <1>1. /\ seen' = seen \cup screen' /\ steady' = steady /\ gone' = gone /\ came' = FALSE
        /\ reached' = IF page' > reached THEN page' ELSE reached
    BY DEF Turn, Query
  <1>2. /\ screen' \in Slices(Wanted, n * PageSize) /\ n * PageSize \in Nat
        /\ screen' \subseteq Letsgo /\ Cardinality(screen') <= PageSize /\ page' = n + 1
        /\ UNCHANGED <<gender, boxes, sexuality, state, letsgos, last, clock, moves>>
        /\ \A d : Place(d)' = Place(d)
    BY PageIsACut
  <1>3. /\ TypeOK /\ ListOK /\ steady \subseteq Placed /\ Cardinality(Missed) <= gone
        /\ page \in Nat /\ reached \in Nat /\ page <= reached
    BY DEF FeedInv, SteadyOK, MissesForDepartures, TypeOK
  <1>4. TypeOK'
    <2>1. seen' \cup steady' \subseteq Letsgo
      BY <1>1, <1>2, <1>3 DEF TypeOK
    <2>2. page' \in Nat /\ reached' \in Nat /\ page' <= reached'
      BY <1>1, <1>2, <1>3
    <2>3. came' \in BOOLEAN
      BY <1>1
    <2> QED BY <1>1, <1>2, <1>3, <2>1, <2>2, <2>3 DEF TypeOK
  <1>5. ListOK' /\ SexualityOK' /\ SteadyOK' /\ ScreenOK' /\ ShownAsTicked'
    BY <1>1, <1>3, QueryKeeps
  <1>6. Missed' \subseteq Missed
    <2> SUFFICES ASSUME NEW d \in Missed'
                 PROVE  d \in Missed
      OBVIOUS
    <2>1. d \in steady /\ Place(d) < reached' * PageSize /\ d \notin seen /\ d \notin screen'
      BY <1>1, <1>2 DEF Missed
    <2>2. CASE reached' = reached
      BY <2>1, <2>2 DEF Missed
    <2>3. CASE reached' # reached
      <3>1. n = reached /\ reached' = n + 1
        BY <1>1, <1>2, <1>3, <2>3
      <3>2. (n + 1) * PageSize = n * PageSize + PageSize
        BY Constants
      <3>3. ~(n * PageSize <= Place(d))
        BY <1>2, <1>3, <2>1, <3>1, <3>2, CutGoesByPlace
      <3>4. Place(d) < n * PageSize
        BY <1>2, <1>3, <3>3, WantedFinite
      <3> QED BY <2>1, <3>1, <3>4 DEF Missed
    <2> QED BY <2>2, <2>3
  <1>7. MissesForDepartures'
    <2>1. Missed \subseteq Wanted
      BY <1>3 DEF Missed, Placed
    <2>2. IsFiniteSet(Missed) /\ Cardinality(Missed) \in Nat
      BY <1>3, <2>1, WantedFinite, FS_Subset, FS_CardinalityType
    <2>3. Cardinality(Missed') <= Cardinality(Missed) /\ Cardinality(Missed') \in Nat
      BY <1>6, <2>2, FS_Subset, FS_CardinalityType
    <2>4. gone \in Nat
      BY <1>3 DEF TypeOK
    <2> QED BY <1>1, <1>3, <2>2, <2>3, <2>4 DEF MissesForDepartures
  <1> QED BY <1>4, <1>5, <1>7 DEF FeedInv

LEMMA NextFeed == FeedInv /\ [Next]_vars => FeedInv'
  <1> SUFFICES ASSUME FeedInv, [Next]_vars PROVE FeedInv'
    OBVIOUS
  <1>1. CASE UNCHANGED vars
    BY <1>1 DEF vars, signup, posts, walk, ghosts, FeedInv, TypeOK, ListOK, SexualityOK, SteadyOK,
                ScreenOK, ShownAsTicked, MissesForDepartures, Missed, Place, Placed, Wanted
  <1>2. page \in Nat
    BY DEF FeedInv, TypeOK
  <1>3. CASE NextPage
    BY <1>2, <1>3, TurnKeeps DEF NextPage
  <1>4. CASE PreviousPage
    <2>1. page - 2 \in Nat /\ page - 2 <= page
      BY <1>2, <1>4 DEF PreviousPage
    <2> QED BY <1>4, <2>1, TurnKeeps DEF PreviousPage
  <1> QED BY <1>1, <1>3, <1>4, PostKeeps, DeleteKeeps, MoveKeeps, TickKeeps, FirstPageKeeps
        DEF Next

\* The list, the word for the boxes and the walk through the pages fit together.
THEOREM FeedInvariance == Spec => []FeedInv
  BY InitFeed, NextFeed, PTL DEF Spec

\* Profiles, dates and pages keep their types, and no page is too long.
THEOREM FeedTypeCorrect == Spec => []TypeOK
  <1>1. FeedInv => TypeOK
    BY DEF FeedInv
  <1> QED BY <1>1, FeedInvariance, PTL

\* A reader is shown only dates of the genders whose boxes were ticked.
THEOREM ShownAsTickedTheorem == Spec => []ShownAsTicked
  <1>1. FeedInv => ShownAsTicked
    BY DEF FeedInv
  <1> QED BY <1>1, FeedInvariance, PTL

\* Whatever is posted, deleted or moved while the pages are turned, in whichever
\* direction, no more steady dates are missed than left the list.
THEOREM MissesForDeparturesTheorem == Spec => []MissesForDepartures
  <1>1. FeedInv => MissesForDepartures
    BY DEF FeedInv
  <1> QED BY <1>1, FeedInvariance, PTL

\* Of the list as it is at any moment, every date with a place of its own is on
\* one page and on no other, whatever the size of a page: as long as the list does
\* not change, the pages of letsgos#index leave nothing out between them.
THEOREM EveryDateHasOnePage ==
  Spec => [](\A d \in Placed : \E n \in Nat : \A k \in Nat :
               \A s \in Slices(Listed, k * PageSize) : d \in s <=> k = n)
  <1>1. ASSUME FeedInv
        PROVE  \A d \in Placed : \E n \in Nat : \A k \in Nat :
                 \A s \in Slices(Listed, k * PageSize) : d \in s <=> k = n
    <2>1. TypeOK /\ ListOK /\ Listed = Wanted
      BY <1>1, ListedIsWanted DEF FeedInv
    <2> QED BY <2>1, OnePageOf
  <1> QED BY <1>1, FeedInvariance, PTL

\* As long as nothing leaves the list, a reader who has come to a page has been
\* shown every steady date whose place is on it or before it.
THEOREM NothingMissedWithoutDepartures == Spec => [](gone = 0 => Missed = {})
  <1>1. ASSUME FeedInv, gone = 0 PROVE Missed = {}
    <2>1. Missed \subseteq Wanted
      BY <1>1 DEF FeedInv, SteadyOK, Missed, Placed
    <2>2. IsFiniteSet(Missed) /\ Cardinality(Missed) \in Nat
      BY <1>1, <2>1, WantedFinite, FS_Subset, FS_CardinalityType DEF FeedInv
    <2>3. Cardinality(Missed) = 0
      BY <1>1, <2>2 DEF FeedInv, MissesForDepartures
    <2> QED BY <2>2, <2>3, FS_EmptySet
  <1>2. FeedInv => (gone = 0 => Missed = {})
    BY <1>1
  <1> QED BY <1>2, FeedInvariance, PTL

\* The next page repeats a steady date only when others came in before it.
THEOREM NextShowsNewTheorem == Spec => NextShowsNew
  <1> DEFINE Again == page' = page + 1 /\ page > 0 /\ screen \cap screen' \cap steady # {}
  <1>1. ASSUME FeedInv, [Next]_vars, Again
        PROVE  came
    <2>1. page \in Nat
      BY <1>1 DEF FeedInv, TypeOK
    <2>2. CASE NextPage
      <3> SUFFICES ASSUME ~came PROVE FALSE
        OBVIOUS
      <3>1. PICK d \in screen : d \in screen' /\ d \in steady
        BY <1>1
      <3>2. Place(d) < page * PageSize
        BY <1>1, <3>1 DEF FeedInv, ScreenOK
      <3>3. screen' \in Slices(Wanted, page * PageSize) /\ page * PageSize \in Nat
        BY <1>1, <2>1, <2>2, PageIsACut DEF NextPage
      <3>4. page * PageSize <= Place(d) /\ Place(d) \in Nat
        BY <1>1, <3>1, <3>3, CutGoesByPlace, WantedFinite DEF FeedInv, SteadyOK
      <3> QED BY <3>2, <3>3, <3>4
    <2>3. CASE PreviousPage
      BY <1>1, <2>1, <2>3 DEF PreviousPage, Query
    <2>4. CASE FirstPage
      BY <1>1, <2>1, <2>4 DEF FirstPage, Query
    <2>5. CASE UNCHANGED page
      BY <1>1, <2>1, <2>5
    <2> QED BY <1>1, <2>2, <2>3, <2>4, <2>5 DEF Next, vars, walk, Post, Delete, Move, Tick
  <1>2. FeedInv /\ [Next]_vars => (Again => came)
    BY <1>1
  <1> QED BY <1>2, FeedInvariance, PTL DEF Spec, NextShowsNew
=============================================================================
