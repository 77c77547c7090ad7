--------------------------------- MODULE Feed ---------------------------------
(***************************************************************************)
(* The pages of proposed dates: who is shown to a reader, and what a       *)
(* reader sees who turns the pages while others post and delete dates and  *)
(* move to another state.                                                  *)
(*                                                                         *)
(* A page is a query of its own, by offset into the list as it is then,    *)
(* oldest first.  Times count seconds, and the database orders dates of    *)
(* one second as it likes, in every query anew.  Reposts, which the query  *)
(* leaves out, are left out.                                               *)
(***************************************************************************)
EXTENDS Naturals, FiniteSets

CONSTANTS
  Users,
  Reader,    \* the user who turns the pages
  States,    \* where a zip code can be
  PageSize,  \* 10
  MaxDates,  \* bound on the dates ever posted
  MaxClock,  \* bound on the clock, in seconds
  MaxMoves   \* bound on changes of a zip code

ASSUME FeedAssumption ==
  /\ Reader \in Users
  /\ PageSize \in Nat \ {0}
  /\ {MaxDates, MaxClock, MaxMoves} \subseteq Nat

Sexes == {"Male", "Female"}
Sexualities == {"gay", "straight", "bisexual"}
DateIds == 1..MaxDates
Letsgo == [id: DateIds, user: Users, at: 0..MaxClock]

VARIABLES
  gender,     \* column gender, chosen when signing up
  boxes,      \* the boxes "interested in" the reader ticked then; not a column
  sexuality,  \* column sexuality of the reader
  state,      \* the state of every user's zip code
  letsgos,    \* table letsgos
  last,       \* its last key
  clock,
  moves,      \* changes of a zip code so far
  screen,     \* the dates on the reader's page
  page        \* @page: the number of the page on the screen, from 1; 0 at first

\* Not in the code, about the walk through the pages since the first one:
VARIABLES
  seen,     \* dates shown
  reached,  \* highest page
  steady,   \* dates to be shown then and ever since, alone in their second
  gone,     \* dates that left the list
  came      \* whether dates came into the list since the page was shown

signup == <<gender, boxes, sexuality>>
posts == <<letsgos, last>>
walk == <<screen, page, seen, reached>>
ghosts == <<steady, gone, came>>
vars == <<signup, state, posts, clock, moves, walk, ghosts>>

\* The type invariant: profiles, dates, the page on the screen, never longer
\* than the limit, and the walk so far.
TypeOK ==
  /\ gender \in [Users -> Sexes]
  /\ boxes \in (SUBSET Sexes) \ {{}}
  /\ sexuality \in Sexualities
  /\ state \in [Users -> States]
  /\ letsgos \subseteq Letsgo
  /\ last \in 0..MaxDates /\ clock \in 0..MaxClock /\ moves \in 0..MaxMoves
  /\ screen \subseteq Letsgo /\ Cardinality(screen) <= PageSize
  /\ page \in Nat /\ reached \in Nat /\ page <= reached
  /\ seen \cup steady \subseteq Letsgo
  /\ gone \in Nat /\ came \in BOOLEAN

-----------------------------------------------------------------------------
(* Who is shown to whom.                                                   *)

\* UsersController#create: what the boxes mean for this gender.
SexualityOf(own, ticked) ==
  IF ticked = Sexes THEN "bisexual" ELSE IF ticked = {own} THEN "gay" ELSE "straight"

\* Slip: the branch for women copied from the one for men.
GendersAsForMen(own, sexual) ==
  IF sexual = "gay" THEN {"Male"} ELSE IF sexual = "straight" THEN {"Female"} ELSE Sexes

\* LetsgosController#index and UsersController#speed_date: the way back.
Genders(own, sexual) ==
  IF sexual = "gay" THEN {own} ELSE IF sexual = "straight" THEN Sexes \ {own} ELSE Sexes

\* The dates of the query.
Listed ==
  {d \in letsgos : /\ gender[d.user] \in Genders(gender[Reader], sexuality)
                   /\ state[d.user] = state[Reader]}

\* Slip: all that follows the offset, without the limit.
SlicesToTheEnd(list, offset) ==
  {s \in SUBSET list :
     /\ Cardinality(list \ s) = offset \/ (s = {} /\ Cardinality(list) < offset)
     /\ \A d \in list \ s, e \in s : d.at <= e.at}

\* Slip: the newest first, as the default scope has it.
SlicesFromNewest(list, offset) ==
  {s \in SUBSET list :
     \E before \in SUBSET (list \ s) :
       LET after == list \ (before \cup s) IN
       /\ Cardinality(before) = offset \/ (after \cup s = {} /\ Cardinality(before) < offset)
       /\ Cardinality(s) = PageSize \/ (after = {} /\ Cardinality(s) < PageSize)
       /\ \A d \in before, e \in s \cup after : d.at >= e.at
       /\ \A d \in s, e \in after : d.at >= e.at}

\* OFFSET and LIMIT: any cut of the list that goes by the time.
Slices(list, offset) ==
  {s \in SUBSET list :
     \E before \in SUBSET (list \ s) :
       LET after == list \ (before \cup s) IN
       /\ Cardinality(before) = offset \/ (after \cup s = {} /\ Cardinality(before) < offset)
       /\ Cardinality(s) = PageSize \/ (after = {} /\ Cardinality(s) < PageSize)
       /\ \A d \in before, e \in s \cup after : d.at <= e.at
       /\ \A d \in s, e \in after : d.at <= e.at}

\* The dates the reader asked for, and those that have a place of their own
\* among them, for no other is of their second.
Wanted == {d \in letsgos : gender[d.user] \in boxes /\ state[d.user] = state[Reader]}
Placed == {d \in Wanted : \A e \in Wanted \ {d} : e.at # d.at}

-----------------------------------------------------------------------------
Init ==
  /\ gender \in [Users -> Sexes]
  /\ boxes \in (SUBSET Sexes) \ {{}}
  /\ sexuality = SexualityOf(gender[Reader], boxes)
  /\ state \in [Users -> States]
  /\ letsgos = {} /\ last = 0
  /\ clock = 0 /\ moves = 0
  /\ screen = {} /\ page = 0
  /\ seen = {} /\ reached = 0 /\ steady = {} /\ gone = 0 /\ came = FALSE

Post(u) ==
  /\ last < MaxDates
  /\ last' = last + 1
  /\ letsgos' = letsgos \cup {[id |-> last', user |-> u, at |-> clock]}
  /\ UNCHANGED <<signup, state, clock, moves, walk, gone, came>>
  /\ steady' = steady \cap Placed'

Delete(d) ==
  /\ d \in letsgos
  /\ letsgos' = letsgos \ {d}
  /\ UNCHANGED <<signup, state, last, clock, moves, walk, came>>
  /\ steady' = steady \cap Placed'
  /\ gone' = gone + Cardinality(Wanted \cap {d})

\* UsersController#update: a new zip code, in another state.
Move(u, s) ==
  /\ moves < MaxMoves
  /\ state[u] # s
  /\ moves' = moves + 1
  /\ state' = [state EXCEPT ![u] = s]
  /\ UNCHANGED <<signup, posts, clock, walk>>
  /\ steady' = steady \cap Placed'
  /\ gone' = gone + Cardinality(Wanted \ Wanted')
  /\ came' = (came \/ Wanted' \ Wanted # {})

Tick ==
  /\ clock < MaxClock
  /\ clock' = clock + 1
  /\ UNCHANGED <<signup, state, posts, moves, walk, ghosts>>

\* index with the parameter page, which counts from 0.
Query(n) ==
  /\ screen' \in Slices(Listed, n * PageSize)
  /\ page' = n + 1
  /\ came' = FALSE
  /\ UNCHANGED <<signup, state, posts, clock, moves>>

FirstPage ==
  /\ Query(0)
  /\ seen' = screen' /\ reached' = 1 /\ steady' = Placed /\ gone' = 0

Turn ==
  /\ seen' = seen \cup screen'
  /\ reached' = IF page' > reached THEN page' ELSE reached
  /\ UNCHANGED <<steady, gone>>

\* Slip: the page shown is numbered from 1 in the form and from 0 by the query.
NextPageSkipping ==
  /\ screen # {}
  /\ Query(page + 1)
  /\ Turn

\* "Go to Next Page" asks for @page ...
NextPage ==
  /\ screen # {}
  /\ Query(page)
  /\ Turn

\* ... and "Go to Previous Page" for @page - 2.
PreviousPage ==
  /\ page > 1
  /\ Query(page - 2)
  /\ Turn

Next ==
  \/ \E u \in Users : Post(u)
  \/ \E d \in letsgos : Delete(d)
  \/ \E u \in Users, s \in States : Move(u, s)
  \/ Tick
  \/ FirstPage
  \/ NextPage
  \/ PreviousPage

Spec == Init /\ [][Next]_vars

-----------------------------------------------------------------------------
(* Properties.                                                             *)

Place(d) == Cardinality({e \in Wanted : e.at < d.at})

\* Dates the reader has turned past without seeing them.
Missed == {d \in steady : Place(d) < reached * PageSize /\ d \notin seen}

\* Of the dates that were in the list all the time a reader misses no more
\* than left it meanwhile: a deleted date, or one of a user who moved away,
\* pulls one of the dates not yet shown to a page already turned.
MissesForDepartures == Cardinality(Missed) <= gone

\* A date is on two pages in a row only when others came in before it.
NextShowsNew ==
  [][(page' = page + 1 /\ page > 0 /\ screen \cap screen' \cap steady # {})
       => came]_vars

\* Whoever is shown has a gender the reader asked for when signing up, though
\* what is kept is a word whose meaning depends on the reader's own.
ShownAsTicked == \A d \in screen : gender[d.user] \in boxes
=============================================================================
