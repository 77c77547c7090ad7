---------------------------- MODULE BillingProofs ----------------------------
(***************************************************************************)
(* Proofs about Billing for every number of users, workers, agreements and *)
(* rows.  Each action is shown to preserve BillingInv by a lemma of its    *)
(* own; the safety theorems and the action property follow from it.        *)
(***************************************************************************)
EXTENDS Billing, TLAPS

-----------------------------------------------------------------------------
(* What the helpers do to the table and to the requests.                   *)

\* A request record replaces the one of w and no other.
LEMMA RequestReplaced ==
  ASSUME TypeOK, NEW w \in Workers, NEW r \in Request,
         req' = [req EXCEPT ![w] = r]
  PROVE  /\ req' \in [Workers -> Request]
         /\ req'[w] = r
         /\ \A v \in Workers : v # w => req'[v] = req[v]
BY DEF TypeOK

\* The answer of a request is a request record without plan, row or copy.
LEMMA AnswerGiven ==
  ASSUME TypeOK, NEW w \in Workers, NEW u \in Users, NEW n \in Notices,
         NEW t \in Customers \cup Profiles \cup {None}, Answer(w, u, n, t)
  PROVE  /\ req' \in [Workers -> Request]
         /\ req'[w].at = "answer" /\ req'[w].user = u
         /\ \A v \in Workers : v # w => req'[v] = req[v]
<1>. DEFINE r == [Idle EXCEPT !.at = "answer", !.user = u, !.said = n, !.token = t]
<1>1. r \in Request
  BY DEF Idle, Request, Steps, Notices
<1>2. req' = [req EXCEPT ![w] = r]
  BY DEF Answer
<1>3. r.at = "answer" /\ r.user = u
  BY DEF Idle
<1>. QED  BY <1>1, <1>2, <1>3 DEF TypeOK

\* A request that is dropped leaves an idle worker.
LEMMA RequestDropped ==
  ASSUME TypeOK, NEW w \in Workers, Drop(w)
  PROVE  /\ req' \in [Workers -> Request]
         /\ req'[w].at = "idle"
         /\ \A v \in Workers : v # w => req'[v] = req[v]
<1>1. Idle \in Request /\ Idle.at = "idle"
  BY DEF Idle, Request, Steps, Notices
<1>. QED  BY <1>1 DEF TypeOK, Drop

\* An inserted row takes a fresh key and leaves the other rows alone.
LEMMA RowInserted ==
  ASSUME TypeOK, NEW row \in Row, NEW i \in SubIds \ Saved,
         subs' = [subs EXCEPT ![i] = row]
  PROVE  /\ subs' \in [SubIds -> Row \cup {None}]
         /\ Saved' = Saved \cup {i}
         /\ subs'[i] = row
         /\ \A j \in Saved : j # i /\ subs'[j] = subs[j]
<1>1. row # None
  BY NoneIsNoRow
<1>. QED  BY <1>1 DEF TypeOK, Saved

\* update_column and update_attributes touch one column of one row.
LEMMA CancelledSet ==
  ASSUME TypeOK, NEW i \in Saved, NEW value \in BOOLEAN, SetCancelled(i, value)
  PROVE  /\ subs' \in [SubIds -> Row \cup {None}]
         /\ Saved' = Saved
         /\ \A j \in Saved :
              /\ subs'[j].user = subs[j].user /\ subs'[j].plan = subs[j].plan
              /\ subs'[j].stripe = subs[j].stripe
              /\ subs'[j].profile = subs[j].profile
              /\ subs'[j].payer = subs[j].payer
              /\ subs'[j].cancelled = IF j = i THEN value ELSE subs[j].cancelled
         /\ \A j \in Saved : j # i => subs'[j] = subs[j]
<1>1. \A j \in Saved : j \in SubIds /\ subs[j] \in Row
  BY DEF TypeOK, Saved
<1>2. [subs[i] EXCEPT !.cancelled = value] \in Row
  BY <1>1 DEF Row
<1>3. subs' = [subs EXCEPT ![i] = [subs[i] EXCEPT !.cancelled = value]]
  BY DEF SetCancelled
<1>4. subs' \in [SubIds -> Row \cup {None}]
  BY <1>1, <1>2, <1>3 DEF TypeOK
<1>5. Saved' = Saved
  BY <1>1, <1>2, <1>3, NoneIsNoRow DEF TypeOK, Saved
<1>6. \A j \in Saved : subs'[j] = IF j = i THEN [subs[i] EXCEPT !.cancelled = value]
                                 ELSE subs[j]
  BY <1>1, <1>3 DEF TypeOK
<1>. QED  BY <1>1, <1>4, <1>5, <1>6 DEF Row

-----------------------------------------------------------------------------
(* The invariant holds initially.                                          *)

\* The empty stores satisfy the invariant.
LEMMA InitInv == Init => BillingInv
<1>. SUFFICES ASSUME Init  PROVE BillingInv
  OBVIOUS
<1>1. Saved = {}
  BY DEF Init, Saved
<1>2. TypeOK
  BY DEF Init, TypeOK, Request, Idle, Steps, Notices
<1>3. \A w \in Workers : req[w].at = "idle"
  BY DEF Init, Idle
<1>4. RequestsOK
  BY <1>3 DEF RequestsOK, RequestOK
<1>5. HeldOK
  BY <1>3 DEF HeldOK, Fresh, HeldOnce
<1>6. RowsOK /\ TokensNameOneRow /\ StripeAccessIsPaid /\ ClosedIsNotBilled
  BY <1>1 DEF RowsOK, TokensNameOneRow, StripeAccessIsPaid, ClosedIsNotBilled
<1>7. NewsOK
  BY DEF Init, NewsOK
<1>. QED  BY <1>2, <1>4, <1>5, <1>6, <1>7 DEF BillingInv

-----------------------------------------------------------------------------
(* Steps that change the memory of one request only.                       *)

\* The other requests stay as they were, and rows keep their profile.
LEMMA RequestsKept ==
  ASSUME RequestsOK, NEW w \in Workers,
         \A v \in Workers : v # w => req'[v] = req[v],
         Saved \subseteq Saved',
         \A i \in Saved : /\ subs'[i].stripe = subs[i].stripe
                          /\ subs'[i].profile = subs[i].profile,
         RequestOK(req[w])'
  PROVE  RequestsOK'
<1>. SUFFICES ASSUME NEW v \in Workers, v # w  PROVE RequestOK(req[v])'
  BY DEF RequestsOK
<1>1. RequestOK(req[v]) /\ req'[v] = req[v]
  BY DEF RequestsOK
<1>. QED  BY <1>1 DEF RequestOK

\* What a request may remember is all that such a step can get wrong.
LEMMA OnlyRequest ==
  ASSUME BillingInv, NEW w \in Workers,
         UNCHANGED <<subs, stripe, paypal, events, ipns>>,
         payments' \in [Users -> Nat],
         req' \in [Workers -> Request],
         \A v \in Workers : v # w => req'[v] = req[v],
         req'[w].at \notin {"customer", "profile"},
         RequestsOK'
  PROVE  BillingInv'
<1>1. TypeOK'
  BY DEF BillingInv, TypeOK
<1>2. HeldOK'
  <2>1. \A v \in Workers : Fresh(req[v])'
    BY DEF BillingInv, HeldOK, Fresh, Running, SubsOfCustomer, Saved
  <2>2. \A u, v \in Workers : u # v => HeldOnce(u, v)'
    BY DEF BillingInv, HeldOK, HeldOnce
  <2>. QED  BY <2>1, <2>2 DEF HeldOK
<1>3. RowsOK' /\ NewsOK'
  BY DEF BillingInv, RowsOK, NewsOK, Saved
<1>4. TokensNameOneRow' /\ StripeAccessIsPaid' /\ ClosedIsNotBilled'
  BY DEF BillingInv, TokensNameOneRow, StripeAccessIsPaid, ClosedIsNotBilled, Saved, Running
<1>. QED  BY <1>1, <1>2, <1>3, <1>4 DEF BillingInv

\* A request that ends without touching a store keeps the invariant.
LEMMA DropInv ==
  ASSUME BillingInv, NEW w \in Workers, Drop(w),
         UNCHANGED <<subs, stripe, paypal, payments, events, ipns>>
  PROVE  BillingInv'
<1>1. /\ req' \in [Workers -> Request]
      /\ req'[w].at = "idle"
      /\ \A v \in Workers : v # w => req'[v] = req[v]
  BY RequestDropped DEF BillingInv
<1>2. RequestsOK'
  <2>1. Saved' = Saved
    BY DEF Saved
  <2>. QED  BY <1>1, <2>1, RequestsKept DEF BillingInv, RequestOK
<1>3. payments' \in [Users -> Nat]
  BY DEF BillingInv, TypeOK
<1>. QED  BY <1>1, <1>2, <1>3, OnlyRequest

\* Loading a row for a change of plan: the request keeps what it read.
LEMMA LoadForUpdateInv ==
  ASSUME BillingInv, NEW w \in Workers, NEW u \in Users, LoadForUpdate(w, u)
  PROVE  BillingInv'
<1>1. PICK i \in SubsOf(u) :
        req' = [req EXCEPT ![w] = [Idle EXCEPT !.at = "update", !.user = u,
                                     !.sub = i, !.plan = subs[i].plan,
                                     !.token = subs[i].stripe]]
  BY DEF LoadForUpdate
<1>. DEFINE r == [Idle EXCEPT !.at = "update", !.user = u, !.sub = i,
                              !.plan = subs[i].plan, !.token = subs[i].stripe]
<1>2. i \in Saved /\ i \in SubIds /\ subs[i] \in Row
  BY DEF SubsOf, Saved, BillingInv, TypeOK
<1>3. /\ r \in Request /\ r.at = "update" /\ r.user = u /\ r.sub = i
      /\ r.plan = subs[i].plan /\ r.plan \in Plans /\ r.token = subs[i].stripe
  BY <1>2 DEF Idle, Request, Row, Steps, Notices
<1>4. /\ req' \in [Workers -> Request]
      /\ req'[w] = r
      /\ \A v \in Workers : v # w => req'[v] = req[v]
  BY <1>1, <1>3, RequestReplaced DEF BillingInv
<1>5. UNCHANGED <<subs, stripe, paypal, payments, events, ipns>>
  BY DEF LoadForUpdate
<1>6. RequestsOK'
  <2>1. Saved' = Saved
    BY <1>5 DEF Saved
  <2>2. RequestOK(req[w])'
    BY <1>2, <1>3, <1>4, <1>5, <2>1 DEF RequestOK
  <2>. QED  BY <1>4, <1>5, <2>1, <2>2, RequestsKept DEF BillingInv
<1>7. req'[w].at \notin {"customer", "profile"}
  BY <1>3, <1>4
<1>8. payments' \in [Users -> Nat]
  BY <1>5 DEF BillingInv, TypeOK
<1>. QED  BY <1>4, <1>5, <1>6, <1>7, <1>8, OnlyRequest

\* Loading a row for suspend or reactivate: likewise.
LEMMA LoadForPaypalInv ==
  ASSUME BillingInv, NEW w \in Workers, NEW u \in Users,
         NEW verb \in {"suspend", "reactivate"}, LoadForPaypal(w, u, verb)
  PROVE  BillingInv'
<1>1. PICK i \in SubsOf(u) :
        req' = [req EXCEPT ![w] = [Idle EXCEPT !.at = verb, !.user = u,
                                     !.sub = i, !.seen = subs[i].cancelled,
                                     !.token = subs[i].profile]]
  BY DEF LoadForPaypal
<1>. DEFINE r == [Idle EXCEPT !.at = verb, !.user = u, !.sub = i,
                    !.seen = subs[i].cancelled, !.token = subs[i].profile]
<1>2. i \in Saved /\ i \in SubIds /\ subs[i] \in Row
  BY DEF SubsOf, Saved, BillingInv, TypeOK
<1>3. /\ r \in Request /\ r.at = verb /\ r.user = u /\ r.sub = i
      /\ r.token = subs[i].profile
  BY <1>2 DEF Idle, Request, Row, Steps, Notices
<1>4. /\ req' \in [Workers -> Request]
      /\ req'[w] = r
      /\ \A v \in Workers : v # w => req'[v] = req[v]
  BY <1>1, <1>3, RequestReplaced DEF BillingInv
<1>5. UNCHANGED <<subs, stripe, paypal, payments, events, ipns>>
  BY DEF LoadForPaypal
<1>6. RequestsOK'
  <2>1. Saved' = Saved
    BY <1>5 DEF Saved
  <2>2. RequestOK(req[w])'
    BY <1>2, <1>3, <1>4, <1>5, <2>1 DEF RequestOK
  <2>. QED  BY <1>4, <1>5, <2>1, <2>2, RequestsKept DEF BillingInv
<1>7. req'[w].at \notin {"customer", "profile"}
  BY <1>3, <1>4
<1>8. payments' \in [Users -> Nat]
  BY <1>5 DEF BillingInv, TypeOK
<1>. QED  BY <1>4, <1>5, <1>6, <1>7, <1>8, OnlyRequest

\* A payment is taken before anything is signed.
LEMMA RequestPaymentInv ==
  ASSUME BillingInv, NEW w \in Workers, NEW u \in Users, NEW plan \in Plans,
         RequestPayment(w, u, plan)
  PROVE  BillingInv'
<1>. DEFINE r == [Idle EXCEPT !.at = "paid", !.user = u, !.plan = plan]
<1>1. r \in Request /\ r.at = "paid" /\ r.user = u /\ r.plan = plan
  BY DEF Idle, Request, Steps, Notices
<1>2. /\ req' \in [Workers -> Request]
      /\ req'[w] = r
      /\ \A v \in Workers : v # w => req'[v] = req[v]
  BY <1>1, RequestReplaced DEF BillingInv, RequestPayment
<1>3. UNCHANGED <<subs, stripe, paypal, events, ipns>>
  BY DEF RequestPayment
<1>4. payments' \in [Users -> Nat]
  BY DEF RequestPayment, BillingInv, TypeOK
<1>5. RequestsOK'
  <2>1. Saved' = Saved
    BY <1>3 DEF Saved
  <2>2. RequestOK(req[w])'
    BY <1>1, <1>2 DEF RequestOK
  <2>. QED  BY <1>2, <1>3, <2>1, <2>2, RequestsKept DEF BillingInv
<1>6. req'[w].at \notin {"customer", "profile"}
  BY <1>1, <1>2
<1>. QED  BY <1>2, <1>3, <1>4, <1>5, <1>6, OnlyRequest

-----------------------------------------------------------------------------
(* Steps that sign an agreement.                                           *)

\* The new customer is fresh: no row and no other request knows it.
LEMMA CreateCustomerInv ==
  ASSUME BillingInv, NEW w \in Workers, NEW u \in Users, NEW plan \in Plans,
         CreateCustomer(w, u, plan)
  PROVE  BillingInv'
<1>1. PICK c \in Customers :
        /\ stripe[c].status = "none"
        /\ stripe' = [stripe EXCEPT ![c] = [plan |-> plan, status |-> "active"]]
        /\ req' = [req EXCEPT ![w] = [Idle EXCEPT !.at = "customer", !.user = u,
                                          !.plan = plan, !.token = c]]
  BY DEF CreateCustomer
<1>. DEFINE r == [Idle EXCEPT !.at = "customer", !.user = u, !.plan = plan, !.token = c]
<1>2. r \in Request /\ r.at = "customer" /\ r.user = u /\ r.plan = plan /\ r.token = c
  BY DEF Idle, Request, Steps, Notices
<1>3. /\ req' \in [Workers -> Request]
      /\ req'[w] = r
      /\ \A v \in Workers : v # w => req'[v] = req[v]
  BY <1>1, <1>2, RequestReplaced DEF BillingInv
<1>4. UNCHANGED <<subs, paypal, payments, events, ipns>> /\ Saved' = Saved
  BY DEF CreateCustomer, Saved
<1>5. /\ stripe'[c].status = "active"
      /\ \A d \in Customers : d # c => stripe'[d] = stripe[d]
      /\ \A d \in Customers : stripe[d].status # "none" => stripe'[d] = stripe[d]
  BY <1>1 DEF BillingInv, TypeOK
<1>. HIDE DEF r
<1>6. TypeOK'
  BY <1>1, <1>3, <1>4 DEF BillingInv, TypeOK, Plans
<1>7. RequestsOK'
  <2>1. RequestOK(req[w])'
    BY <1>2, <1>3 DEF RequestOK
  <2>. QED  BY <1>3, <1>4, <2>1, RequestsKept DEF BillingInv
<1>8. \A i \in Saved : subs[i] \in Row /\ subs[i].stripe \in Customers \cup {None}
  BY DEF BillingInv, TypeOK, Row, Saved
<1>9. RowsOK'
  BY <1>4, <1>5, <1>8 DEF BillingInv, RowsOK
<1>10. HeldOK'
  <2>1. Fresh(req[w])'
    <3>1. \A i \in Saved : subs[i].stripe # c
      BY <1>1, BillingAssumption DEF BillingInv, RowsOK
    <3>. QED  BY <1>2, <1>3, <1>4, <1>5, <3>1 DEF Fresh, SubsOfCustomer, Running
  <2>2. ASSUME NEW v \in Workers, v # w, req[v].at \in {"customer", "profile"}
        PROVE  req[v].token # c
    <3>1. CASE req[v].at = "customer"
      BY <1>1, <3>1 DEF BillingInv, HeldOK, Fresh, Running
    <3>2. CASE req[v].at = "profile"
      BY <3>2, BillingAssumption DEF BillingInv, RequestsOK, RequestOK
    <3>. QED  BY <2>2, <3>1, <3>2
  <2>3. ASSUME NEW v \in Workers, v # w  PROVE Fresh(req[v])'
    <3>1. Fresh(req[v]) /\ RequestOK(req[v]) /\ req'[v] = req[v]
      BY <1>3, <2>3 DEF BillingInv, HeldOK, RequestsOK
    <3>. QED  BY <1>4, <1>5, <3>1 DEF Fresh, RequestOK, Running, SubsOfCustomer
  <2>4. ASSUME NEW v \in Workers, NEW x \in Workers, v # x
        PROVE  HeldOnce(v, x)'
    BY <1>2, <1>3, <2>2, <2>4 DEF BillingInv, HeldOK, HeldOnce
  <2>. QED  BY <2>1, <2>3, <2>4 DEF HeldOK
<1>11. NewsOK'
  BY <1>1, <1>4, <1>5 DEF BillingInv, NewsOK, TypeOK
<1>12. TokensNameOneRow'
  BY <1>4 DEF BillingInv, TokensNameOneRow
<1>13. StripeAccessIsPaid' /\ ClosedIsNotBilled'
  BY <1>4, <1>5, <1>8 DEF BillingInv, RowsOK, StripeAccessIsPaid, ClosedIsNotBilled, Running
<1>. QED  BY <1>6, <1>7, <1>9, <1>10, <1>11, <1>12, <1>13 DEF BillingInv

\* The new profile is fresh: no row and no other request knows it.
LEMMA CreateProfileInv ==
  ASSUME BillingInv, NEW w \in Workers, CreateProfile(w)
  PROVE  BillingInv'
<1>1. PICK p \in Profiles :
        /\ paypal[p].status = "none"
        /\ paypal' = [paypal EXCEPT ![p] = [payer |-> req[w].user,
                                            status |-> "active"]]
        /\ req' = [req EXCEPT ![w].at = "profile", ![w].token = p]
  BY DEF CreateProfile
<1>. DEFINE r == [req[w] EXCEPT !.at = "profile", !.token = p]
<1>2. req[w].at = "paid" /\ req[w] \in Request /\ RequestOK(req[w])
  BY DEF CreateProfile, BillingInv, TypeOK, RequestsOK
<1>3. /\ r \in Request /\ r.at = "profile" /\ r.user = req[w].user
      /\ r.plan = req[w].plan /\ r.token = p
  BY <1>2 DEF Request, Steps
<1>4. req[w].user \in Users /\ req[w].plan \in Plans
  BY <1>2 DEF RequestOK
<1>5. /\ req' \in [Workers -> Request]
      /\ req'[w] = r
      /\ \A v \in Workers : v # w => req'[v] = req[v]
  <2>1. req' = [req EXCEPT ![w] = r]
    BY <1>1
  <2>. QED  BY <1>3, <2>1, RequestReplaced DEF BillingInv
<1>6. UNCHANGED <<subs, stripe, payments, events, ipns>> /\ Saved' = Saved
  BY DEF CreateProfile, Saved
<1>7. /\ paypal'[p].status = "active" /\ paypal'[p].payer \in Users
      /\ \A q \in Profiles : q # p => paypal'[q] = paypal[q]
      /\ \A q \in Profiles : paypal[q].status # "none" => paypal'[q] = paypal[q]
  BY <1>1, <1>4 DEF BillingInv, TypeOK
<1>. HIDE DEF r
<1>8. TypeOK'
  BY <1>1, <1>4, <1>5, <1>6 DEF BillingInv, TypeOK
<1>9. RequestsOK'
  <2>1. RequestOK(req[w])'
    BY <1>3, <1>4, <1>5 DEF RequestOK
  <2>. QED  BY <1>5, <1>6, <2>1, RequestsKept DEF BillingInv
<1>10. \A i \in Saved : subs[i] \in Row /\ subs[i].profile \in Profiles \cup {None}
  BY DEF BillingInv, TypeOK, Row, Saved
<1>11. RowsOK'
  BY <1>6, <1>7, <1>10 DEF BillingInv, RowsOK
<1>12. HeldOK'
  <2>1. Fresh(req[w])'
    <3>1. \A i \in Saved : subs[i].profile # p
      BY <1>1, BillingAssumption DEF BillingInv, RowsOK
    <3>. QED  BY <1>3, <1>5, <1>6, <1>7, <3>1 DEF Fresh
  <2>2. ASSUME NEW v \in Workers, v # w, req[v].at \in {"customer", "profile"}
        PROVE  req[v].token # p
    <3>1. CASE req[v].at = "profile"
      BY <1>1, <3>1 DEF BillingInv, HeldOK, Fresh
    <3>2. CASE req[v].at = "customer"
      BY <3>2, BillingAssumption DEF BillingInv, RequestsOK, RequestOK
    <3>. QED  BY <2>2, <3>1, <3>2
  <2>3. ASSUME NEW v \in Workers, v # w  PROVE Fresh(req[v])'
    <3>1. Fresh(req[v]) /\ RequestOK(req[v]) /\ req'[v] = req[v]
      BY <1>5, <2>3 DEF BillingInv, HeldOK, RequestsOK
    <3>. QED  BY <1>6, <1>7, <3>1 DEF Fresh, RequestOK, Running, SubsOfCustomer
  <2>4. ASSUME NEW v \in Workers, NEW x \in Workers, v # x
        PROVE  HeldOnce(v, x)'
    BY <1>3, <1>5, <2>2, <2>4 DEF BillingInv, HeldOK, HeldOnce
  <2>. QED  BY <2>1, <2>3, <2>4 DEF HeldOK
<1>13. NewsOK'
  BY <1>1, <1>6, <1>7 DEF BillingInv, NewsOK, TypeOK
<1>14. TokensNameOneRow' /\ StripeAccessIsPaid' /\ ClosedIsNotBilled'
  BY <1>6 DEF BillingInv, TokensNameOneRow, StripeAccessIsPaid, ClosedIsNotBilled, Running
<1>. QED  BY <1>8, <1>9, <1>11, <1>12, <1>13, <1>14 DEF BillingInv

-----------------------------------------------------------------------------
(* Steps that save the row of an agreement.                                *)

\* The saved row is the first of its customer, which is billed.
LEMMA SaveStripeRowInv ==
  ASSUME BillingInv, NEW w \in Workers, SaveStripeRow(w)
  PROVE  BillingInv'
<1>. DEFINE c == req[w].token
            row == [user |-> req[w].user, plan |-> req[w].plan, stripe |-> c,
                    profile |-> None, payer |-> None, cancelled |-> FALSE]
<1>1. /\ req[w].at = "customer" /\ c \in Customers
      /\ req[w].user \in Users /\ req[w].plan \in Plans
      /\ Running(c) /\ SubsOfCustomer(c) = {}
  BY DEF SaveStripeRow, BillingInv, RequestsOK, RequestOK, HeldOK, Fresh
<1>2. row \in Row
  BY <1>1 DEF Row
<1>3. PICK i \in SubIds \ Saved : subs' = [subs EXCEPT ![i] = row]
  BY DEF SaveStripeRow, Insert
<1>4. /\ req' \in [Workers -> Request]
      /\ req'[w].at = "answer" /\ req'[w].user \in Users
      /\ \A v \in Workers : v # w => req'[v] = req[v]
  BY <1>1, AnswerGiven DEF SaveStripeRow, BillingInv, Notices
<1>5. UNCHANGED <<stripe, paypal, payments, events, ipns>>
  BY DEF SaveStripeRow
<1>6. /\ subs' \in [SubIds -> Row \cup {None}]
      /\ Saved' = Saved \cup {i}
      /\ \A j \in Saved : j # i /\ subs'[j] = subs[j]
      /\ subs'[i].stripe = c /\ subs'[i].profile = None /\ subs'[i].payer = None
      /\ subs'[i].cancelled = FALSE
  BY <1>2, <1>3, RowInserted DEF BillingInv
<1>7. c # None /\ c \notin Profiles /\ \A j \in Saved : subs[j].stripe # c
  BY <1>1, BillingAssumption DEF SubsOfCustomer
<1>. HIDE DEF c, row
<1>8. TypeOK'
  BY <1>4, <1>5, <1>6 DEF BillingInv, TypeOK
<1>9. RequestsOK'
  BY <1>4, <1>6, RequestsKept DEF BillingInv, RequestOK
<1>10. RowsOK'
  BY <1>1, <1>5, <1>6 DEF BillingInv, RowsOK, Running
<1>11. HeldOK'
  <2>1. Fresh(req[w])'
    BY <1>4 DEF Fresh
  <2>2. ASSUME NEW v \in Workers, v # w  PROVE Fresh(req[v])'
    <3>1. Fresh(req[v]) /\ RequestOK(req[v]) /\ req'[v] = req[v] /\ HeldOnce(v, w)
      BY <1>4, <2>2 DEF BillingInv, HeldOK, RequestsOK
    <3>2. CASE req[v].at = "customer"
      <4>1. req[v].token # c
        BY <1>1, <3>1, <3>2 DEF HeldOnce, c
      <4>. QED  BY <1>5, <1>6, <3>1, <3>2, <4>1 DEF Fresh, Running, SubsOfCustomer
    <3>3. CASE req[v].at = "profile"
      <4>1. req[v].token # None
        BY <3>1, <3>3, BillingAssumption DEF RequestOK
      <4>. QED  BY <1>5, <1>6, <3>1, <3>3, <4>1 DEF Fresh
    <3>. QED  BY <3>1, <3>2, <3>3 DEF Fresh
  <2>3. ASSUME NEW v \in Workers, NEW x \in Workers, v # x
        PROVE  HeldOnce(v, x)'
    BY <1>4, <2>3 DEF BillingInv, HeldOK, HeldOnce
  <2>. QED  BY <2>1, <2>2, <2>3 DEF HeldOK
<1>12. NewsOK'
  BY <1>5 DEF BillingInv, NewsOK
<1>13. TokensNameOneRow'
  BY <1>6, <1>7 DEF BillingInv, TokensNameOneRow
<1>14. StripeAccessIsPaid' /\ ClosedIsNotBilled'
  BY <1>1, <1>5, <1>6 DEF BillingInv, StripeAccessIsPaid, ClosedIsNotBilled, Running
<1>. QED  BY <1>8, <1>9, <1>10, <1>11, <1>12, <1>13, <1>14 DEF BillingInv

\* The saved row is the first of its profile.
LEMMA SavePaypalRowInv ==
  ASSUME BillingInv, NEW w \in Workers, SavePaypalRow(w)
  PROVE  BillingInv'
<1>. DEFINE p == req[w].token
            row == [user |-> req[w].user, plan |-> req[w].plan, stripe |-> None,
                    profile |-> p, payer |-> req[w].user, cancelled |-> FALSE]
<1>1. /\ req[w].at = "profile" /\ p \in Profiles
      /\ req[w].user \in Users /\ req[w].plan \in Plans
      /\ paypal[p].status # "none" /\ \A j \in Saved : subs[j].profile # p
  BY DEF SavePaypalRow, BillingInv, RequestsOK, RequestOK, HeldOK, Fresh
<1>2. row \in Row
  BY <1>1 DEF Row
<1>3. PICK i \in SubIds \ Saved : subs' = [subs EXCEPT ![i] = row]
  BY DEF SavePaypalRow, Insert
<1>4. /\ req' \in [Workers -> Request]
      /\ req'[w].at = "answer" /\ req'[w].user \in Users
      /\ \A v \in Workers : v # w => req'[v] = req[v]
  BY <1>1, AnswerGiven DEF SavePaypalRow, BillingInv, Notices
<1>5. UNCHANGED <<stripe, paypal, payments, events, ipns>>
  BY DEF SavePaypalRow
<1>6. /\ subs' \in [SubIds -> Row \cup {None}]
      /\ Saved' = Saved \cup {i}
      /\ \A j \in Saved : j # i /\ subs'[j] = subs[j]
      /\ subs'[i].stripe = None /\ subs'[i].profile = p
      /\ subs'[i].payer = req[w].user
  BY <1>2, <1>3, RowInserted DEF BillingInv
<1>7. p # None /\ p \notin Customers /\ req[w].user # None
  BY <1>1, BillingAssumption
<1>. HIDE DEF p, row
<1>8. TypeOK'
  BY <1>4, <1>5, <1>6 DEF BillingInv, TypeOK
<1>9. RequestsOK'
  BY <1>4, <1>6, RequestsKept DEF BillingInv, RequestOK
<1>10. RowsOK'
  BY <1>1, <1>5, <1>6, <1>7 DEF BillingInv, RowsOK
<1>11. HeldOK'
  <2>1. Fresh(req[w])'
    BY <1>4 DEF Fresh
  <2>2. ASSUME NEW v \in Workers, v # w  PROVE Fresh(req[v])'
    <3>1. Fresh(req[v]) /\ RequestOK(req[v]) /\ req'[v] = req[v] /\ HeldOnce(v, w)
      BY <1>4, <2>2 DEF BillingInv, HeldOK, RequestsOK
    <3>2. CASE req[v].at = "profile"
      <4>1. req[v].token # p
        BY <1>1, <3>1, <3>2 DEF HeldOnce, p
      <4>. QED  BY <1>5, <1>6, <3>1, <3>2, <4>1 DEF Fresh
    <3>3. CASE req[v].at = "customer"
      <4>1. req[v].token # None
        BY <3>1, <3>3, BillingAssumption DEF RequestOK
      <4>. QED  BY <1>5, <1>6, <3>1, <3>3, <4>1 DEF Fresh, Running, SubsOfCustomer
    <3>. QED  BY <3>1, <3>2, <3>3 DEF Fresh
  <2>3. ASSUME NEW v \in Workers, NEW x \in Workers, v # x
        PROVE  HeldOnce(v, x)'
    BY <1>4, <2>3 DEF BillingInv, HeldOK, HeldOnce
  <2>. QED  BY <2>1, <2>2, <2>3 DEF HeldOK
<1>12. NewsOK'
  BY <1>5 DEF BillingInv, NewsOK
<1>13. TokensNameOneRow'
  BY <1>1, <1>6, <1>7 DEF BillingInv, TokensNameOneRow
<1>14. StripeAccessIsPaid' /\ ClosedIsNotBilled'
  BY <1>5, <1>6 DEF BillingInv, StripeAccessIsPaid, ClosedIsNotBilled, Running
<1>. QED  BY <1>8, <1>9, <1>10, <1>11, <1>12, <1>13, <1>14 DEF BillingInv

-----------------------------------------------------------------------------
(* Steps that neither sign an agreement nor save its row.                  *)

\* Rows keep their agreements, signed agreements stay signed, a card whose row
\* is still to be saved stays billed, and no request starts to hold one.
LEMMA NothingSigned ==
  ASSUME BillingInv,
         Saved' = Saved,
         \A i \in Saved : /\ subs'[i].stripe = subs[i].stripe
                          /\ subs'[i].profile = subs[i].profile
                          /\ subs'[i].payer = subs[i].payer,
         \A c \in Customers : stripe[c].status # "none" => stripe'[c].status # "none",
         \A c \in Customers, v \in Workers :
           Holds(v, c) /\ Running(c) => Running(c)',
         \A p \in Profiles : paypal[p].status # "none" => paypal'[p].status # "none",
         \A v \in Workers : \/ req'[v] = req[v]
                            \/ req'[v].at \notin {"customer", "profile"},
         TypeOK', RequestsOK', NewsOK', StripeAccessIsPaid', ClosedIsNotBilled'
  PROVE  BillingInv'
<1>1. \A i \in Saved : subs[i] \in Row
  BY DEF BillingInv, TypeOK, Saved
<1>2. RowsOK'
  BY <1>1 DEF BillingInv, RowsOK, Row
<1>3. TokensNameOneRow'
  BY DEF BillingInv, TokensNameOneRow
<1>4. HeldOK'
  <2>1. ASSUME NEW v \in Workers  PROVE Fresh(req[v])'
    <3>1. CASE req'[v] = req[v]
      <4>1. Fresh(req[v]) /\ RequestOK(req[v])
        BY DEF BillingInv, HeldOK, RequestsOK
      <4>2. CASE req[v].at = "customer"
        <5>1. req[v].token \in Customers /\ Running(req[v].token) /\ Holds(v, req[v].token)
          BY <4>1, <4>2 DEF Fresh, RequestOK, Holds
        <5>2. Running(req[v].token)'
          BY <3>1, <5>1 DEF Running
        <5>3. SubsOfCustomer(req[v].token)' = {}
          BY <3>1, <4>1, <4>2 DEF Fresh, SubsOfCustomer
        <5>. QED  BY <3>1, <4>2, <5>2, <5>3 DEF Fresh
      <4>3. CASE req[v].at = "profile"
        BY <3>1, <4>1, <4>3 DEF Fresh, RequestOK
      <4>. QED  BY <3>1, <4>2, <4>3 DEF Fresh
    <3>2. CASE req'[v].at \notin {"customer", "profile"}
      BY <3>2 DEF Fresh
    <3>. QED  BY <3>1, <3>2
  <2>2. ASSUME NEW v \in Workers, NEW x \in Workers, v # x
        PROVE  HeldOnce(v, x)'
    BY <2>2 DEF BillingInv, HeldOK, HeldOnce
  <2>. QED  BY <2>1, <2>2 DEF HeldOK
<1>. QED  BY <1>2, <1>3, <1>4 DEF BillingInv

\* A change of plan at Stripe keeps a billed customer billed.
LEMMA MovePlanInv ==
  ASSUME BillingInv, NEW w \in Workers, MovePlan(w)
  PROVE  BillingInv'
<1>. DEFINE c == req[w].token
            r == [req[w] EXCEPT !.at = "moved"]
<1>1. /\ req[w].at = "update" /\ c \in Customers /\ req[w] \in Request
      /\ req[w].plan \in Plans /\ RequestOK(req[w])
  BY DEF MovePlan, BillingInv, TypeOK, RequestsOK, RequestOK
<1>2. PICK status \in AfterPlanChange(stripe[c].status) :
        stripe' = [stripe EXCEPT ![c] = [plan |-> OtherPlan(req[w].plan),
                                         status |-> status]]
  BY DEF MovePlan
<1>3. /\ stripe[c].status # "none" => status # "none"
      /\ Running(c) => status \in {"active", "canceling"}
      /\ stripe[c].status = "ended" => StripeResubscribes
      /\ status \in {"none", "active", "canceling", "ended"}
  BY <1>1, <1>2 DEF AfterPlanChange, Running, BillingInv, TypeOK
<1>4. /\ stripe' \in [Customers -> [plan: Plans \cup {None},
                         status: {"none", "active", "canceling", "ended"}]]
      /\ stripe'[c].status = status
      /\ \A d \in Customers : d # c => stripe'[d] = stripe[d]
  <2>1. OtherPlan(req[w].plan) \in Plans
    BY DEF OtherPlan, Plans
  <2>. QED  BY <1>1, <1>2, <1>3, <2>1 DEF BillingInv, TypeOK
<1>5. r \in Request /\ RequestOK(r) /\ r.at = "moved"
  BY <1>1 DEF Request, RequestOK, Steps
<1>6. /\ req' \in [Workers -> Request] /\ req'[w] = r
      /\ \A v \in Workers : v # w => req'[v] = req[v]
  BY <1>5, RequestReplaced DEF MovePlan, BillingInv
<1>7. UNCHANGED <<subs, paypal, payments, events, ipns>> /\ Saved' = Saved
  BY DEF MovePlan, Saved
<1>. HIDE DEF c, r
<1>8. TypeOK'
  BY <1>4, <1>6, <1>7 DEF BillingInv, TypeOK
<1>9. RequestsOK'
  <2>1. RequestOK(req[w])'
    BY <1>5, <1>6, <1>7 DEF RequestOK
  <2>. QED  BY <1>6, <1>7, <2>1, RequestsKept DEF BillingInv
<1>10. NewsOK'
  BY <1>1, <1>3, <1>4, <1>7 DEF BillingInv, NewsOK, TypeOK
<1>11. \A i \in Saved : subs[i].stripe \in Customers \cup {None}
  BY DEF BillingInv, TypeOK, Row, Saved
<1>12. StripeAccessIsPaid'
  BY <1>1, <1>3, <1>4, <1>7, <1>11 DEF BillingInv, StripeAccessIsPaid, Running
<1>13. ClosedIsNotBilled'
  BY <1>1, <1>3, <1>4, <1>7, <1>11 DEF BillingInv, ClosedIsNotBilled
<1>14. \A d \in Customers : stripe[d].status # "none" => stripe'[d].status # "none"
  BY <1>1, <1>3, <1>4
<1>15. \A d \in Customers, v \in Workers : Holds(v, d) /\ Running(d) => Running(d)'
  BY <1>1, <1>3, <1>4 DEF Running
<1>16. \A v \in Workers : \/ req'[v] = req[v]
                          \/ req'[v].at \notin {"customer", "profile"}
  BY <1>5, <1>6
<1>. QED  BY <1>7, <1>8, <1>9, <1>10, <1>12, <1>13, <1>14, <1>15, <1>16, NothingSigned

\* A cancelled subscription is billed to the end of its period.
LEMMA CancelSubscriptionInv ==
  ASSUME BillingInv, NEW w \in Workers, NEW u \in Users, CancelSubscription(w, u)
  PROVE  BillingInv'
<1>1. PICK i \in SubsOf(u) :
        /\ subs[i].stripe \in Customers
        /\ Running(subs[i].stripe)
        /\ stripe' = [stripe EXCEPT ![subs[i].stripe].status = "canceling"]
        /\ Answer(w, u, "cancelled", subs[i].stripe)
  BY DEF CancelSubscription
<1>. DEFINE c == subs[i].stripe
<1>2. /\ stripe' \in [Customers -> [plan: Plans \cup {None},
                         status: {"none", "active", "canceling", "ended"}]]
      /\ stripe'[c].status = "canceling"
      /\ \A d \in Customers : d # c => stripe'[d] = stripe[d]
  BY <1>1 DEF BillingInv, TypeOK
<1>3. /\ req' \in [Workers -> Request] /\ req'[w].at = "answer"
      /\ req'[w].user \in Users
      /\ \A v \in Workers : v # w => req'[v] = req[v]
  BY <1>1, AnswerGiven DEF BillingInv, Notices
<1>4. UNCHANGED <<subs, paypal, payments, events, ipns>> /\ Saved' = Saved
  BY DEF CancelSubscription, Saved
<1>5. c \in Customers /\ stripe[c].status \in {"active", "canceling"}
  BY <1>1 DEF Running
<1>. HIDE DEF c
<1>6. TypeOK'
  BY <1>2, <1>3, <1>4 DEF BillingInv, TypeOK
<1>7. RequestsOK'
  BY <1>3, <1>4, RequestsKept DEF BillingInv, RequestOK
<1>8. NewsOK'
  BY <1>2, <1>4, <1>5 DEF BillingInv, NewsOK, TypeOK
<1>9. \A j \in Saved : subs[j].stripe \in Customers \cup {None}
  BY DEF BillingInv, TypeOK, Row, Saved
<1>10. StripeAccessIsPaid'
  BY <1>2, <1>4, <1>5, <1>9 DEF BillingInv, StripeAccessIsPaid, Running
<1>11. ClosedIsNotBilled'
  BY <1>2, <1>4, <1>5, <1>9 DEF BillingInv, ClosedIsNotBilled
<1>12. \A d \in Customers : stripe[d].status # "none" => stripe'[d].status # "none"
  BY <1>2, <1>5
<1>13. \A d \in Customers, v \in Workers : Holds(v, d) /\ Running(d) => Running(d)'
  BY <1>2, <1>5 DEF Running
<1>14. \A v \in Workers : \/ req'[v] = req[v]
                          \/ req'[v].at \notin {"customer", "profile"}
  BY <1>3
<1>. QED  BY <1>4, <1>6, <1>7, <1>8, <1>10, <1>11, <1>12, <1>13, <1>14, NothingSigned

\* Stripe never ends a subscription whose row is still to be saved.
LEMMA StripeEndsInv ==
  ASSUME BillingInv, NEW c \in Customers, StripeEnds(c)
  PROVE  BillingInv'
<1>1. /\ stripe' \in [Customers -> [plan: Plans \cup {None},
                         status: {"none", "active", "canceling", "ended"}]]
      /\ stripe'[c].status = "ended"
      /\ \A d \in Customers : d # c => stripe'[d] = stripe[d]
  BY DEF StripeEnds, BillingInv, TypeOK
<1>2. /\ UNCHANGED <<subs, paypal, payments, ipns, req>> /\ Saved' = Saved
      /\ events' = events \cup {c} /\ \A w \in Workers : ~Holds(w, c)
      /\ Running(c)
  BY DEF StripeEnds, Saved
<1>3. TypeOK'
  BY <1>1, <1>2 DEF BillingInv, TypeOK
<1>4. RequestsOK'
  BY <1>2 DEF BillingInv, RequestsOK, RequestOK
<1>5. NewsOK'
  BY <1>1, <1>2 DEF BillingInv, NewsOK, TypeOK
<1>6. \A j \in Saved : subs[j].stripe \in Customers \cup {None}
  BY DEF BillingInv, TypeOK, Row, Saved
<1>7. StripeAccessIsPaid'
  BY <1>1, <1>2, <1>6 DEF BillingInv, StripeAccessIsPaid, Running
<1>8. ClosedIsNotBilled'
  BY <1>1, <1>2, <1>6 DEF BillingInv, ClosedIsNotBilled
<1>9. \A d \in Customers : stripe[d].status # "none" => stripe'[d].status # "none"
  BY <1>1
<1>10. \A d \in Customers, v \in Workers : Holds(v, d) /\ Running(d) => Running(d)'
  BY <1>1, <1>2 DEF Running
<1>. QED  BY <1>2, <1>3, <1>4, <1>5, <1>7, <1>8, <1>9, <1>10, NothingSigned

\* PayPal changes the status of one signed profile, at a request's wish or not.
LEMMA ProfileMoved ==
  ASSUME BillingInv, NEW p \in Profiles, paypal[p].status # "none",
         NEW status \in {"active", "suspended", "cancelled"},
         paypal' = [paypal EXCEPT ![p].status = status],
         UNCHANGED <<subs, stripe, payments, events>>,
         ipns' \subseteq ipns \cup {p},
         req' \in [Workers -> Request], RequestsOK',
         \A v \in Workers : \/ req'[v] = req[v]
                            \/ req'[v].at \notin {"customer", "profile"}
  PROVE  BillingInv'
<1>1. /\ paypal' \in [Profiles -> [payer: Users \cup {None},
                         status: {"none", "active", "suspended", "cancelled"}]]
      /\ \A q \in Profiles : paypal'[q].payer = paypal[q].payer
      /\ \A q \in Profiles : paypal'[q].status = IF q = p THEN status ELSE paypal[q].status
  BY DEF BillingInv, TypeOK
<1>2. TypeOK'
  BY <1>1 DEF BillingInv, TypeOK
<1>3. NewsOK'
  BY <1>1 DEF BillingInv, NewsOK, TypeOK
<1>4. Saved' = Saved
  BY DEF Saved
<1>5. StripeAccessIsPaid' /\ ClosedIsNotBilled'
  BY <1>4 DEF BillingInv, StripeAccessIsPaid, ClosedIsNotBilled, Running
<1>6. \A q \in Profiles : paypal[q].status # "none" => paypal'[q].status # "none"
  BY <1>1
<1>7. \A d \in Customers, v \in Workers : Holds(v, d) /\ Running(d) => Running(d)'
  BY DEF Running
<1>. QED  BY <1>2, <1>3, <1>4, <1>5, <1>6, <1>7, NothingSigned

\* A request that goes on to its next step keeps the rest of its memory.
LEMMA RequestMoved ==
  ASSUME BillingInv, NEW w \in Workers,
         \/ req[w].at = "suspend" /\ req' = [req EXCEPT ![w].at = "suspended"]
         \/ req[w].at = "reactivate" /\ req' = [req EXCEPT ![w].at = "reactivated"],
         req[w].token \in Profiles, UNCHANGED subs
  PROVE  /\ req' \in [Workers -> Request]
         /\ RequestsOK'
         /\ \A v \in Workers : \/ req'[v] = req[v]
                               \/ req'[v].at \notin {"customer", "profile"}
<1>1. PICK step \in {"suspended", "reactivated"} :
        req' = [req EXCEPT ![w] = [req[w] EXCEPT !.at = step]]
  OBVIOUS
<1>. DEFINE r == [req[w] EXCEPT !.at = step]
<1>2. req[w] \in Request /\ RequestOK(req[w])
  BY DEF BillingInv, TypeOK, RequestsOK
<1>3. r \in Request /\ RequestOK(r) /\ r.at \notin {"customer", "profile"}
  BY <1>2 DEF Request, RequestOK, Steps
<1>4. /\ req' \in [Workers -> Request] /\ req'[w] = r
      /\ \A v \in Workers : v # w => req'[v] = req[v]
  BY <1>1, <1>3, RequestReplaced DEF BillingInv
<1>. HIDE DEF r
<1>5. RequestsOK'
  <2>1. Saved' = Saved
    BY DEF Saved
  <2>2. RequestOK(req[w])'
    BY <1>3, <1>4, <2>1 DEF RequestOK
  <2>. QED  BY <1>4, <2>1, <2>2, RequestsKept DEF BillingInv
<1>. QED  BY <1>3, <1>4, <1>5

\* suspend at PayPal.
LEMMA SuspendProfileInv ==
  ASSUME BillingInv, NEW w \in Workers, SuspendProfile(w)
  PROVE  BillingInv'
<1>1. /\ req[w].token \in Profiles /\ paypal[req[w].token].status = "active"
      /\ paypal' = [paypal EXCEPT ![req[w].token].status = "suspended"]
      /\ UNCHANGED <<subs, stripe, payments, events>>
      /\ ipns' \subseteq ipns \cup {req[w].token}
  BY DEF SuspendProfile, InStatus
<1>2. /\ req' \in [Workers -> Request] /\ RequestsOK'
      /\ \A v \in Workers : \/ req'[v] = req[v]
                            \/ req'[v].at \notin {"customer", "profile"}
  BY <1>1, RequestMoved DEF SuspendProfile
<1>. QED  BY <1>1, <1>2, ProfileMoved

\* reactivate at PayPal.
LEMMA ReactivateProfileInv ==
  ASSUME BillingInv, NEW w \in Workers, ReactivateProfile(w)
  PROVE  BillingInv'
<1>1. /\ req[w].token \in Profiles /\ paypal[req[w].token].status = "suspended"
      /\ paypal' = [paypal EXCEPT ![req[w].token].status = "active"]
      /\ UNCHANGED <<subs, stripe, payments, events>>
      /\ ipns' \subseteq ipns \cup {req[w].token}
  BY DEF ReactivateProfile, InStatus
<1>2. /\ req' \in [Workers -> Request] /\ RequestsOK'
      /\ \A v \in Workers : \/ req'[v] = req[v]
                            \/ req'[v].at \notin {"customer", "profile"}
  BY <1>1, RequestMoved DEF ReactivateProfile
<1>. QED  BY <1>1, <1>2, ProfileMoved

\* The payer ends the profile at PayPal.
LEMMA PayerCancelsInv ==
  ASSUME BillingInv, NEW p \in Profiles, PayerCancels(p)
  PROVE  BillingInv'
<1>1. /\ paypal[p].status # "none"
      /\ paypal' = [paypal EXCEPT ![p].status = "cancelled"]
      /\ UNCHANGED <<subs, stripe, payments, events, req>>
      /\ ipns' \subseteq ipns \cup {p}
  BY DEF PayerCancels
<1>2. req' \in [Workers -> Request] /\ RequestsOK'
  BY <1>1 DEF BillingInv, TypeOK, RequestsOK, RequestOK, Saved
<1>3. \A v \in Workers : \/ req'[v] = req[v]
                         \/ req'[v].at \notin {"customer", "profile"}
  BY <1>1
<1>. QED  BY <1>1, <1>2, <1>3, ProfileMoved

-----------------------------------------------------------------------------
(* Steps that change a row.                                                *)

\* One row changes its plan or is opened or closed, and news is taken in.
LEMMA RowChanged ==
  ASSUME BillingInv,
         subs' \in [SubIds -> Row \cup {None}], Saved' = Saved,
         \A i \in Saved : /\ subs'[i].stripe = subs[i].stripe
                          /\ subs'[i].profile = subs[i].profile
                          /\ subs'[i].payer = subs[i].payer,
         UNCHANGED <<stripe, paypal, payments>>,
         events' \subseteq events, ipns' \subseteq ipns,
         req' \in [Workers -> Request], RequestsOK',
         \A v \in Workers : \/ req'[v] = req[v]
                            \/ req'[v].at \notin {"customer", "profile"},
         StripeAccessIsPaid', ClosedIsNotBilled'
  PROVE  BillingInv'
<1>1. TypeOK' /\ NewsOK'
  BY DEF BillingInv, TypeOK, NewsOK
<1>2. \A d \in Customers : stripe[d].status # "none" => stripe'[d].status # "none"
  OBVIOUS
<1>3. \A d \in Customers, v \in Workers : Holds(v, d) /\ Running(d) => Running(d)'
  BY DEF Running
<1>4. \A p \in Profiles : paypal[p].status # "none" => paypal'[p].status # "none"
  OBVIOUS
<1>. QED  BY <1>1, <1>2, <1>3, <1>4, NothingSigned

\* The row takes the plan that was moved to.
LEMMA SavePlanInv ==
  ASSUME BillingInv, NEW w \in Workers, SavePlan(w)
  PROVE  BillingInv'
<1>. DEFINE i == req[w].sub
            row == [subs[i] EXCEPT !.plan = OtherPlan(req[w].plan)]
            notice == IF OtherPlan(req[w].plan) = Annual THEN "annually" ELSE "monthly"
<1>1. /\ req[w].at = "moved" /\ i \in Saved /\ req[w].user \in Users
      /\ req[w].token \in Customers
  BY DEF SavePlan, BillingInv, RequestsOK, RequestOK
<1>2. \A j \in Saved : j \in SubIds /\ subs[j] \in Row
  BY DEF BillingInv, TypeOK, Saved
<1>3. /\ row \in Row /\ row.stripe = subs[i].stripe /\ row.profile = subs[i].profile
      /\ row.payer = subs[i].payer /\ row.cancelled = subs[i].cancelled
  BY <1>1, <1>2 DEF Row, OtherPlan, Plans
<1>4. subs' = [subs EXCEPT ![i] = row]
  BY DEF SavePlan
<1>5. /\ subs' \in [SubIds -> Row \cup {None}] /\ Saved' = Saved
      /\ \A j \in Saved : subs'[j] = IF j = i THEN row ELSE subs[j]
  BY <1>1, <1>2, <1>3, <1>4, NoneIsNoRow DEF BillingInv, TypeOK, Saved
<1>6. /\ req' \in [Workers -> Request] /\ req'[w].at = "answer"
      /\ req'[w].user \in Users
      /\ \A v \in Workers : v # w => req'[v] = req[v]
  <2>1. notice \in Notices
    BY DEF Notices
  <2>2. Answer(w, req[w].user, notice, req[w].token)
    BY DEF SavePlan
  <2>. QED  BY <1>1, <2>1, <2>2, AnswerGiven DEF BillingInv
<1>7. UNCHANGED <<stripe, paypal, payments, events, ipns>>
  BY DEF SavePlan
<1>. HIDE DEF i, row, notice
<1>8. \A j \in Saved : /\ subs'[j].stripe = subs[j].stripe
                       /\ subs'[j].profile = subs[j].profile
                       /\ subs'[j].payer = subs[j].payer
                       /\ subs'[j].cancelled = subs[j].cancelled
  BY <1>3, <1>5
<1>9. RequestsOK'
  BY <1>5, <1>6, <1>8, RequestsKept DEF BillingInv, RequestOK
<1>10. StripeAccessIsPaid' /\ ClosedIsNotBilled'
  BY <1>5, <1>7, <1>8 DEF BillingInv, StripeAccessIsPaid, ClosedIsNotBilled, Running
<1>11. \A v \in Workers : \/ req'[v] = req[v]
                          \/ req'[v].at \notin {"customer", "profile"}
  BY <1>6
<1>. QED  BY <1>5, <1>6, <1>7, <1>8, <1>9, <1>10, <1>11, RowChanged

\* suspend and reactivate reach the row of a PayPal subscription only.
LEMMA PaypalRowChanged ==
  ASSUME BillingInv, NEW w \in Workers,
         req[w].at \in {"suspended", "reactivated"}
  PROVE  /\ req[w].sub \in Saved /\ req[w].user \in Users
         /\ req[w].token \in Profiles
         /\ subs[req[w].sub].profile = req[w].token
         /\ subs[req[w].sub].stripe = None
<1>1. /\ req[w].sub \in Saved /\ req[w].user \in Users
      /\ req[w].token \in Profiles
      /\ subs[req[w].sub].profile = req[w].token
  BY DEF BillingInv, RequestsOK, RequestOK
<1>2. req[w].token # None
  BY <1>1, BillingAssumption
<1>. QED  BY <1>1, <1>2 DEF BillingInv, TokensNameOneRow

\* Setting cancelled in the row of a PayPal subscription, whatever the value,
\* disturbs no card subscription.
LEMMA PaypalRowSet ==
  ASSUME BillingInv, NEW i \in Saved, subs[i].stripe = None,
         NEW value \in BOOLEAN, SetCancelled(i, value),
         UNCHANGED <<stripe, paypal, payments, events>>, ipns' \subseteq ipns,
         req' \in [Workers -> Request],
         NEW w \in Workers, RequestOK(req[w])',
         req'[w].at \notin {"customer", "profile"} \/ req'[w] = req[w],
         \A v \in Workers : v # w => req'[v] = req[v]
  PROVE  BillingInv'
<1>1. /\ subs' \in [SubIds -> Row \cup {None}] /\ Saved' = Saved
      /\ \A j \in Saved : /\ subs'[j].stripe = subs[j].stripe
                          /\ subs'[j].profile = subs[j].profile
                          /\ subs'[j].payer = subs[j].payer
                          /\ subs'[j].cancelled = IF j = i THEN value ELSE subs[j].cancelled
  BY CancelledSet DEF BillingInv
<1>2. RequestsOK'
  BY <1>1, RequestsKept DEF BillingInv
<1>3. StripeAccessIsPaid' /\ ClosedIsNotBilled'
  BY <1>1 DEF BillingInv, StripeAccessIsPaid, ClosedIsNotBilled, Running
<1>4. \A v \in Workers : \/ req'[v] = req[v]
                         \/ req'[v].at \notin {"customer", "profile"}
  OBVIOUS
<1>5. \A j \in Saved : /\ subs'[j].stripe = subs[j].stripe
                       /\ subs'[j].profile = subs[j].profile
                       /\ subs'[j].payer = subs[j].payer
  BY <1>1
<1>6. events' \subseteq events
  OBVIOUS
<1>. QED  BY <1>1, <1>2, <1>3, <1>4, <1>5, <1>6, RowChanged

\* suspend closes a PayPal row or writes nothing.
LEMMA SaveSuspendedInv ==
  ASSUME BillingInv, NEW w \in Workers, SaveSuspended(w)
  PROVE  BillingInv'
<1>1. /\ req[w].sub \in Saved /\ req[w].user \in Users
      /\ req[w].token \in Profiles /\ subs[req[w].sub].stripe = None
  BY PaypalRowChanged DEF SaveSuspended
<1>2. /\ req' \in [Workers -> Request] /\ req'[w].at = "answer"
      /\ req'[w].user \in Users
      /\ \A v \in Workers : v # w => req'[v] = req[v]
  BY <1>1, AnswerGiven DEF SaveSuspended, BillingInv, Notices
<1>3. UNCHANGED <<stripe, paypal, payments, events, ipns>>
  BY DEF SaveSuspended
<1>4. RequestOK(req[w])'
  BY <1>2 DEF RequestOK
<1>5. CASE req[w].seen
  <2>1. UNCHANGED subs
    BY <1>5 DEF SaveSuspended
  <2>2. RequestsOK'
    BY <1>2, <1>4, <2>1, RequestsKept DEF BillingInv, Saved
  <2>3. payments' \in [Users -> Nat]
    BY <1>3 DEF BillingInv, TypeOK
  <2>. QED  BY <1>2, <1>3, <2>1, <2>2, <2>3, OnlyRequest
<1>6. CASE ~req[w].seen
  <2>1. SetCancelled(req[w].sub, TRUE)
    BY <1>6 DEF SaveSuspended
  <2>. QED  BY <1>1, <1>2, <1>3, <1>4, <2>1, PaypalRowSet
<1>. QED  BY <1>5, <1>6

\* reactivate opens a PayPal row or writes nothing.
LEMMA SaveReactivatedInv ==
  ASSUME BillingInv, NEW w \in Workers, SaveReactivated(w)
  PROVE  BillingInv'
<1>1. /\ req[w].sub \in Saved /\ req[w].user \in Users
      /\ req[w].token \in Profiles /\ subs[req[w].sub].stripe = None
  BY PaypalRowChanged DEF SaveReactivated
<1>2. /\ req' \in [Workers -> Request] /\ req'[w].at = "answer"
      /\ req'[w].user \in Users
      /\ \A v \in Workers : v # w => req'[v] = req[v]
  BY <1>1, AnswerGiven DEF SaveReactivated, BillingInv, Notices
<1>3. UNCHANGED <<stripe, paypal, payments, events, ipns>>
  BY DEF SaveReactivated
<1>4. RequestOK(req[w])'
  BY <1>2 DEF RequestOK
<1>5. CASE ~req[w].seen
  <2>1. UNCHANGED subs
    BY <1>5 DEF SaveReactivated
  <2>2. RequestsOK'
    BY <1>2, <1>4, <2>1, RequestsKept DEF BillingInv, Saved
  <2>3. payments' \in [Users -> Nat]
    BY <1>3 DEF BillingInv, TypeOK
  <2>. QED  BY <1>2, <1>3, <2>1, <2>2, <2>3, OnlyRequest
<1>6. CASE req[w].seen
  <2>1. SetCancelled(req[w].sub, FALSE)
    BY <1>6 DEF SaveReactivated
  <2>. QED  BY <1>1, <1>2, <1>3, <1>4, <2>1, PaypalRowSet
<1>. QED  BY <1>5, <1>6

-----------------------------------------------------------------------------
(* News from the providers.                                                *)

\* The row of the customer is the only one that can be open on its account, so
\* the event may be forgotten once that row is closed.
LEMMA StripeWebhookInv ==
  ASSUME BillingInv, NEW c \in Customers, StripeWebhook(c)
  PROVE  BillingInv'
<1>1. /\ c \in events /\ events' \subseteq events /\ events \ {c} \subseteq events'
      /\ UNCHANGED <<stripe, paypal, payments, ipns, req>>
  BY DEF StripeWebhook
<1>2. ~StripeResubscribes => stripe[c].status = "ended"
  BY <1>1 DEF BillingInv, NewsOK
<1>3. c # None
  BY BillingAssumption
<1>4. req' \in [Workers -> Request] /\ \A v \in Workers : req'[v] = req[v]
  BY <1>1 DEF BillingInv, TypeOK
<1>5. \A i \in Saved : subs[i] \in Row /\ subs[i].cancelled \in BOOLEAN
  BY DEF BillingInv, TypeOK, Saved, Row
<1>6. CASE \E i \in SubsOfCustomer(c) : SetCancelled(i, TRUE)
  <2>1. PICK i \in Saved : subs[i].stripe = c /\ SetCancelled(i, TRUE)
    BY <1>6 DEF SubsOfCustomer
  <2>2. /\ subs' \in [SubIds -> Row \cup {None}] /\ Saved' = Saved
        /\ \A j \in Saved : /\ subs'[j].stripe = subs[j].stripe
                            /\ subs'[j].profile = subs[j].profile
                            /\ subs'[j].payer = subs[j].payer
                            /\ j # i => subs'[j] = subs[j]
        /\ subs'[i].cancelled = TRUE
    BY <2>1, CancelledSet DEF BillingInv
  <2>3. \A j \in Saved : j # i => subs[j].stripe # c
    BY <1>3, <2>1 DEF BillingInv, TokensNameOneRow
  <2>4. StripeAccessIsPaid'
    BY <1>1, <2>2, <2>3 DEF BillingInv, StripeAccessIsPaid, Running
  <2>5. ClosedIsNotBilled'
    <3>. SUFFICES ASSUME ~StripeResubscribes, NEW j \in Saved, subs[j].stripe # None,
                         subs'[j].cancelled
                  PROVE  stripe[subs[j].stripe].status = "ended"
      BY <1>1, <2>2 DEF ClosedIsNotBilled
    <3>1. CASE j = i
      BY <1>2, <2>1, <3>1
    <3>2. CASE j # i
      BY <2>2, <3>2 DEF BillingInv, ClosedIsNotBilled
    <3>. QED  BY <3>1, <3>2
  <2>6. RequestsOK'
    BY <1>4, <2>2 DEF BillingInv, RequestsOK, RequestOK
  <2>7. \A j \in Saved : /\ subs'[j].stripe = subs[j].stripe
                         /\ subs'[j].profile = subs[j].profile
                         /\ subs'[j].payer = subs[j].payer
    BY <2>2
  <2>. QED  BY <1>1, <1>4, <2>2, <2>4, <2>5, <2>6, <2>7, RowChanged
<1>7. CASE SubsOfCustomer(c) = {} /\ UNCHANGED subs
  <2>1. Saved' = Saved /\ \A j \in Saved : subs[j].stripe # c
    BY <1>7 DEF Saved, SubsOfCustomer
  <2>2. StripeAccessIsPaid' /\ ClosedIsNotBilled'
    BY <1>1, <1>7, <2>1 DEF BillingInv, StripeAccessIsPaid, ClosedIsNotBilled, Running
  <2>3. RequestsOK'
    BY <1>4, <1>7, <2>1 DEF BillingInv, RequestsOK, RequestOK
  <2>4. subs' \in [SubIds -> Row \cup {None}]
    BY <1>7 DEF BillingInv, TypeOK
  <2>. QED  BY <1>1, <1>4, <1>7, <2>1, <2>2, <2>3, <2>4, RowChanged
<1>. QED  BY <1>6, <1>7 DEF StripeWebhook

\* A notification names a payer, and only rows paid at PayPal have one.
LEMMA PaypalIpnInv ==
  ASSUME BillingInv, NEW p \in Profiles, PaypalIpn(p)
  PROVE  BillingInv'
<1>1. /\ p \in ipns /\ ipns' \subseteq ipns
      /\ UNCHANGED <<stripe, paypal, payments, events, req>>
  BY DEF PaypalIpn
<1>2. PICK w \in Workers : Free(w)
  BY DEF PaypalIpn
<1>3. paypal[p].payer # None
  BY <1>1, BillingAssumption DEF BillingInv, NewsOK
<1>4. /\ req' \in [Workers -> Request] /\ req'[w] = req[w]
      /\ \A v \in Workers : v # w => req'[v] = req[v]
  BY <1>1 DEF BillingInv, TypeOK
<1>5. RequestOK(req[w])'
  BY <1>2, <1>4 DEF Free, RequestOK
<1>6. CASE \E i \in SubsOfPayer(paypal[p].payer) : SetCancelled(i, TRUE)
  <2>1. PICK i \in Saved : subs[i].payer = paypal[p].payer /\ SetCancelled(i, TRUE)
    BY <1>6 DEF SubsOfPayer
  <2>2. subs[i].stripe = None
    BY <1>3, <2>1 DEF BillingInv, RowsOK, TokensNameOneRow
  <2>. QED  BY <1>1, <1>4, <1>5, <2>1, <2>2, PaypalRowSet
<1>7. CASE UNCHANGED subs
  <2>1. Saved' = Saved /\ subs' \in [SubIds -> Row \cup {None}]
    BY <1>7 DEF BillingInv, TypeOK, Saved
  <2>2. RequestsOK'
    BY <1>4, <1>5, <1>7, <2>1, RequestsKept DEF BillingInv
  <2>3. StripeAccessIsPaid' /\ ClosedIsNotBilled'
    BY <1>1, <1>7, <2>1 DEF BillingInv, StripeAccessIsPaid, ClosedIsNotBilled, Running
  <2>4. \A v \in Workers : \/ req'[v] = req[v]
                           \/ req'[v].at \notin {"customer", "profile"}
    BY <1>4
  <2>. QED  BY <1>1, <1>4, <1>7, <2>1, <2>2, <2>3, <2>4, RowChanged
<1>. QED  BY <1>6, <1>7 DEF PaypalIpn

-----------------------------------------------------------------------------
(* The invariant and what follows from it.                                 *)

\* Every step keeps the invariant.
LEMMA NextInv == BillingInv /\ [Next]_vars => BillingInv'
<1>. SUFFICES ASSUME BillingInv, [Next]_vars  PROVE BillingInv'
  OBVIOUS
<1>1. ASSUME NEW w \in Workers, Begin(w)  PROVE BillingInv'
  BY <1>1, CreateCustomerInv, RequestPaymentInv, LoadForUpdateInv,
     CancelSubscriptionInv, LoadForPaypalInv DEF Begin
<1>2. ASSUME NEW w \in Workers, Continue(w)  PROVE BillingInv'
  <2>1. CASE UpdateRefused(w) \/ PaypalRefused(w) \/ Finish(w)
    BY <2>1, DropInv DEF UpdateRefused, PaypalRefused, Finish
  <2>. QED  BY <1>2, <2>1, SaveStripeRowInv, CreateProfileInv, SavePaypalRowInv,
              MovePlanInv, SavePlanInv, SuspendProfileInv, SaveSuspendedInv,
              ReactivateProfileInv, SaveReactivatedInv DEF Continue
<1>3. ASSUME NEW w \in Workers, Fail(w)  PROVE BillingInv'
  BY <1>3, DropInv DEF Fail
<1>4. ASSUME NEW c \in Customers, StripeWebhook(c) \/ StripeEnds(c)  PROVE BillingInv'
  BY <1>4, StripeWebhookInv, StripeEndsInv
<1>5. ASSUME NEW p \in Profiles, PaypalIpn(p) \/ PayerCancels(p)  PROVE BillingInv'
  BY <1>5, PaypalIpnInv, PayerCancelsInv
<1>6. CASE UNCHANGED vars
  <2>1. Saved' = Saved /\ TypeOK'
    BY <1>6 DEF vars, Saved, BillingInv, TypeOK
  <2>2. RequestsOK'
    BY <1>6, <2>1 DEF vars, BillingInv, RequestsOK, RequestOK
  <2>3. NewsOK'
    BY <1>6 DEF vars, BillingInv, NewsOK
  <2>4. StripeAccessIsPaid' /\ ClosedIsNotBilled'
    BY <1>6, <2>1 DEF vars, BillingInv, StripeAccessIsPaid, ClosedIsNotBilled, Running
  <2>5. subs' \in [SubIds -> Row \cup {None}] /\ req' \in [Workers -> Request]
    BY <2>1 DEF TypeOK
  <2>. QED  BY <1>6, <2>1, <2>2, <2>3, <2>4, <2>5, RowChanged DEF vars
<1>. QED  BY <1>1, <1>2, <1>3, <1>4, <1>5, <1>6 DEF Next

\* Whatever the order of requests, failures and news, the invariant holds.
THEOREM Invariance == Spec => []BillingInv
BY InitInv, NextInv, PTL DEF Spec

\* Every store and every request keeps its type.
THEOREM TypeCorrect == Spec => []TypeOK
<1>1. BillingInv => TypeOK
  BY DEF BillingInv
<1>. QED  BY <1>1, Invariance, PTL

\* find_by in the Stripe webhook meets the row of the customer it is about, or
\* no row, for any number of requests that create rows at once.
THEOREM TokensNameOneRowTheorem == Spec => []TokensNameOneRow
<1>1. BillingInv => TokensNameOneRow
  BY DEF BillingInv
<1>. QED  BY <1>1, Invariance, PTL

\* A card subscription that opens the conversations pages is billed, or the
\* news of its end is still to come.
THEOREM StripeAccessIsPaidTheorem == Spec => []StripeAccessIsPaid
<1>1. BillingInv => StripeAccessIsPaid
  BY DEF BillingInv
<1>. QED  BY <1>1, Invariance, PTL

\* A card subscription the site closed is not billed any more.
THEOREM ClosedIsNotBilledTheorem == Spec => []ClosedIsNotBilled
<1>1. BillingInv => ClosedIsNotBilled
  BY DEF BillingInv
<1>. QED  BY <1>1, Invariance, PTL

-----------------------------------------------------------------------------
(* A closed card subscription stays closed.                                *)

\* A step that changes no row but perhaps one, of a PayPal subscription, or
\* closes one, or adds one, reopens no card subscription.
LEMMA CardRowKept ==
  ASSUME BillingInv, NEW i \in Saved, subs[i].stripe # None, subs[i].cancelled,
         [Next]_vars
  PROVE  subs'[i].cancelled
<1>1. i \in SubIds /\ subs[i] \in Row
  BY DEF BillingInv, TypeOK, Saved
<1>2. CASE UNCHANGED subs
  BY <1>2
<1>3. ASSUME NEW row \in Row, NEW j \in SubIds \ Saved, subs' = [subs EXCEPT ![j] = row]
      PROVE  subs'[i].cancelled
  BY <1>3, RowInserted DEF BillingInv
<1>4. ASSUME NEW j \in Saved, NEW value \in BOOLEAN, SetCancelled(j, value), j # i \/ value
      PROVE  subs'[i].cancelled
  <2>1. /\ \A k \in Saved : k # j => subs'[k] = subs[k]
        /\ subs'[j].cancelled = value
    BY <1>4, CancelledSet DEF BillingInv
  <2>. QED  BY <1>4, <2>1
<1>5. ASSUME NEW w \in Workers, SaveStripeRow(w) \/ SavePaypalRow(w)
      PROVE  subs'[i].cancelled
  <2>1. PICK row \in Row, j \in SubIds \ Saved : subs' = [subs EXCEPT ![j] = row]
    <3>1. CASE SaveStripeRow(w)
      <4>. DEFINE row == [user |-> req[w].user, plan |-> req[w].plan,
                          stripe |-> req[w].token, profile |-> None, payer |-> None,
                          cancelled |-> FALSE]
      <4>1. row \in Row
        BY <3>1 DEF SaveStripeRow, Row, BillingInv, RequestsOK, RequestOK
      <4>. QED  BY <3>1, <4>1 DEF SaveStripeRow, Insert
    <3>2. CASE SavePaypalRow(w)
      <4>. DEFINE row == [user |-> req[w].user, plan |-> req[w].plan, stripe |-> None,
                          profile |-> req[w].token, payer |-> req[w].user,
                          cancelled |-> FALSE]
      <4>1. row \in Row
        BY <3>2 DEF SavePaypalRow, Row, BillingInv, RequestsOK, RequestOK
      <4>. QED  BY <3>2, <4>1 DEF SavePaypalRow, Insert
    <3>. QED  BY <1>5, <3>1, <3>2
  <2>. QED  BY <1>3, <2>1
<1>6. ASSUME NEW w \in Workers, SavePlan(w)  PROVE subs'[i].cancelled
  <2>1. subs' = [subs EXCEPT ![req[w].sub] =
                   [subs[req[w].sub] EXCEPT !.plan = OtherPlan(req[w].plan)]]
    BY <1>6 DEF SavePlan
  <2>2. subs'[i].cancelled = subs[i].cancelled
    BY <1>1, <2>1 DEF BillingInv, TypeOK, Row
  <2>. QED  BY <2>2
<1>7. ASSUME NEW w \in Workers, SaveSuspended(w) \/ SaveReactivated(w)
      PROVE  subs'[i].cancelled
  <2>1. req[w].sub \in Saved /\ req[w].sub # i
    BY <1>7, PaypalRowChanged DEF SaveSuspended, SaveReactivated
  <2>2. UNCHANGED subs \/ \E value \in BOOLEAN : SetCancelled(req[w].sub, value)
    BY <1>7 DEF SaveSuspended, SaveReactivated
  <2>. QED  BY <1>2, <1>4, <2>1, <2>2
<1>8. ASSUME NEW c \in Customers, StripeWebhook(c)  PROVE subs'[i].cancelled
  BY <1>2, <1>4, <1>8 DEF StripeWebhook, SubsOfCustomer
<1>9. ASSUME NEW p \in Profiles, PaypalIpn(p)  PROVE subs'[i].cancelled
  BY <1>2, <1>4, <1>9 DEF PaypalIpn, SubsOfPayer
<1>10. ASSUME NEW w \in Workers, Begin(w) \/ Continue(w) \/ Fail(w)  PROVE subs'[i].cancelled
  <2>1. \/ UNCHANGED subs \/ SaveStripeRow(w) \/ SavePaypalRow(w) \/ SavePlan(w)
        \/ SaveSuspended(w) \/ SaveReactivated(w)
    BY <1>10 DEF Begin, Continue, Fail, CreateCustomer, RequestPayment, LoadForUpdate,
         CancelSubscription, LoadForPaypal, CreateProfile, MovePlan, UpdateRefused,
         SuspendProfile, ReactivateProfile, PaypalRefused, Finish
  <2>. QED  BY <1>2, <1>5, <1>6, <1>7, <2>1
<1>11. ASSUME NEW c \in Customers, StripeEnds(c)  PROVE subs'[i].cancelled
  BY <1>2, <1>11 DEF StripeEnds
<1>12. ASSUME NEW p \in Profiles, PayerCancels(p)  PROVE subs'[i].cancelled
  BY <1>2, <1>12 DEF PayerCancels
<1>. QED  BY <1>2, <1>8, <1>9, <1>10, <1>11, <1>12 DEF Next, vars

\* Once a card subscription is closed no request opens it again: reactivate
\* stops at the error of PayPal, which knows no profile for it.
THEOREM ClosedStaysClosedTheorem == Spec => ClosedStaysClosed
<1>1. BillingInv /\ [Next]_vars =>
        [\A i \in Saved : subs[i].stripe # None /\ subs[i].cancelled
                            => subs'[i].cancelled]_vars
  BY CardRowKept
<1>. QED  BY <1>1, Invariance, PTL DEF Spec, ClosedStaysClosed

-----------------------------------------------------------------------------
(* Billing implements Entitlement (its safety; fairness is left to TLC).   *)

\* The initial states of Billing are initial states of Entitlement.
LEMMA InitRefines == Init => Card!EntitlementInit
<1>. SUFFICES ASSUME Init  PROVE Card!EntitlementInit
  OBVIOUS
<1>1. \A c \in Customers : SubsOfCustomer(c) = {}
  BY DEF Init, Saved, SubsOfCustomer
<1>. QED  BY <1>1 DEF Init, Card!EntitlementInit, BillingOf, RowAccess

\* A step that keeps the customers, their rows and the news is no step of
\* Entitlement.
LEMMA CardsKept ==
  ASSUME \A c \in Customers : BillingOf[stripe'[c].status] = BillingOf[stripe[c].status],
         \A c \in Customers : RowAccess(c)' = RowAccess(c),
         UNCHANGED events
  PROVE  UNCHANGED Card!entitlement
BY DEF Card!entitlement

\* The access of a customer is that of its only row.
LEMMA AccessOfRow ==
  BillingInv => \A i \in Saved, c \in Customers :
    subs[i].stripe = c => /\ SubsOfCustomer(c) = {i}
                          /\ RowAccess(c) = IF subs[i].cancelled THEN "closed" ELSE "open"
<1>. SUFFICES ASSUME BillingInv, NEW i \in Saved, NEW c \in Customers, subs[i].stripe = c
              PROVE  /\ SubsOfCustomer(c) = {i}
                     /\ RowAccess(c) = IF subs[i].cancelled THEN "closed" ELSE "open"
  OBVIOUS
<1>1. c # None
  BY BillingAssumption
<1>2. SubsOfCustomer(c) = {i}
  BY <1>1 DEF BillingInv, TokensNameOneRow, SubsOfCustomer
<1>. QED  BY <1>2 DEF RowAccess

\* Rows that keep their customer and, when they have one, their access.
LEMMA AccessKept ==
  ASSUME Saved' = Saved,
         \A i \in Saved : subs'[i].stripe = subs[i].stripe,
         NEW c \in Customers,
         \A i \in SubsOfCustomer(c) : subs'[i].cancelled = subs[i].cancelled
  PROVE  RowAccess(c)' = RowAccess(c)
<1>1. SubsOfCustomer(c)' = SubsOfCustomer(c)
  BY DEF SubsOfCustomer
<1>. QED  BY <1>1 DEF RowAccess

\* Signing at Stripe is Sign.
LEMMA CreateCustomerRefines ==
  ASSUME BillingInv, NEW w \in Workers, NEW u \in Users, NEW plan \in Plans,
         CreateCustomer(w, u, plan)
  PROVE  \E c \in Customers : Card!Sign(c)
<1>1. PICK c \in Customers :
        /\ stripe[c].status = "none"
        /\ stripe' = [stripe EXCEPT ![c] = [plan |-> plan, status |-> "active"]]
  BY DEF CreateCustomer
<1>2. UNCHANGED <<subs, events>>
  BY DEF CreateCustomer
<1>3. \A d \in Customers : RowAccess(d)' = RowAccess(d)
  BY <1>2 DEF RowAccess, SubsOfCustomer, Saved
<1>4. /\ stripe'[c].status = "active"
      /\ \A d \in Customers : d # c => stripe'[d] = stripe[d]
  BY <1>1 DEF BillingInv, TypeOK
<1>5. /\ BillingOf[stripe[c].status] = "none"
      /\ \A d \in Customers : BillingOf[stripe'[d].status] =
                             IF d = c THEN "running" ELSE BillingOf[stripe[d].status]
  BY <1>1, <1>4 DEF BillingOf
<1>6. Card!Sign(c)
  BY <1>2, <1>3, <1>5 DEF Card!Sign
<1>. QED  BY <1>6

\* Saving the row of a card is Grant.
LEMMA SaveStripeRowRefines ==
  ASSUME BillingInv, NEW w \in Workers, SaveStripeRow(w)
  PROVE  \E c \in Customers : Card!Grant(c)
<1>1. PICK c \in Customers :
        /\ req[w].at = "customer" /\ c = req[w].token
        /\ req[w].user \in Users /\ req[w].plan \in Plans
        /\ Running(c) /\ SubsOfCustomer(c) = {}
  BY DEF SaveStripeRow, BillingInv, RequestsOK, RequestOK, HeldOK, Fresh
<1>. DEFINE row == [user |-> req[w].user, plan |-> req[w].plan, stripe |-> c,
                    profile |-> None, payer |-> None, cancelled |-> FALSE]
<1>2. row \in Row
  BY <1>1 DEF Row
<1>3. PICK i \in SubIds \ Saved : subs' = [subs EXCEPT ![i] = row]
  BY <1>1 DEF SaveStripeRow, Insert
<1>4. /\ Saved' = Saved \cup {i} /\ i \notin Saved
      /\ \A j \in Saved : j # i /\ subs'[j] = subs[j]
      /\ subs'[i].stripe = c /\ subs'[i].cancelled = FALSE
  BY <1>2, <1>3, RowInserted DEF BillingInv
<1>5. UNCHANGED <<stripe, events>>
  BY DEF SaveStripeRow
<1>. HIDE DEF row
<1>6. SubsOfCustomer(c)' = {i}
  BY <1>1, <1>4 DEF SubsOfCustomer
<1>7. RowAccess(c) = "never" /\ RowAccess(c)' = "open"
  BY <1>1, <1>4, <1>6 DEF RowAccess
<1>8. ASSUME NEW d \in Customers, d # c  PROVE RowAccess(d)' = RowAccess(d)
  <2>1. SubsOfCustomer(d)' = SubsOfCustomer(d)
    BY <1>4, <1>8 DEF SubsOfCustomer
  <2>2. \A j \in SubsOfCustomer(d) : subs'[j] = subs[j]
    BY <1>4 DEF SubsOfCustomer
  <2>. QED  BY <2>1, <2>2 DEF RowAccess
<1>9. BillingOf[stripe[c].status] = "running"
  BY <1>1 DEF Running, BillingOf
<1>10. Card!Grant(c)
  BY <1>1, <1>5, <1>7, <1>8, <1>9 DEF Card!Grant
<1>. QED  BY <1>1, <1>10

\* A change of plan is no step, or Resume where Stripe bills again.
LEMMA MovePlanRefines ==
  ASSUME BillingInv, NEW w \in Workers, MovePlan(w)
  PROVE  \/ \E c \in Customers : Card!Resume(c)
         \/ UNCHANGED Card!entitlement
<1>. PICK c \in Customers : c = req[w].token
  BY DEF MovePlan
<1>1. PICK status \in AfterPlanChange(stripe[c].status) :
        stripe' = [stripe EXCEPT ![c] = [plan |-> OtherPlan(req[w].plan),
                                         status |-> status]]
  BY DEF MovePlan
<1>2. /\ stripe[c].status \in {"none", "active", "canceling", "ended"}
      /\ stripe'[c].status = status
      /\ \A d \in Customers : d # c => stripe'[d] = stripe[d]
  BY <1>1 DEF MovePlan, BillingInv, TypeOK
<1>3. UNCHANGED <<subs, events>>
  BY DEF MovePlan
<1>4. stripe[c].status # "none"
  <2>1. PICK i \in Saved : subs[i].stripe = c
    BY DEF MovePlan, BillingInv, RequestsOK, RequestOK
  <2>. QED  BY <1>2, <2>1, BillingAssumption DEF BillingInv, RowsOK
<1>5. \A d \in Customers : RowAccess(d)' = RowAccess(d)
  BY <1>3 DEF RowAccess, SubsOfCustomer, Saved
<1>6. CASE stripe[c].status = "ended"
  <2>1. StripeResubscribes /\ status = "active"
    BY <1>1, <1>6 DEF AfterPlanChange
  <2>2. /\ BillingOf[stripe[c].status] = "ended"
        /\ \A d \in Customers : BillingOf[stripe'[d].status] =
                               IF d = c THEN "running" ELSE BillingOf[stripe[d].status]
    BY <1>2, <1>6, <2>1 DEF BillingOf
  <2>3. Card!Resume(c)
    BY <1>2, <1>3, <1>5, <2>1, <2>2 DEF Card!Resume
  <2>. QED  BY <1>2, <2>3
<1>7. CASE stripe[c].status \in {"active", "canceling"}
  <2>1. status \in {"active", "canceling"}
    BY <1>1, <1>7 DEF AfterPlanChange
  <2>2. \A d \in Customers : BillingOf[stripe'[d].status] = BillingOf[stripe[d].status]
    BY <1>2, <1>7, <2>1 DEF BillingOf
  <2>. QED  BY <1>3, <1>5, <2>2, CardsKept
<1>. QED  BY <1>2, <1>4, <1>6, <1>7

\* The end of the billing is End.
LEMMA StripeEndsRefines ==
  ASSUME BillingInv, NEW c \in Customers, StripeEnds(c)
  PROVE  Card!End(c)
<1>1. UNCHANGED subs /\ events' = events \cup {c} /\ Running(c)
  BY DEF StripeEnds
<1>2. \A d \in Customers : RowAccess(d)' = RowAccess(d)
  BY <1>1 DEF RowAccess, SubsOfCustomer, Saved
<1>3. /\ stripe'[c].status = "ended"
      /\ \A d \in Customers : d # c => stripe'[d] = stripe[d]
  BY DEF StripeEnds, BillingInv, TypeOK
<1>4. /\ BillingOf[stripe[c].status] = "running"
      /\ \A d \in Customers : BillingOf[stripe'[d].status] =
                             IF d = c THEN "ended" ELSE BillingOf[stripe[d].status]
  BY <1>1, <1>3 DEF BillingOf, Running
<1>. QED  BY <1>1, <1>2, <1>4 DEF Card!End

\* The webhook is Report.
LEMMA StripeWebhookRefines ==
  ASSUME BillingInv, NEW c \in Customers, StripeWebhook(c)
  PROVE  Card!Report(c)
<1>1. c \in events /\ events' \in {events, events \ {c}} /\ UNCHANGED stripe
  BY DEF StripeWebhook
<1>2. /\ RowAccess(c)' = IF RowAccess(c) = "open" THEN "closed" ELSE RowAccess(c)
      /\ \A d \in Customers : d # c => RowAccess(d)' = RowAccess(d)
  <2>1. CASE \E i \in SubsOfCustomer(c) : SetCancelled(i, TRUE)
    <3>1. PICK i \in Saved : subs[i].stripe = c /\ SetCancelled(i, TRUE)
      BY <2>1 DEF SubsOfCustomer
    <3>2. /\ Saved' = Saved /\ subs'[i].cancelled = TRUE
          /\ \A j \in Saved : subs'[j].stripe = subs[j].stripe
          /\ \A j \in Saved : j # i => subs'[j] = subs[j]
      BY <3>1, CancelledSet DEF BillingInv
    <3>3. /\ SubsOfCustomer(c) = {i}
          /\ RowAccess(c) = IF subs[i].cancelled THEN "closed" ELSE "open"
      BY <3>1, AccessOfRow
    <3>4. SubsOfCustomer(c)' = {i}
      BY <3>2, <3>3 DEF SubsOfCustomer
    <3>5. RowAccess(c)' = "closed"
      BY <3>2, <3>4 DEF RowAccess
    <3>6. ASSUME NEW d \in Customers, d # c  PROVE RowAccess(d)' = RowAccess(d)
      <4>1. \A j \in SubsOfCustomer(d) : subs'[j].cancelled = subs[j].cancelled
        BY <3>1, <3>2, <3>6 DEF SubsOfCustomer
      <4>. QED  BY <3>2, <4>1, AccessKept
    <3>. QED  BY <3>3, <3>5, <3>6
  <2>2. CASE SubsOfCustomer(c) = {} /\ UNCHANGED subs
    <3>1. \A d \in Customers : RowAccess(d)' = RowAccess(d)
      BY <2>2 DEF RowAccess, SubsOfCustomer, Saved
    <3>2. RowAccess(c) = "never"
      BY <2>2 DEF RowAccess
    <3>. QED  BY <3>1, <3>2
  <2>. QED  BY <2>1, <2>2 DEF StripeWebhook
<1>. QED  BY <1>1, <1>2 DEF Card!Report

\* Opening or closing a PayPal row is nothing to the cards.
LEMMA PaypalRowRefines ==
  ASSUME BillingInv, NEW i \in Saved, subs[i].stripe = None,
         NEW value \in BOOLEAN, SetCancelled(i, value), UNCHANGED <<stripe, events>>
  PROVE  UNCHANGED Card!entitlement
<1>1. /\ Saved' = Saved
      /\ \A j \in Saved : subs'[j].stripe = subs[j].stripe
      /\ \A j \in Saved : j # i => subs'[j] = subs[j]
  BY CancelledSet DEF BillingInv
<1>2. ASSUME NEW c \in Customers  PROVE RowAccess(c)' = RowAccess(c)
  <2>1. \A j \in SubsOfCustomer(c) : subs'[j].cancelled = subs[j].cancelled
    BY <1>1, BillingAssumption DEF SubsOfCustomer
  <2>. QED  BY <1>1, <2>1, AccessKept
<1>. QED  BY <1>2, CardsKept

\* The row of a PayPal subscription is nothing to the cards.
LEMMA SavePaypalRowRefines ==
  ASSUME BillingInv, NEW w \in Workers, SavePaypalRow(w)
  PROVE  UNCHANGED Card!entitlement
<1>. DEFINE row == [user |-> req[w].user, plan |-> req[w].plan, stripe |-> None,
                    profile |-> req[w].token, payer |-> req[w].user, cancelled |-> FALSE]
<1>1. row \in Row
  BY DEF SavePaypalRow, Row, BillingInv, RequestsOK, RequestOK
<1>2. PICK i \in SubIds \ Saved : subs' = [subs EXCEPT ![i] = row]
  BY DEF SavePaypalRow, Insert
<1>3. /\ Saved' = Saved \cup {i} /\ subs'[i].stripe = None
      /\ \A j \in Saved : subs'[j] = subs[j]
  BY <1>1, <1>2, RowInserted DEF BillingInv
<1>4. ASSUME NEW c \in Customers  PROVE RowAccess(c)' = RowAccess(c)
  <2>1. SubsOfCustomer(c)' = SubsOfCustomer(c)
    BY <1>3, BillingAssumption DEF SubsOfCustomer
  <2>2. \A j \in SubsOfCustomer(c) : subs'[j] = subs[j]
    BY <1>3 DEF SubsOfCustomer
  <2>. QED  BY <2>1, <2>2 DEF RowAccess
<1>. QED  BY <1>4, CardsKept DEF SavePaypalRow

\* Nor is the plan of a row.
LEMMA SavePlanRefines ==
  ASSUME BillingInv, NEW w \in Workers, SavePlan(w)
  PROVE  UNCHANGED Card!entitlement
<1>1. /\ req[w].sub \in Saved
      /\ subs' = [subs EXCEPT ![req[w].sub] =
                    [subs[req[w].sub] EXCEPT !.plan = OtherPlan(req[w].plan)]]
  BY DEF SavePlan, BillingInv, RequestsOK, RequestOK
<1>2. \A j \in Saved : j \in SubIds /\ subs[j] \in Row
  BY DEF BillingInv, TypeOK, Saved
<1>3. \A j \in Saved : /\ subs'[j].stripe = subs[j].stripe
                       /\ subs'[j].cancelled = subs[j].cancelled
  BY <1>1, <1>2 DEF BillingInv, TypeOK, Row
<1>4. Saved' = Saved
  <2>1. [subs[req[w].sub] EXCEPT !.plan = OtherPlan(req[w].plan)] \in Row
    BY <1>1, <1>2 DEF Row, OtherPlan, Plans
  <2>. QED  BY <1>1, <1>2, <2>1, NoneIsNoRow DEF BillingInv, TypeOK, Saved
<1>5. ASSUME NEW c \in Customers  PROVE RowAccess(c)' = RowAccess(c)
  BY <1>3, <1>4, AccessKept DEF SubsOfCustomer
<1>. QED  BY <1>5, CardsKept DEF SavePlan

\* Nor is a cancellation before the period ran out.
LEMMA CancelSubscriptionRefines ==
  ASSUME BillingInv, NEW w \in Workers, NEW u \in Users, CancelSubscription(w, u)
  PROVE  UNCHANGED Card!entitlement
<1>1. PICK c \in Customers :
        /\ Running(c)
        /\ stripe' = [stripe EXCEPT ![c].status = "canceling"]
  BY DEF CancelSubscription
<1>2. UNCHANGED <<subs, events>>
  BY DEF CancelSubscription
<1>3. \A d \in Customers : RowAccess(d)' = RowAccess(d)
  BY <1>2 DEF RowAccess, SubsOfCustomer, Saved
<1>4. /\ stripe'[c].status = "canceling"
      /\ \A d \in Customers : d # c => stripe'[d] = stripe[d]
  BY <1>1 DEF BillingInv, TypeOK
<1>5. \A d \in Customers : BillingOf[stripe'[d].status] = BillingOf[stripe[d].status]
  BY <1>1, <1>4 DEF BillingOf, Running
<1>. QED  BY <1>2, <1>3, <1>5, CardsKept

\* A step that leaves table, customers and news alone.
LEMMA OthersRefine ==
  ASSUME UNCHANGED <<subs, stripe, events>>
  PROVE  UNCHANGED Card!entitlement
<1>1. \A c \in Customers : RowAccess(c)' = RowAccess(c)
  BY DEF RowAccess, SubsOfCustomer, Saved
<1>. QED  BY <1>1, CardsKept

\* Every step of Billing is a step of Entitlement or leaves it alone.
LEMMA NextRefines ==
  BillingInv /\ [Next]_vars => [Card!EntitlementNext]_Card!entitlement
<1>. SUFFICES ASSUME BillingInv, [Next]_vars
              PROVE  Card!EntitlementNext \/ UNCHANGED Card!entitlement
  OBVIOUS
<1>. USE DEF Card!EntitlementNext
<1>1. ASSUME NEW w \in Workers, SaveSuspended(w) \/ SaveReactivated(w)
      PROVE  UNCHANGED Card!entitlement
  <2>1. req[w].sub \in Saved /\ subs[req[w].sub].stripe = None
    BY <1>1, PaypalRowChanged DEF SaveSuspended, SaveReactivated
  <2>2. \/ UNCHANGED subs
        \/ \E value \in BOOLEAN : SetCancelled(req[w].sub, value)
    BY <1>1 DEF SaveSuspended, SaveReactivated
  <2>3. UNCHANGED <<stripe, events>>
    BY <1>1 DEF SaveSuspended, SaveReactivated
  <2>. QED  BY <2>1, <2>2, <2>3, PaypalRowRefines, OthersRefine
<1>2. ASSUME NEW p \in Profiles, PaypalIpn(p)  PROVE UNCHANGED Card!entitlement
  <2>1. paypal[p].payer # None /\ UNCHANGED <<stripe, events>>
    BY <1>2, BillingAssumption DEF PaypalIpn, BillingInv, NewsOK
  <2>2. CASE \E i \in SubsOfPayer(paypal[p].payer) : SetCancelled(i, TRUE)
    <3>1. PICK i \in Saved : subs[i].payer = paypal[p].payer /\ SetCancelled(i, TRUE)
      BY <2>2 DEF SubsOfPayer
    <3>2. subs[i].stripe = None
      BY <2>1, <3>1 DEF BillingInv, RowsOK, TokensNameOneRow
    <3>. QED  BY <2>1, <3>1, <3>2, PaypalRowRefines
  <2>3. CASE UNCHANGED subs
    BY <2>1, <2>3, OthersRefine
  <2>. QED  BY <1>2, <2>2, <2>3 DEF PaypalIpn
<1>3. ASSUME NEW w \in Workers, Begin(w)
      PROVE  Card!EntitlementNext \/ UNCHANGED Card!entitlement
  <2>1. ASSUME NEW u \in Users, NEW plan \in Plans, RequestPayment(w, u, plan)
        PROVE  UNCHANGED Card!entitlement
    BY <2>1, OthersRefine DEF RequestPayment
  <2>2. ASSUME NEW u \in Users, LoadForUpdate(w, u)  PROVE UNCHANGED Card!entitlement
    BY <2>2, OthersRefine DEF LoadForUpdate
  <2>3. ASSUME NEW u \in Users, NEW verb \in {"suspend", "reactivate"},
               LoadForPaypal(w, u, verb)
        PROVE  UNCHANGED Card!entitlement
    BY <2>3, OthersRefine DEF LoadForPaypal
  <2>. QED  BY <1>3, <2>1, <2>2, <2>3, CreateCustomerRefines, CancelSubscriptionRefines
       DEF Begin
<1>4. ASSUME NEW w \in Workers, Continue(w) \/ Fail(w)
      PROVE  Card!EntitlementNext \/ UNCHANGED Card!entitlement
  <2>1. \/ UNCHANGED <<subs, stripe, events>>
        \/ SaveStripeRow(w) \/ SavePaypalRow(w) \/ MovePlan(w) \/ SavePlan(w)
        \/ SaveSuspended(w) \/ SaveReactivated(w)
    BY <1>4 DEF Continue, Fail, CreateProfile, UpdateRefused, SuspendProfile,
         ReactivateProfile, PaypalRefused, Finish
  <2>. QED  BY <1>1, <2>1, OthersRefine, SaveStripeRowRefines, SavePaypalRowRefines,
              MovePlanRefines, SavePlanRefines
<1>5. ASSUME NEW c \in Customers, StripeWebhook(c) \/ StripeEnds(c)
      PROVE  Card!EntitlementNext
  BY <1>5, StripeWebhookRefines, StripeEndsRefines
<1>6. ASSUME NEW p \in Profiles, PayerCancels(p)  PROVE UNCHANGED Card!entitlement
  BY <1>6, OthersRefine DEF PayerCancels
<1>7. CASE UNCHANGED vars
  BY <1>7, OthersRefine DEF vars
<1>. QED  BY <1>2, <1>3, <1>4, <1>5, <1>6, <1>7 DEF Next

\* Requests, rows, workers, failures and repeated news implement the life of a
\* card subscription that Entitlement describes.
THEOREM CardsRefine == Spec => Card!EntitlementSpec
BY InitRefines, NextRefines, Invariance, PTL DEF Spec, Card!EntitlementSpec

=============================================================================
