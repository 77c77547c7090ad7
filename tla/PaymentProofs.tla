---------------------------- MODULE PaymentProofs ----------------------------
(***************************************************************************)
(* Proofs about Billing, continued: no agreement is lost and no PayPal     *)
(* subscription is unpaid, and a row and its provider come to differ only  *)
(* when a request dies or is overtaken, for every number of users, workers *)
(* and rows; with one worker none is overtaken.                            *)
(***************************************************************************)
EXTENDS BillingProofs, FiniteSetTheorems

-----------------------------------------------------------------------------
(* What a step does to the table and to the requests.                      *)

\* The rows a create saves.
CardRow(w) == [user |-> req[w].user, plan |-> req[w].plan,
               stripe |-> req[w].token, profile |-> None, payer |-> None,
               cancelled |-> FALSE]
PaypalRow(w) == [user |-> req[w].user, plan |-> req[w].plan, stripe |-> None,
                 profile |-> req[w].token, payer |-> req[w].user,
                 cancelled |-> FALSE]

\* A saved row is a row under a key of the table.
LEMMA SavedRow ==
  ASSUME BillingInv, NEW i \in Saved
  PROVE  i \in SubIds /\ subs[i] \in Row
BY DEF BillingInv, TypeOK, Saved

\* What a card create saves: the customer it holds, under a fresh key.
LEMMA CardRowSaved ==
  ASSUME BillingInv, NEW w \in Workers, SaveStripeRow(w)
  PROVE  \E i \in SubIds \ Saved :
           /\ Saved' = Saved \cup {i}
           /\ \A j \in Saved : j # i /\ subs'[j] = subs[j]
           /\ subs'[i] = CardRow(w)
<1>1. CardRow(w) \in Row
  BY DEF SaveStripeRow, CardRow, Row, BillingInv, RequestsOK, RequestOK
<1>2. PICK i \in SubIds \ Saved : subs' = [subs EXCEPT ![i] = CardRow(w)]
  BY DEF SaveStripeRow, Insert, CardRow
<1>. QED  BY <1>1, <1>2, RowInserted DEF BillingInv

\* What a PayPal create saves: the profile it holds and its payer.
LEMMA PaypalRowSaved ==
  ASSUME BillingInv, NEW w \in Workers, SavePaypalRow(w)
  PROVE  \E i \in SubIds \ Saved :
           /\ Saved' = Saved \cup {i}
           /\ \A j \in Saved : j # i /\ subs'[j] = subs[j]
           /\ subs'[i] = PaypalRow(w)
<1>1. PaypalRow(w) \in Row
  BY DEF SavePaypalRow, PaypalRow, Row, BillingInv, RequestsOK, RequestOK
<1>2. PICK i \in SubIds \ Saved : subs' = [subs EXCEPT ![i] = PaypalRow(w)]
  BY DEF SavePaypalRow, Insert, PaypalRow
<1>. QED  BY <1>1, <1>2, RowInserted DEF BillingInv

\* A change of plan replaces the plan of the row it loaded.
LEMMA PlanSaved ==
  ASSUME BillingInv, NEW w \in Workers, SavePlan(w)
  PROVE  /\ req[w].sub \in Saved /\ Saved' = Saved
         /\ subs'[req[w].sub].plan = OtherPlan(req[w].plan)
         /\ \A j \in Saved : /\ subs'[j].user = subs[j].user
                             /\ subs'[j].stripe = subs[j].stripe
                             /\ subs'[j].profile = subs[j].profile
                             /\ subs'[j].payer = subs[j].payer
                             /\ subs'[j].cancelled = subs[j].cancelled
                             /\ j # req[w].sub => subs'[j] = subs[j]
<1>. DEFINE i == req[w].sub
            row == [subs[i] EXCEPT !.plan = OtherPlan(req[w].plan)]
<1>1. i \in Saved
  BY DEF SavePlan, BillingInv, RequestsOK, RequestOK
<1>2. \A j \in Saved : j \in SubIds /\ subs[j] \in Row
  BY SavedRow
<1>3. /\ row \in Row /\ row.stripe = subs[i].stripe /\ row.profile = subs[i].profile
      /\ row.payer = subs[i].payer /\ row.cancelled = subs[i].cancelled
      /\ row.user = subs[i].user /\ row.plan = OtherPlan(req[w].plan)
  BY <1>1, <1>2 DEF Row, OtherPlan, Plans
<1>4. subs' = [subs EXCEPT ![i] = row]
  BY DEF SavePlan
<1>5. /\ Saved' = Saved
      /\ \A j \in Saved : subs'[j] = IF j = i THEN row ELSE subs[j]
  BY <1>1, <1>2, <1>3, <1>4, NoneIsNoRow DEF BillingInv, TypeOK, Saved
<1>. QED  BY <1>1, <1>3, <1>5

\* Only these steps write the table.
LEMMA RowSteps ==
  ASSUME BillingInv, [Next]_vars
  PROVE  \/ UNCHANGED subs
         \/ \E w \in Workers : SaveStripeRow(w) \/ SavePaypalRow(w) \/ SavePlan(w)
         \/ \E i \in Saved, value \in BOOLEAN : SetCancelled(i, value)
<1>1. ASSUME NEW w \in Workers, Begin(w) \/ Fail(w)  PROVE UNCHANGED subs
  BY <1>1 DEF Begin, Fail, CreateCustomer, RequestPayment, LoadForUpdate,
       CancelSubscription, LoadForPaypal
<1>2. ASSUME NEW w \in Workers, Continue(w)
      PROVE  \/ UNCHANGED subs \/ SaveStripeRow(w) \/ SavePaypalRow(w) \/ SavePlan(w)
             \/ \E i \in Saved, value \in BOOLEAN : SetCancelled(i, value)
  <2>1. CASE SaveSuspended(w) \/ SaveReactivated(w)
    <3>1. req[w].sub \in Saved
      BY <2>1, PaypalRowChanged DEF SaveSuspended, SaveReactivated
    <3>2. UNCHANGED subs \/ \E value \in BOOLEAN : SetCancelled(req[w].sub, value)
      BY <2>1 DEF SaveSuspended, SaveReactivated
    <3>. QED  BY <3>1, <3>2
  <2>. QED  BY <1>2, <2>1 DEF Continue, CreateProfile, MovePlan, UpdateRefused,
              SuspendProfile, ReactivateProfile, PaypalRefused, Finish
<1>3. ASSUME NEW c \in Customers, StripeWebhook(c) \/ StripeEnds(c)
      PROVE  UNCHANGED subs \/ \E i \in Saved, value \in BOOLEAN : SetCancelled(i, value)
  BY <1>3 DEF StripeWebhook, StripeEnds, SubsOfCustomer
<1>4. ASSUME NEW p \in Profiles, PaypalIpn(p) \/ PayerCancels(p)
      PROVE  UNCHANGED subs \/ \E i \in Saved, value \in BOOLEAN : SetCancelled(i, value)
  BY <1>4 DEF PaypalIpn, PayerCancels, SubsOfPayer
<1>5. CASE UNCHANGED vars
  BY <1>5 DEF vars
<1>6. CASE Next
  BY <1>6, <1>1, <1>2, <1>3, <1>4 DEF Next
<1>. QED  BY <1>5, <1>6

\* A row keeps its user, its agreement and its payer.
LEMMA RowKept ==
  ASSUME BillingInv, [Next]_vars, NEW i \in Saved
  PROVE  /\ i \in Saved' /\ subs'[i].user = subs[i].user
         /\ subs'[i].stripe = subs[i].stripe /\ subs'[i].profile = subs[i].profile
         /\ subs'[i].payer = subs[i].payer
<1>1. CASE UNCHANGED subs
  BY <1>1 DEF Saved
<1>2. CASE \E w \in Workers : SaveStripeRow(w)
  BY <1>2, CardRowSaved
<1>3. CASE \E w \in Workers : SavePaypalRow(w)
  BY <1>3, PaypalRowSaved
<1>4. CASE \E w \in Workers : SavePlan(w)
  BY <1>4, PlanSaved
<1>5. CASE \E j \in Saved, value \in BOOLEAN : SetCancelled(j, value)
  BY <1>5, CancelledSet DEF BillingInv
<1>. QED  BY <1>1, <1>2, <1>3, <1>4, <1>5, RowSteps

\* Only a request's own steps change it.
LEMMA RequestSteps ==
  ASSUME BillingInv, [Next]_vars, NEW w \in Workers, req'[w] # req[w]
  PROVE  Begin(w) \/ Continue(w) \/ Fail(w)
<1>1. req \in [Workers -> Request]
  BY DEF BillingInv, TypeOK
<1>2. ASSUME NEW v \in Workers, v # w, Begin(v)  PROVE FALSE
  BY <1>1, <1>2 DEF Begin, CreateCustomer, RequestPayment, LoadForUpdate,
       CancelSubscription, Answer, LoadForPaypal
<1>3. ASSUME NEW v \in Workers, v # w, Continue(v)  PROVE FALSE
  BY <1>1, <1>3 DEF Continue, SaveStripeRow, CreateProfile, SavePaypalRow, MovePlan,
       SavePlan, UpdateRefused, SuspendProfile, SaveSuspended, ReactivateProfile,
       SaveReactivated, PaypalRefused, Finish, Answer, Drop
<1>4. ASSUME NEW v \in Workers, v # w, Fail(v)  PROVE FALSE
  BY <1>1, <1>4 DEF Fail, Drop
<1>5. Next
  BY DEF vars
<1>6. ~ \E c \in Customers : StripeWebhook(c) \/ StripeEnds(c)
  BY DEF StripeWebhook, StripeEnds
<1>7. ~ \E p \in Profiles : PaypalIpn(p) \/ PayerCancels(p)
  BY DEF PaypalIpn, PayerCancels
<1>. QED  BY <1>2, <1>3, <1>4, <1>5, <1>6, <1>7 DEF Next

\* Where the steps of a request lead.
LEMMA StepsLead ==
  ASSUME BillingInv, [Next]_vars, NEW w \in Workers, req'[w] # req[w]
  PROVE  \/ \E u \in Users, plan \in Plans :
              \/ CreateCustomer(w, u, plan) /\ req'[w].at = "customer"
              \/ RequestPayment(w, u, plan) /\ req'[w].at = "paid"
         \/ \E u \in Users : LoadForUpdate(w, u) /\ req'[w].at = "update"
         \/ \E u \in Users, verb \in {"suspend", "reactivate"} :
              LoadForPaypal(w, u, verb) /\ req'[w].at = verb
         \/ CreateProfile(w) /\ req'[w].at = "profile"
         \/ MovePlan(w) /\ req'[w].at = "moved"
         \/ SuspendProfile(w) /\ req'[w].at = "suspended"
         \/ ReactivateProfile(w) /\ req'[w].at = "reactivated"
         \/ (\E u \in Users : CancelSubscription(w, u)) /\ req'[w].at = "answer"
         \/ /\ SaveStripeRow(w) \/ SavePaypalRow(w) \/ SavePlan(w)
               \/ SaveSuspended(w) \/ SaveReactivated(w)
            /\ req'[w].at = "answer"
         \/ /\ UpdateRefused(w) \/ PaypalRefused(w) \/ Finish(w) \/ Fail(w)
            /\ req'[w] = Idle
<1>1. Begin(w) \/ Continue(w) \/ Fail(w)
  BY RequestSteps
<1>2. req \in [Workers -> Request]
  BY DEF BillingInv, TypeOK
<1>3. CASE Begin(w)
  <2>1. PICK u \in Users :
          \/ \E plan \in Plans : CreateCustomer(w, u, plan) \/ RequestPayment(w, u, plan)
          \/ LoadForUpdate(w, u) \/ CancelSubscription(w, u)
          \/ \E verb \in {"suspend", "reactivate"} : LoadForPaypal(w, u, verb)
    BY <1>3 DEF Begin
  <2>2. CASE \E plan \in Plans : CreateCustomer(w, u, plan) \/ RequestPayment(w, u, plan)
    <3>1. ASSUME NEW plan \in Plans, CreateCustomer(w, u, plan)
          PROVE  req'[w].at = "customer"
      BY <1>2, <3>1 DEF CreateCustomer, Idle
    <3>2. ASSUME NEW plan \in Plans, RequestPayment(w, u, plan)  PROVE req'[w].at = "paid"
      BY <1>2, <3>2 DEF RequestPayment, Idle
    <3>. QED  BY <2>2, <3>1, <3>2
  <2>3. CASE LoadForUpdate(w, u)
    <3>1. req'[w].at = "update"
      BY <1>2, <2>3 DEF LoadForUpdate, Idle
    <3>. QED  BY <2>3, <3>1
  <2>4. CASE CancelSubscription(w, u)
    <3>1. req'[w].at = "answer"
      BY <1>2, <2>4 DEF CancelSubscription, Answer, Idle
    <3>. QED  BY <2>4, <3>1
  <2>5. ASSUME NEW verb \in {"suspend", "reactivate"}, LoadForPaypal(w, u, verb)
        PROVE  req'[w].at = verb
    BY <1>2, <2>5 DEF LoadForPaypal, Idle
  <2>. QED  BY <2>1, <2>2, <2>3, <2>4, <2>5
<1>4. CASE Continue(w)
  <2>1. CASE SaveStripeRow(w) \/ SavePaypalRow(w)
    <3>1. req'[w].at = "answer"
      BY <1>2, <2>1 DEF SaveStripeRow, SavePaypalRow, Answer, Idle
    <3>. QED  BY <2>1, <3>1
  <2>2. ASSUME MovePlan(w)  PROVE req'[w].at = "moved"
    BY <1>2, <2>2 DEF MovePlan, Request
  <2>3. ASSUME SuspendProfile(w)  PROVE req'[w].at = "suspended"
    BY <1>2, <2>3 DEF SuspendProfile, Request
  <2>4. ASSUME ReactivateProfile(w)  PROVE req'[w].at = "reactivated"
    BY <1>2, <2>4 DEF ReactivateProfile, Request
  <2>5. ASSUME CreateProfile(w)  PROVE req'[w].at = "profile"
    BY <1>2, <2>5 DEF CreateProfile, Request
  <2>6. CASE SavePlan(w) \/ SaveSuspended(w) \/ SaveReactivated(w)
    <3>1. req'[w].at = "answer"
      BY <1>2, <2>6 DEF SavePlan, SaveSuspended, SaveReactivated, Answer, Idle
    <3>. QED  BY <2>6, <3>1
  <2>7. CASE UpdateRefused(w) \/ PaypalRefused(w) \/ Finish(w)
    <3>1. req'[w] = Idle
      BY <1>2, <2>7 DEF UpdateRefused, PaypalRefused, Finish, Drop
    <3>. QED  BY <2>7, <3>1
  <2>. QED  BY <1>4, <2>1, <2>2, <2>3, <2>4, <2>5, <2>6, <2>7 DEF Continue
<1>5. CASE Fail(w)
  <2>1. req'[w] = Idle
    BY <1>2, <1>5 DEF Fail, Drop
  <2>. QED  BY <1>5, <2>1
<1>. QED  BY <1>1, <1>3, <1>4, <1>5

-----------------------------------------------------------------------------
(* No agreement is lost.                                                   *)

\* A request that holds an agreement saves its row, dies, or goes on holding it.
LEMMA HolderSteps ==
  ASSUME BillingInv, [Next]_vars, NEW w \in Workers, NEW t, Holds(w, t)
  PROVE  Known(t)' \/ req'[w] = Idle
<1>1. w \in Workers /\ req[w].at \in {"customer", "profile"} /\ req[w].token = t
  BY DEF Holds
<1>2. CASE req'[w] = req[w]
  BY <1>1, <1>2 DEF Known, Holds
<1>3. CASE req'[w] # req[w]
  <2>1. Begin(w) \/ Continue(w) \/ Fail(w)
    BY <1>3, RequestSteps
  <2>2. SaveStripeRow(w) \/ SavePaypalRow(w) \/ Fail(w)
    BY <1>1, <2>1 DEF Begin, CreateCustomer, RequestPayment, LoadForUpdate,
         CancelSubscription, LoadForPaypal, Free, Continue, CreateProfile, MovePlan,
         SavePlan, UpdateRefused, SuspendProfile, SaveSuspended, ReactivateProfile,
         SaveReactivated, PaypalRefused, Finish
  <2>3. CASE SaveStripeRow(w)
    <3>1. PICK i \in SubIds \ Saved : Saved' = Saved \cup {i} /\ subs'[i] = CardRow(w)
      BY <2>3, CardRowSaved
    <3>2. i \in Saved' /\ subs'[i].stripe = t
      BY <1>1, <3>1 DEF CardRow
    <3>. QED  BY <3>2 DEF Known
  <2>4. CASE SavePaypalRow(w)
    <3>1. PICK i \in SubIds \ Saved : Saved' = Saved \cup {i} /\ subs'[i] = PaypalRow(w)
      BY <2>4, PaypalRowSaved
    <3>2. i \in Saved' /\ subs'[i].profile = t
      BY <1>1, <3>1 DEF PaypalRow
    <3>. QED  BY <3>2 DEF Known
  <2>5. CASE Fail(w)
    BY <2>5 DEF Fail, Drop, BillingInv, TypeOK
  <2>. QED  BY <2>2, <2>3, <2>4, <2>5
<1>. QED  BY <1>2, <1>3

\* Only the request that signs an agreement makes it signed, and holds it.
LEMMA NewlySigned ==
  ASSUME BillingInv, [Next]_vars, NEW t \in Signed', t \notin Signed
  PROVE  \E w \in Workers : Holds(w, t)'
<1>. USE DEF Signed
<1>1. \/ t \in Customers /\ stripe[t].status = "none" /\ stripe'[t].status # "none"
      \/ t \in Profiles /\ paypal[t].status = "none" /\ paypal'[t].status # "none"
  OBVIOUS
<1>2. ASSUME t \in Customers, stripe[t].status = "none", stripe'[t].status # "none"
      PROVE  \E w \in Workers : Holds(w, t)'
  <2>1. ASSUME NEW w \in Workers, NEW u \in Users, NEW plan \in Plans,
               CreateCustomer(w, u, plan)
        PROVE  Holds(w, t)'
    BY <1>2, <2>1 DEF CreateCustomer, Holds, Idle, BillingInv, TypeOK
  <2>2. ASSUME NEW w \in Workers, MovePlan(w)  PROVE FALSE
    <3>1. /\ req[w].sub \in Saved /\ subs[req[w].sub].stripe = req[w].token
          /\ req[w].token \in Customers
      BY <2>2 DEF MovePlan, BillingInv, RequestsOK, RequestOK
    <3>2. stripe[req[w].token].status # "none"
      BY <3>1, BillingAssumption DEF BillingInv, RowsOK
    <3>. QED  BY <1>2, <2>2, <3>1, <3>2 DEF MovePlan, BillingInv, TypeOK
  <2>3. ASSUME NEW w \in Workers, NEW u \in Users, CancelSubscription(w, u)  PROVE FALSE
    BY <1>2, <2>3 DEF CancelSubscription, Running, BillingInv, TypeOK
  <2>4. ASSUME NEW c \in Customers, StripeEnds(c)  PROVE FALSE
    BY <1>2, <2>4 DEF StripeEnds, Running, BillingInv, TypeOK
  <2>5. ASSUME NEW w \in Workers, Begin(w) \/ Continue(w) \/ Fail(w)
        PROVE  \/ UNCHANGED stripe \/ MovePlan(w)
               \/ \E u \in Users : \/ CancelSubscription(w, u)
                                   \/ \E plan \in Plans : CreateCustomer(w, u, plan)
    BY <2>5 DEF Begin, Continue, Fail, RequestPayment, LoadForUpdate, LoadForPaypal,
         SaveStripeRow, CreateProfile, SavePaypalRow, SavePlan, UpdateRefused,
         SuspendProfile, SaveSuspended, ReactivateProfile, SaveReactivated,
         PaypalRefused, Finish
  <2>6. ~ UNCHANGED stripe
    BY <1>2
  <2>7. Next
    BY <2>6 DEF vars
  <2>8. ~ \E c \in Customers : StripeWebhook(c)
    BY <2>6 DEF StripeWebhook
  <2>9. ~ \E p \in Profiles : PaypalIpn(p) \/ PayerCancels(p)
    BY <2>6 DEF PaypalIpn, PayerCancels
  <2>. QED  BY <2>1, <2>2, <2>3, <2>4, <2>5, <2>6, <2>7, <2>8, <2>9 DEF Next
<1>3. ASSUME t \in Profiles, paypal[t].status = "none", paypal'[t].status # "none"
      PROVE  \E w \in Workers : Holds(w, t)'
  <2>1. ASSUME NEW w \in Workers, CreateProfile(w)  PROVE Holds(w, t)'
    <3>1. req[w] \in Request
      BY DEF BillingInv, TypeOK
    <3>. QED  BY <1>3, <2>1, <3>1 DEF CreateProfile, Holds, Request, BillingInv, TypeOK
  <2>2. ASSUME NEW w \in Workers, SuspendProfile(w) \/ ReactivateProfile(w)  PROVE FALSE
    BY <1>3, <2>2 DEF SuspendProfile, ReactivateProfile, InStatus, BillingInv, TypeOK
  <2>3. ASSUME NEW p \in Profiles, PayerCancels(p)  PROVE FALSE
    BY <1>3, <2>3 DEF PayerCancels, BillingInv, TypeOK
  <2>4. ASSUME NEW w \in Workers, Begin(w) \/ Continue(w) \/ Fail(w)
        PROVE  \/ UNCHANGED paypal
               \/ CreateProfile(w) \/ SuspendProfile(w) \/ ReactivateProfile(w)
    BY <2>4 DEF Begin, Continue, Fail, CreateCustomer, RequestPayment, LoadForUpdate,
         CancelSubscription, LoadForPaypal, SaveStripeRow, SavePaypalRow, MovePlan,
         SavePlan, UpdateRefused, SaveSuspended, SaveReactivated, PaypalRefused, Finish
  <2>5. ~ UNCHANGED paypal
    BY <1>3
  <2>6. Next
    BY <2>5 DEF vars
  <2>7. ~ \E c \in Customers : StripeWebhook(c) \/ StripeEnds(c)
    BY <2>5 DEF StripeWebhook, StripeEnds
  <2>8. ~ \E p \in Profiles : PaypalIpn(p)
    BY <2>5 DEF PaypalIpn
  <2>. QED  BY <2>1, <2>2, <2>3, <2>4, <2>5, <2>6, <2>7, <2>8 DEF Next
<1>. QED  BY <1>1, <1>2, <1>3

\* What a provider bills stays known to the site, unless the request that
\* created it dies before it saved the row: no step of another request loses it.
THEOREM BilledIsKnownTheorem == Spec => BilledIsKnown
<1>1. BillingInv /\ [Next]_vars =>
        [\A t \in Signed' : Known(t)' \/ (t \in Signed /\ ~Known(t))
           \/ \E w \in Workers : Holds(w, t) /\ req'[w] = Idle]_vars
  <2>. SUFFICES ASSUME BillingInv, [Next]_vars, NEW t \in Signed',
                       t \in Signed => Known(t)
                PROVE  Known(t)' \/ \E w \in Workers : Holds(w, t) /\ req'[w] = Idle
    OBVIOUS
  <2>1. CASE t \notin Signed
    BY <2>1, NewlySigned DEF Known
  <2>2. CASE \E i \in Saved : t \in {subs[i].stripe, subs[i].profile}
    BY <2>2, RowKept DEF Known
  <2>3. CASE \E w \in Workers : Holds(w, t)
    BY <2>3, HolderSteps
  <2>. QED  BY <2>1, <2>2, <2>3 DEF Known
<1>. QED  BY <1>1, Invariance, PTL DEF Spec, BilledIsKnown

-----------------------------------------------------------------------------
(* Every PayPal subscription is paid for.                                  *)

\* The profiles of a payer, and the requests of his that paid and have none yet.
Made(u) == {p \in Profiles : paypal[p].payer = u}
Paid(u) == {w \in Workers : req[w].at = "paid" /\ req[w].user = u}

\* Each payment leads to one profile at most, and a row names the payer of its
\* profile.
PayInv ==
  /\ \A u \in Users :
       /\ IsFiniteSet(Made(u)) /\ IsFiniteSet(Paid(u))
       /\ Cardinality(Made(u)) + Cardinality(Paid(u)) <= payments[u]
  /\ \A p \in Profiles : paypal[p].status = "none" => paypal[p].payer = None
  /\ \A i \in Saved : subs[i].profile # None => subs[i].payer = paypal[subs[i].profile].payer
  /\ \A w \in Workers : req[w].at = "profile" => req[w].user = paypal[req[w].token].payer

\* Nothing is made and nothing is paid in the beginning.
LEMMA InitPay == Init => PayInv
<1>. SUFFICES ASSUME Init  PROVE PayInv
  OBVIOUS
<1>1. ASSUME NEW u \in Users
      PROVE  /\ IsFiniteSet(Made(u)) /\ IsFiniteSet(Paid(u))
             /\ Cardinality(Made(u)) + Cardinality(Paid(u)) <= payments[u]
  <2>1. Made(u) = {}
    BY BillingAssumption DEF Init, Made
  <2>2. Paid(u) = {}
    BY DEF Init, Paid, Idle
  <2>3. payments[u] = 0
    BY DEF Init
  <2>. QED  BY <2>1, <2>2, <2>3, FS_EmptySet
<1>2. \A p \in Profiles : paypal[p].status = "none" => paypal[p].payer = None
  BY DEF Init
<1>3. Saved = {}
  BY DEF Init, Saved
<1>4. \A w \in Workers : req[w].at = "idle"
  BY DEF Init, Idle
<1>. QED  BY <1>1, <1>2, <1>3, <1>4 DEF PayInv

\* A step that takes no payment, makes no profile and does not pay keeps it.
LEMMA PayKept ==
  ASSUME BillingInv, PayInv,
         payments' = payments,
         \A p \in Profiles : /\ paypal'[p].payer = paypal[p].payer
                             /\ paypal'[p].status = "none" => paypal[p].status = "none",
         \A i \in Saved' :
           subs'[i].profile # None => subs'[i].payer = paypal[subs'[i].profile].payer,
         \A i \in Saved' : subs'[i].profile \in Profiles \cup {None},
         \A w \in Workers : req'[w] = req[w] \/ req'[w].at \notin {"paid", "profile"}
  PROVE  PayInv'
<1>1. ASSUME NEW u \in Users
      PROVE  /\ IsFiniteSet(Made(u)') /\ IsFiniteSet(Paid(u)')
             /\ Cardinality(Made(u)') + Cardinality(Paid(u)') <= payments'[u]
  <2>1. Made(u)' = Made(u)
    BY DEF Made
  <2>2. Paid(u)' \in SUBSET Paid(u)
    BY DEF Paid
  <2>3. /\ IsFiniteSet(Made(u)) /\ IsFiniteSet(Paid(u))
        /\ Cardinality(Made(u)) + Cardinality(Paid(u)) <= payments[u]
    BY DEF PayInv
  <2>4. IsFiniteSet(Paid(u)') /\ Cardinality(Paid(u)') <= Cardinality(Paid(u))
    BY <2>2, <2>3, FS_Subset
  <2>5. /\ Cardinality(Made(u)) \in Nat /\ Cardinality(Paid(u)) \in Nat
        /\ Cardinality(Paid(u)') \in Nat /\ payments[u] \in Nat
    BY <2>3, <2>4, FS_CardinalityType DEF BillingInv, TypeOK
  <2>. QED  BY <2>1, <2>3, <2>4, <2>5
<1>2. \A p \in Profiles : paypal'[p].status = "none" => paypal'[p].payer = None
  BY DEF PayInv
<1>3. \A i \in Saved' :
        subs'[i].profile # None => subs'[i].payer = paypal'[subs'[i].profile].payer
  OBVIOUS
<1>4. ASSUME NEW w \in Workers, req'[w].at = "profile"
      PROVE  req'[w].user = paypal'[req'[w].token].payer
  <2>1. req'[w] = req[w]
    BY <1>4
  <2>2. req[w].token \in Profiles /\ req[w].user = paypal[req[w].token].payer
    BY <1>4, <2>1 DEF PayInv, BillingInv, RequestsOK, RequestOK
  <2>. QED  BY <2>1, <2>2
<1>. QED  BY <1>1, <1>2, <1>3, <1>4 DEF PayInv

\* A payment is taken before the request pays with it.
LEMMA RequestPaymentPays ==
  ASSUME BillingInv, PayInv, NEW w \in Workers, NEW v \in Users, NEW plan \in Plans,
         RequestPayment(w, v, plan)
  PROVE  PayInv'
<1>1. /\ payments' = [payments EXCEPT ![v] = @ + 1]
      /\ UNCHANGED <<subs, paypal>> /\ req[w].at = "idle"
  BY DEF RequestPayment, Free
<1>2. /\ req'[w].at = "paid" /\ req'[w].user = v
      /\ \A x \in Workers : x # w => req'[x] = req[x]
  BY DEF RequestPayment, Idle, BillingInv, TypeOK
<1>3. ASSUME NEW u \in Users
      PROVE  /\ IsFiniteSet(Made(u)') /\ IsFiniteSet(Paid(u)')
             /\ Cardinality(Made(u)') + Cardinality(Paid(u)') <= payments'[u]
  <2>1. Made(u)' = Made(u)
    BY <1>1 DEF Made
  <2>2. /\ IsFiniteSet(Made(u)) /\ IsFiniteSet(Paid(u))
        /\ Cardinality(Made(u)) + Cardinality(Paid(u)) <= payments[u]
    BY DEF PayInv
  <2>3. /\ Cardinality(Made(u)) \in Nat /\ Cardinality(Paid(u)) \in Nat
        /\ payments[u] \in Nat
    BY <2>2, FS_CardinalityType DEF BillingInv, TypeOK
  <2>4. CASE u = v
    <3>1. Paid(u)' = Paid(u) \cup {w} /\ w \notin Paid(u)
      BY <1>1, <1>2, <2>4 DEF Paid
    <3>2. IsFiniteSet(Paid(u)') /\ Cardinality(Paid(u)') = Cardinality(Paid(u)) + 1
      BY <2>2, <3>1, FS_AddElement
    <3>3. payments'[u] = payments[u] + 1
      BY <1>1, <2>4 DEF BillingInv, TypeOK
    <3>. QED  BY <2>1, <2>2, <2>3, <3>2, <3>3
  <2>5. CASE u # v
    <3>1. Paid(u)' = Paid(u)
      BY <1>1, <1>2, <2>5 DEF Paid
    <3>2. payments'[u] = payments[u]
      BY <1>1, <2>5 DEF BillingInv, TypeOK
    <3>. QED  BY <2>1, <2>2, <3>1, <3>2
  <2>. QED  BY <2>4, <2>5
<1>4. Saved' = Saved
  BY <1>1 DEF Saved
<1>5. \A x \in Workers : req'[x].at = "profile" => req'[x].user = paypal'[req'[x].token].payer
  BY <1>1, <1>2 DEF PayInv
<1>. QED  BY <1>1, <1>3, <1>4, <1>5 DEF PayInv

\* The profile takes the place of the request that paid for it.
LEMMA CreateProfilePays ==
  ASSUME BillingInv, PayInv, NEW w \in Workers, CreateProfile(w)
  PROVE  PayInv'
<1>. DEFINE v == req[w].user
<1>1. PICK p \in Profiles :
        /\ paypal[p].status = "none"
        /\ paypal' = [paypal EXCEPT ![p] = [payer |-> v, status |-> "active"]]
        /\ req' = [req EXCEPT ![w].at = "profile", ![w].token = p]
  BY DEF CreateProfile
<1>2. /\ req[w].at = "paid" /\ v \in Users /\ req[w] \in Request
      /\ UNCHANGED <<subs, payments>>
  BY DEF CreateProfile, BillingInv, TypeOK, RequestsOK, RequestOK
<1>3. /\ req'[w].at = "profile" /\ req'[w].user = v /\ req'[w].token = p
      /\ \A x \in Workers : x # w => req'[x] = req[x]
  BY <1>1, <1>2 DEF Request, BillingInv, TypeOK
<1>4. /\ paypal'[p].payer = v /\ paypal'[p].status = "active"
      /\ \A q \in Profiles : q # p => paypal'[q] = paypal[q]
      /\ paypal[p].payer = None
  BY <1>1 DEF PayInv, BillingInv, TypeOK
<1>. HIDE DEF v
<1>5. ASSUME NEW u \in Users
      PROVE  /\ IsFiniteSet(Made(u)') /\ IsFiniteSet(Paid(u)')
             /\ Cardinality(Made(u)') + Cardinality(Paid(u)') <= payments'[u]
  <2>1. u # None
    BY BillingAssumption
  <2>2. /\ IsFiniteSet(Made(u)) /\ IsFiniteSet(Paid(u))
        /\ Cardinality(Made(u)) + Cardinality(Paid(u)) <= payments[u]
    BY DEF PayInv
  <2>3. /\ Cardinality(Made(u)) \in Nat /\ Cardinality(Paid(u)) \in Nat
        /\ payments[u] \in Nat
    BY <2>2, FS_CardinalityType DEF BillingInv, TypeOK
  <2>4. CASE u = v
    <3>1. Made(u)' = Made(u) \cup {p} /\ p \notin Made(u)
      BY <1>4, <2>1, <2>4 DEF Made
    <3>2. IsFiniteSet(Made(u)') /\ Cardinality(Made(u)') = Cardinality(Made(u)) + 1
      BY <2>2, <3>1, FS_AddElement
    <3>3. Paid(u)' = Paid(u) \ {w} /\ w \in Paid(u)
      BY <1>2, <1>3, <2>4 DEF Paid, v
    <3>4. IsFiniteSet(Paid(u)') /\ Cardinality(Paid(u)') = Cardinality(Paid(u)) - 1
      BY <2>2, <3>3, FS_RemoveElement
    <3>. QED  BY <1>2, <2>2, <2>3, <3>2, <3>4
  <2>5. CASE u # v
    <3>1. Made(u)' = Made(u)
      BY <1>4, <2>1, <2>5 DEF Made
    <3>2. Paid(u)' = Paid(u)
      BY <1>2, <1>3, <2>5 DEF Paid, v
    <3>. QED  BY <1>2, <2>2, <3>1, <3>2
  <2>. QED  BY <2>4, <2>5
<1>6. Saved' = Saved
  BY <1>2 DEF Saved
<1>7. ASSUME NEW i \in Saved, subs[i].profile # None
      PROVE  subs'[i].payer = paypal'[subs'[i].profile].payer
  <2>1. subs[i].profile \in Profiles /\ subs[i].profile # p
    BY <1>1, <1>7, SavedRow DEF Row, BillingInv, RowsOK
  <2>. QED  BY <1>2, <1>4, <1>7, <2>1 DEF PayInv
<1>8. ASSUME NEW x \in Workers, req'[x].at = "profile"
      PROVE  req'[x].user = paypal'[req'[x].token].payer
  <2>1. CASE x = w
    BY <1>3, <1>4, <2>1
  <2>2. CASE x # w
    <3>1. req[x].token \in Profiles /\ req[x].token # p
      BY <1>1, <1>3, <1>8, <2>2 DEF BillingInv, RequestsOK, RequestOK, HeldOK, Fresh
    <3>. QED  BY <1>3, <1>4, <1>8, <2>2, <3>1 DEF PayInv
  <2>. QED  BY <2>1, <2>2
<1>9. \A q \in Profiles : paypal'[q].status = "none" => paypal'[q].payer = None
  BY <1>4 DEF PayInv
<1>. QED  BY <1>2, <1>5, <1>6, <1>7, <1>8, <1>9 DEF PayInv

\* The rows of a step that makes no profile name the payer of their profile.
LEMMA RowPayers ==
  ASSUME BillingInv, PayInv, [Next]_vars, NEW i \in Saved'
  PROVE  /\ subs'[i].profile # None => subs'[i].payer = paypal[subs'[i].profile].payer
         /\ subs'[i].profile \in Profiles \cup {None}
<1>1. CASE i \in Saved
  BY <1>1, RowKept, SavedRow DEF PayInv, Row
<1>2. CASE i \notin Saved
  <2>1. ~ UNCHANGED subs
    BY <1>2 DEF Saved
  <2>2. ~ \E j \in Saved, value \in BOOLEAN : SetCancelled(j, value)
    BY <1>2, CancelledSet DEF BillingInv
  <2>3. ~ \E w \in Workers : SavePlan(w)
    BY <1>2, PlanSaved
  <2>4. ASSUME NEW w \in Workers, SaveStripeRow(w)  PROVE subs'[i].profile = None
    <3>1. subs'[i] = CardRow(w)
      BY <1>2, <2>4, CardRowSaved
    <3>. QED  BY <3>1 DEF CardRow
  <2>5. ASSUME NEW w \in Workers, SavePaypalRow(w)
        PROVE  /\ subs'[i].profile \in Profiles
               /\ subs'[i].payer = paypal[subs'[i].profile].payer
    <3>1. subs'[i] = PaypalRow(w)
      BY <1>2, <2>5, PaypalRowSaved
    <3>2. req[w].token \in Profiles /\ req[w].user = paypal[req[w].token].payer
      BY <2>5 DEF SavePaypalRow, PayInv, BillingInv, RequestsOK, RequestOK
    <3>. QED  BY <3>1, <3>2 DEF PaypalRow
  <2>. QED  BY <2>1, <2>2, <2>3, <2>4, <2>5, RowSteps
<1>. QED  BY <1>1, <1>2

\* A worker that does not take this step's payment or profile pays nothing.
LEMMA PayingRequests ==
  ASSUME BillingInv, [Next]_vars, NEW w \in Workers,
         ~CreateProfile(w), \A u \in Users, plan \in Plans : ~RequestPayment(w, u, plan)
  PROVE  req'[w] = req[w] \/ req'[w].at \notin {"paid", "profile"}
BY StepsLead DEF Idle

\* Only suspend, reactivate and the payer change a profile that is there.
LEMMA ProfilesKept ==
  ASSUME BillingInv, [Next]_vars, \A w \in Workers : ~CreateProfile(w),
         NEW p \in Profiles
  PROVE  /\ paypal'[p].payer = paypal[p].payer
         /\ paypal'[p].status = "none" => paypal[p].status = "none"
<1>1. CASE UNCHANGED paypal
  BY <1>1
<1>2. ASSUME NEW q \in Profiles, NEW status \in {"active", "suspended", "cancelled"},
             paypal' = [paypal EXCEPT ![q].status = status]
      PROVE  /\ paypal'[p].payer = paypal[p].payer
             /\ paypal'[p].status = "none" => paypal[p].status = "none"
  BY <1>2 DEF BillingInv, TypeOK
<1>3. ASSUME NEW w \in Workers, SuspendProfile(w) \/ ReactivateProfile(w)
      PROVE  \E q \in Profiles, status \in {"active", "suspended", "cancelled"} :
               paypal' = [paypal EXCEPT ![q].status = status]
  BY <1>3 DEF SuspendProfile, ReactivateProfile, InStatus
<1>4. ASSUME NEW w \in Workers, Begin(w) \/ Continue(w) \/ Fail(w)
      PROVE  UNCHANGED paypal \/ SuspendProfile(w) \/ ReactivateProfile(w)
  BY <1>4 DEF Begin, Continue, Fail, CreateCustomer, RequestPayment, LoadForUpdate,
       CancelSubscription, LoadForPaypal, SaveStripeRow, SavePaypalRow, MovePlan,
       SavePlan, UpdateRefused, SaveSuspended, SaveReactivated, PaypalRefused, Finish
<1>5. ASSUME NEW c \in Customers, StripeWebhook(c) \/ StripeEnds(c)  PROVE UNCHANGED paypal
  BY <1>5 DEF StripeWebhook, StripeEnds
<1>6. ASSUME NEW q \in Profiles, PaypalIpn(q)  PROVE UNCHANGED paypal
  BY <1>6 DEF PaypalIpn
<1>7. ASSUME NEW q \in Profiles, PayerCancels(q)
      PROVE  \E x \in Profiles, status \in {"active", "suspended", "cancelled"} :
               paypal' = [paypal EXCEPT ![x].status = status]
  BY <1>7 DEF PayerCancels
<1>. QED  BY <1>1, <1>2, <1>3, <1>4, <1>5, <1>6, <1>7 DEF Next, vars

\* Only a checkout takes a payment.
LEMMA PaymentsKept ==
  ASSUME [Next]_vars,
         \A w \in Workers, u \in Users, plan \in Plans : ~RequestPayment(w, u, plan)
  PROVE  payments' = payments
<1>1. ASSUME NEW w \in Workers, Begin(w) \/ Continue(w) \/ Fail(w)
      PROVE  payments' = payments
  BY <1>1 DEF Begin, Continue, Fail, CreateCustomer, LoadForUpdate,
       CancelSubscription, LoadForPaypal, SaveStripeRow, CreateProfile, SavePaypalRow,
       MovePlan, SavePlan, UpdateRefused, SuspendProfile, SaveSuspended,
       ReactivateProfile, SaveReactivated, PaypalRefused, Finish
<1>. QED  BY <1>1 DEF Next, vars, StripeWebhook, StripeEnds, PaypalIpn, PayerCancels

\* Every step keeps payments and profiles in order.
LEMMA NextPay == BillingInv /\ PayInv /\ [Next]_vars => PayInv'
<1>. SUFFICES ASSUME BillingInv, PayInv, [Next]_vars  PROVE PayInv'
  OBVIOUS
<1>1. CASE \E w \in Workers, u \in Users, plan \in Plans : RequestPayment(w, u, plan)
  BY <1>1, RequestPaymentPays
<1>2. CASE \E w \in Workers : CreateProfile(w)
  BY <1>2, CreateProfilePays
<1>3. CASE /\ \A w \in Workers : ~CreateProfile(w)
           /\ \A w \in Workers, u \in Users, plan \in Plans : ~RequestPayment(w, u, plan)
  BY <1>3, PaymentsKept, ProfilesKept, RowPayers, PayingRequests, PayKept
<1>. QED  BY <1>1, <1>2, <1>3

\* Payments, profiles and rows stay in order.
THEOREM PayInvariance == Spec => []PayInv
BY InitPay, NextPay, Invariance, PTL DEF Spec

\* A PayPal row comes after a profile of its payer and a profile after a
\* payment, however many checkouts overlap, die or are tried again.
THEOREM PaypalIsPaidForTheorem == Spec => []PaypalIsPaidFor
<1>1. BillingInv /\ PayInv => PaypalIsPaidFor
  <2>. SUFFICES ASSUME BillingInv, PayInv, NEW u \in Users
                PROVE  /\ Cardinality(SubsOfPayer(u)) <= Cardinality(Made(u))
                       /\ Cardinality(Made(u)) <= payments[u]
    BY DEF PaypalIsPaidFor, Made
  <2>1. /\ IsFiniteSet(Made(u)) /\ IsFiniteSet(Paid(u))
        /\ Cardinality(Made(u)) + Cardinality(Paid(u)) <= payments[u]
    BY DEF PayInv
  <2>2. /\ Cardinality(Made(u)) \in Nat /\ Cardinality(Paid(u)) \in Nat
        /\ payments[u] \in Nat
    BY <2>1, FS_CardinalityType DEF BillingInv, TypeOK
  <2>. DEFINE profile == [i \in SubsOfPayer(u) |-> subs[i].profile]
  <2>3. ASSUME NEW i \in SubsOfPayer(u)
        PROVE  i \in Saved /\ subs[i].profile \in Made(u) /\ subs[i].profile # None
    <3>1. i \in Saved /\ subs[i].payer = u /\ u # None
      BY BillingAssumption DEF SubsOfPayer
    <3>2. subs[i].profile \in Profiles /\ subs[i].profile # None
      BY <3>1, SavedRow DEF Row, BillingInv, RowsOK
    <3>. QED  BY <3>1, <3>2 DEF Made, PayInv
  <2>4. \A i, j \in SubsOfPayer(u) : subs[i].profile = subs[j].profile => i = j
    BY <2>3 DEF BillingInv, TokensNameOneRow
  <2>5. profile \in Injection(SubsOfPayer(u), Made(u))
    BY <2>3, <2>4 DEF Injection, IsInjective
  <2>6. Cardinality(SubsOfPayer(u)) <= Cardinality(Made(u))
    BY <2>1, <2>5, FS_Injection
  <2>. QED  BY <2>1, <2>2, <2>6
<1>. QED  BY <1>1, Invariance, PayInvariance, PTL

-----------------------------------------------------------------------------
(* Changes of plan.                                                        *)

\* Who changes the plan Stripe knows.
LEMMA PlanSteps ==
  ASSUME BillingInv, [Next]_vars, NEW c \in Customers, stripe'[c].plan # stripe[c].plan
  PROVE  \/ \E w \in Workers : /\ MovePlan(w) /\ req[w].token = c
         \/ /\ stripe[c].status = "none"
            /\ \E w \in Workers, u \in Users, plan \in Plans : CreateCustomer(w, u, plan)
<1>1. stripe' # stripe /\ Next
  BY DEF vars
<1>2. ASSUME NEW w \in Workers, NEW u \in Users, CancelSubscription(w, u)  PROVE FALSE
  BY <1>2 DEF CancelSubscription, BillingInv, TypeOK
<1>3. ASSUME NEW d \in Customers, StripeEnds(d)  PROVE FALSE
  BY <1>3 DEF StripeEnds, BillingInv, TypeOK
<1>4. ASSUME NEW w \in Workers, NEW u \in Users, NEW plan \in Plans,
             CreateCustomer(w, u, plan)
      PROVE  stripe[c].status = "none"
  BY <1>4 DEF CreateCustomer, BillingInv, TypeOK
<1>5. ASSUME NEW w \in Workers, MovePlan(w)  PROVE req[w].token = c
  BY <1>5 DEF MovePlan, BillingInv, TypeOK
<1>6. ASSUME NEW w \in Workers, Begin(w) \/ Continue(w) \/ Fail(w)
      PROVE  \/ MovePlan(w)
             \/ \E u \in Users : \/ CancelSubscription(w, u)
                                 \/ \E plan \in Plans : CreateCustomer(w, u, plan)
  BY <1>1, <1>6 DEF Begin, Continue, Fail, RequestPayment, LoadForUpdate, LoadForPaypal,
       SaveStripeRow, CreateProfile, SavePaypalRow, SavePlan, UpdateRefused,
       SuspendProfile, SaveSuspended, ReactivateProfile, SaveReactivated,
       PaypalRefused, Finish
<1>7. ~ \E d \in Customers : StripeWebhook(d)
  BY <1>1 DEF StripeWebhook
<1>8. ~ \E p \in Profiles : PaypalIpn(p) \/ PayerCancels(p)
  BY <1>1 DEF PaypalIpn, PayerCancels
<1>. QED  BY <1>1, <1>2, <1>3, <1>4, <1>5, <1>6, <1>7, <1>8 DEF Next

\* Stripe knows the plan of a row that is still to be saved.
PlanInv ==
  \A w \in Workers :
    req[w].at = "customer" => stripe[req[w].token].plan = req[w].plan

\* No request is under way in the beginning.
LEMMA InitPlan == Init => PlanInv
BY DEF Init, PlanInv, Idle

\* A change of plan is about a customer that has a row, and none is held.
LEMMA NextPlan == BillingInv /\ PlanInv /\ [Next]_vars => PlanInv'
<1>. SUFFICES ASSUME BillingInv, PlanInv, [Next]_vars, NEW w \in Workers,
                     req'[w].at = "customer"
              PROVE  stripe'[req'[w].token].plan = req'[w].plan
  BY DEF PlanInv
<1>1. CASE req'[w] = req[w]
  <2>1. /\ req[w].token \in Customers /\ SubsOfCustomer(req[w].token) = {}
        /\ stripe[req[w].token].status # "none"
    BY <1>1 DEF BillingInv, RequestsOK, RequestOK, HeldOK, Fresh, Running
  <2>2. ASSUME NEW v \in Workers, MovePlan(v), req[v].token = req[w].token  PROVE FALSE
    BY <2>1, <2>2 DEF MovePlan, BillingInv, RequestsOK, RequestOK, SubsOfCustomer
  <2>3. stripe'[req[w].token].plan = stripe[req[w].token].plan
    BY <2>1, <2>2, PlanSteps
  <2>. QED  BY <1>1, <2>3 DEF PlanInv
<1>2. CASE req'[w] # req[w]
  <2>1. ASSUME NEW u \in Users, NEW plan \in Plans, CreateCustomer(w, u, plan)
        PROVE  stripe'[req'[w].token].plan = req'[w].plan
    BY <2>1 DEF CreateCustomer, Idle, BillingInv, TypeOK
  <2>2. \E u \in Users, plan \in Plans : CreateCustomer(w, u, plan)
    BY <1>2, StepsLead DEF Idle
  <2>. QED  BY <2>1, <2>2
<1>. QED  BY <1>1, <1>2

\* What is held stays known to Stripe with its plan.
THEOREM PlanInvariance == Spec => []PlanInv
BY InitPlan, NextPlan, Invariance, PTL DEF Spec

\* A plan that is written is the one Stripe bills, unless another change of it
\* was quicker.
LEMMA SavedPlanAgrees ==
  ASSUME BillingInv, NEW w \in Workers, SavePlan(w), ~PlanOvertaken(w)
  PROVE  LET i == req[w].sub IN
           subs'[i].plan = stripe'[subs'[i].stripe].plan
<1>1. /\ req[w].at = "moved" /\ subs[req[w].sub].stripe = req[w].token
      /\ UNCHANGED stripe
  BY DEF SavePlan, BillingInv, RequestsOK, RequestOK
<1>2. stripe[req[w].token].plan = OtherPlan(req[w].plan)
  BY <1>1 DEF PlanOvertaken
<1>. QED  BY <1>1, <1>2, PlanSaved

\* Where a request goes that has moved the plan.
LEMMA MovedSteps ==
  ASSUME BillingInv, [Next]_vars, NEW w \in Workers, req[w].at = "moved",
         req'[w] # req[w]
  PROVE  req'[w] = Idle \/ (SavePlan(w) /\ req'[w].at = "answer")
BY StepsLead DEF CreateCustomer, RequestPayment, LoadForUpdate, LoadForPaypal,
     CancelSubscription, Free, CreateProfile, MovePlan, SuspendProfile,
     ReactivateProfile, SaveStripeRow, SavePaypalRow, SaveSuspended, SaveReactivated

\* A request that moves the plan of row i is about to write what Stripe bills.
LEMMA MovedAgrees ==
  ASSUME BillingInv, NEW w \in Workers, MovePlan(w)
  PROVE  /\ req[w].at = "update" /\ req'[w].at = "moved" /\ req'[w].sub = req[w].sub
         /\ ~PlanOvertaken(w)'
<1>1. /\ req[w] \in Request /\ req[w].token \in Customers
      /\ req'[w] = [req[w] EXCEPT !.at = "moved"]
      /\ stripe'[req[w].token].plan = OtherPlan(req[w].plan)
  BY DEF MovePlan, BillingInv, TypeOK
<1>2. /\ req'[w].at = "moved" /\ req'[w].sub = req[w].sub
      /\ req'[w].token = req[w].token /\ req'[w].plan = req[w].plan
  BY <1>1 DEF Request
<1>. QED  BY <1>1, <1>2 DEF MovePlan, PlanOvertaken

\* A request is overtaken by one that moves the plan of the same row.
LEMMA PlanRace ==
  ASSUME BillingInv, [Next]_vars, NEW w \in Workers,
         ~PlanOvertaken(w), PlanOvertaken(w)'
  PROVE  \E v \in Workers \ {w} :
           /\ req[v].sub = req[w].sub
           /\ req[v].at = "update" /\ req'[v].at = "moved"
<1>1. req'[w].at = "moved"
  BY DEF PlanOvertaken
<1>2. ~MovePlan(w)
  BY MovedAgrees
<1>3. req'[w] = req[w]
  <2>. SUFFICES ASSUME req'[w] # req[w]  PROVE FALSE
    OBVIOUS
  <2>. QED  BY <1>1, <1>2, StepsLead DEF Idle
<1>4. /\ req[w].token \in Customers /\ req[w].sub \in Saved
      /\ subs[req[w].sub].stripe = req[w].token
  BY <1>1, <1>3 DEF BillingInv, RequestsOK, RequestOK
<1>5. stripe[req[w].token].status # "none"
  BY <1>4, BillingAssumption DEF BillingInv, RowsOK
<1>6. stripe'[req[w].token].plan # stripe[req[w].token].plan
  BY <1>1, <1>3 DEF PlanOvertaken
<1>7. PICK v \in Workers : MovePlan(v) /\ req[v].token = req[w].token
  BY <1>4, <1>5, <1>6, PlanSteps
<1>8. req[v].sub \in Saved /\ subs[req[v].sub].stripe = req[v].token
  BY <1>7 DEF MovePlan, BillingInv, RequestsOK, RequestOK
<1>9. req[v].sub = req[w].sub
  BY <1>4, <1>7, <1>8, BillingAssumption DEF BillingInv, TokensNameOneRow
<1>. QED  BY <1>2, <1>7, <1>9, MovedAgrees

\* A row and Stripe come to differ about the plan only by a request that died
\* between the two, or by one that was overtaken there.
LEMMA PlanLost ==
  ASSUME BillingInv, PlanInv, [Next]_vars, NEW i \in SubIds,
         PlanAgrees(i), ~PlanAgrees(i)'
  PROVE  \/ DiesAt({"moved"}, i)
         \/ \E w \in Workers : PlanOvertaken(w) /\ AnsweredAt(w, i)
<1>1. /\ i \in Saved' /\ subs'[i].stripe # None
      /\ subs'[i].plan # stripe'[subs'[i].stripe].plan
      /\ \A w \in Workers :
           req'[w].at = "moved" /\ req'[w].sub = i => PlanOvertaken(w)'
  BY DEF PlanAgrees
<1>. SUFFICES ASSUME ~ \E w \in Workers : PlanOvertaken(w) /\ AnsweredAt(w, i)
              PROVE  DiesAt({"moved"}, i)
  OBVIOUS
<1>2. ASSUME NEW w \in Workers, SavePlan(w)  PROVE req[w].sub # i
  <2>. SUFFICES ASSUME req[w].sub = i  PROVE FALSE
    OBVIOUS
  <2>1. req'[w].at = "answer"
    BY <1>2 DEF SavePlan, Answer, Idle, BillingInv, TypeOK
  <2>2. ~PlanOvertaken(w)
    BY <2>1 DEF AnsweredAt
  <2>. QED  BY <1>1, <1>2, <2>2, SavedPlanAgrees
<1>3. CASE i \notin Saved
  <2>1. ~ UNCHANGED subs
    BY <1>1, <1>3 DEF Saved
  <2>2. ~ \E j \in Saved, value \in BOOLEAN : SetCancelled(j, value)
    BY <1>1, <1>3, CancelledSet DEF BillingInv
  <2>3. ~ \E w \in Workers : SavePlan(w)
    BY <1>1, <1>3, PlanSaved
  <2>4. ASSUME NEW w \in Workers, SaveStripeRow(w)  PROVE FALSE
    <3>1. subs'[i] = CardRow(w)
      BY <1>1, <1>3, <2>4, CardRowSaved
    <3>2. stripe[req[w].token].plan = req[w].plan /\ UNCHANGED stripe
      BY <2>4 DEF SaveStripeRow, PlanInv
    <3>. QED  BY <1>1, <3>1, <3>2 DEF CardRow
  <2>5. ASSUME NEW w \in Workers, SavePaypalRow(w)  PROVE FALSE
    <3>1. subs'[i] = PaypalRow(w)
      BY <1>1, <1>3, <2>5, PaypalRowSaved
    <3>. QED  BY <1>1, <3>1 DEF PaypalRow
  <2>. QED  BY <2>1, <2>2, <2>3, <2>4, <2>5, RowSteps
<1>4. CASE i \in Saved
  <2>. DEFINE c == subs[i].stripe
  <2>1. c \in Customers /\ subs'[i].stripe = c /\ stripe[c].status # "none"
    BY <1>1, <1>4, RowKept, SavedRow DEF Row, BillingInv, RowsOK
  <2>2. ASSUME NEW w \in Workers, MovePlan(w), req[w].token = c  PROVE FALSE
    <3>1. req[w].sub \in Saved /\ subs[req[w].sub].stripe = c
      BY <2>2 DEF MovePlan, BillingInv, RequestsOK, RequestOK
    <3>2. req[w].sub = i
      BY <1>1, <1>4, <2>1, <3>1 DEF BillingInv, TokensNameOneRow
    <3>. QED  BY <1>1, <2>2, <3>2, MovedAgrees
  <2>3. stripe'[c].plan = stripe[c].plan
    BY <2>1, <2>2, PlanSteps
  <2>4. CASE \E w \in Workers :
               req[w].at = "moved" /\ req[w].sub = i /\ ~PlanOvertaken(w)
    <3>1. PICK w \in Workers :
            req[w].at = "moved" /\ req[w].sub = i /\ ~PlanOvertaken(w)
      BY <2>4
    <3>2. req[w].token = c
      BY <1>4, <3>1 DEF BillingInv, RequestsOK, RequestOK
    <3>3. req'[w] # req[w]
      BY <1>1, <2>3, <3>1, <3>2 DEF PlanOvertaken
    <3>4. req'[w] = Idle
      BY <1>2, <3>1, <3>3, MovedSteps
    <3>. QED  BY <3>1, <3>4 DEF DiesAt
  <2>5. CASE subs[i].plan = stripe[c].plan
    <3>1. subs'[i].plan # subs[i].plan
      BY <1>1, <2>1, <2>3, <2>5
    <3>2. ~ UNCHANGED subs
      BY <3>1
    <3>3. ~ \E j \in Saved, value \in BOOLEAN : SetCancelled(j, value)
      BY <1>4, <3>1, CancelledSet DEF BillingInv
    <3>4. ~ \E w \in Workers : SaveStripeRow(w)
      BY <1>4, <3>1, CardRowSaved
    <3>5. ~ \E w \in Workers : SavePaypalRow(w)
      BY <1>4, <3>1, PaypalRowSaved
    <3>6. ~ \E w \in Workers : SavePlan(w)
      BY <1>2, <1>4, <3>1, PlanSaved
    <3>. QED  BY <3>2, <3>3, <3>4, <3>5, <3>6, RowSteps
  <2>. QED  BY <1>1, <1>4, <2>1, <2>4, <2>5 DEF PlanAgrees
<1>. QED  BY <1>3, <1>4

\* However many requests change plans at once, the plan of a row is lost only
\* by a death between two calls or by another change that came between them.
THEOREM PlanLostByDeathOrRaceTheorem == Spec => PlanLostByDeathOrRace
<1>1. BillingInv /\ PlanInv /\ [Next]_vars =>
        [/\ \A i \in SubIds :
              PlanAgrees(i) /\ ~PlanAgrees(i)' =>
                \/ DiesAt({"moved"}, i)
                \/ \E w \in Workers : PlanOvertaken(w) /\ AnsweredAt(w, i)
         /\ \A w \in Workers :
              ~PlanOvertaken(w) /\ PlanOvertaken(w)' =>
                \E v \in Workers \ {w} :
                  /\ req[v].sub = req[w].sub
                  /\ req[v].at = "update" /\ req'[v].at = "moved"]_vars
  BY PlanLost, PlanRace
<1>. QED  BY <1>1, Invariance, PlanInvariance, PTL DEF Spec, PlanLostByDeathOrRace

-----------------------------------------------------------------------------
(* Suspend and reactivate.                                                 *)

\* Who changes a profile.
LEMMA ProfileSteps ==
  ASSUME BillingInv, [Next]_vars, NEW p \in Profiles, paypal'[p] # paypal[p]
  PROVE  \/ \E w \in Workers :
              \/ /\ SuspendProfile(w) /\ req[w].token = p
                 /\ paypal[p].status = "active" /\ paypal'[p].status = "suspended"
              \/ /\ ReactivateProfile(w) /\ req[w].token = p
                 /\ paypal[p].status = "suspended" /\ paypal'[p].status = "active"
              \/ /\ CreateProfile(w) /\ paypal[p].status = "none"
                 /\ paypal'[p].status = "active"
         \/ /\ PayerCancels(p) /\ paypal'[p].status = "cancelled"
            /\ paypal[p].status \in {"active", "suspended"}
<1>1. paypal' # paypal /\ Next
  BY DEF vars
<1>2. ASSUME NEW w \in Workers, SuspendProfile(w)
      PROVE  /\ req[w].token = p
             /\ paypal[p].status = "active" /\ paypal'[p].status = "suspended"
  BY <1>2 DEF SuspendProfile, InStatus, BillingInv, TypeOK
<1>3. ASSUME NEW w \in Workers, ReactivateProfile(w)
      PROVE  /\ req[w].token = p
             /\ paypal[p].status = "suspended" /\ paypal'[p].status = "active"
  BY <1>3 DEF ReactivateProfile, InStatus, BillingInv, TypeOK
<1>4. ASSUME NEW w \in Workers, CreateProfile(w)
      PROVE  paypal[p].status = "none" /\ paypal'[p].status = "active"
  BY <1>4 DEF CreateProfile, BillingInv, TypeOK
<1>5. ASSUME NEW q \in Profiles, PayerCancels(q)
      PROVE  /\ q = p /\ paypal'[p].status = "cancelled"
             /\ paypal[p].status \in {"active", "suspended"}
  BY <1>5 DEF PayerCancels, BillingInv, TypeOK
<1>6. ASSUME NEW w \in Workers, Begin(w) \/ Continue(w) \/ Fail(w)
      PROVE  SuspendProfile(w) \/ ReactivateProfile(w) \/ CreateProfile(w)
  BY <1>1, <1>6 DEF Begin, Continue, Fail, CreateCustomer, RequestPayment, LoadForUpdate,
       CancelSubscription, LoadForPaypal, SaveStripeRow, SavePaypalRow, MovePlan,
       SavePlan, UpdateRefused, SaveSuspended, SaveReactivated, PaypalRefused, Finish
<1>7. ~ \E c \in Customers : StripeWebhook(c) \/ StripeEnds(c)
  BY <1>1 DEF StripeWebhook, StripeEnds
<1>8. ~ \E q \in Profiles : PaypalIpn(q)
  BY <1>1 DEF PaypalIpn
<1>. QED  BY <1>1, <1>2, <1>3, <1>4, <1>5, <1>6, <1>7, <1>8 DEF Next

\* Who sends and who takes in the news of PayPal.
LEMMA NewsSteps ==
  ASSUME [Next]_vars, NEW p
  PROVE  /\ p \in ipns /\ p \notin ipns' => p \in Profiles /\ PaypalIpn(p)
         /\ p \notin ipns /\ p \in ipns' => p \in Profiles /\ PayerCancels(p)
<1>1. ASSUME NEW w \in Workers, Begin(w) \/ Continue(w) \/ Fail(w)  PROVE UNCHANGED ipns
  BY <1>1 DEF Begin, Continue, Fail, CreateCustomer, RequestPayment, LoadForUpdate,
       CancelSubscription, LoadForPaypal, SaveStripeRow, CreateProfile, SavePaypalRow,
       MovePlan, SavePlan, UpdateRefused, SuspendProfile, SaveSuspended,
       ReactivateProfile, SaveReactivated, PaypalRefused, Finish
<1>2. ASSUME NEW c \in Customers, StripeWebhook(c) \/ StripeEnds(c)  PROVE UNCHANGED ipns
  BY <1>2 DEF StripeWebhook, StripeEnds
<1>3. ASSUME NEW q \in Profiles, PaypalIpn(q)  PROVE ipns' \in {ipns, ipns \ {q}}
  BY <1>3 DEF PaypalIpn
<1>4. ASSUME NEW q \in Profiles, PayerCancels(q)  PROVE ipns' = ipns \cup {q}
  BY <1>4 DEF PayerCancels
<1>5. CASE UNCHANGED vars
  BY <1>5 DEF vars
<1>6. CASE Next
  BY <1>6, <1>1, <1>2, <1>3, <1>4 DEF Next
<1>. QED  BY <1>5, <1>6

\* Who opens and closes a row.
LEMMA CancelledSteps ==
  ASSUME BillingInv, [Next]_vars, NEW i \in Saved,
         subs'[i].cancelled # subs[i].cancelled
  PROVE  \/ \E w \in Workers : /\ SaveSuspended(w) \/ SaveReactivated(w)
                               /\ req[w].sub = i
         \/ \E p \in Profiles : PaypalIpn(p) /\ subs[i].payer = paypal[p].payer
         \/ \E c \in Customers : StripeWebhook(c) /\ subs[i].stripe = c
<1>1. subs' # subs /\ Next
  BY DEF vars
<1>2. ASSUME NEW j \in Saved, NEW value \in BOOLEAN, SetCancelled(j, value)
      PROVE  j = i
  BY <1>2, CancelledSet DEF BillingInv
<1>3. ASSUME NEW w \in Workers, SaveSuspended(w) \/ SaveReactivated(w)
      PROVE  req[w].sub = i
  <2>1. req[w].sub \in Saved
    BY <1>3, PaypalRowChanged DEF SaveSuspended, SaveReactivated
  <2>2. \E value \in BOOLEAN : SetCancelled(req[w].sub, value)
    BY <1>1, <1>3 DEF SaveSuspended, SaveReactivated
  <2>. QED  BY <1>2, <2>1, <2>2
<1>4. ASSUME NEW p \in Profiles, PaypalIpn(p)  PROVE subs[i].payer = paypal[p].payer
  BY <1>1, <1>2, <1>4 DEF PaypalIpn, SubsOfPayer
<1>5. ASSUME NEW c \in Customers, StripeWebhook(c)  PROVE subs[i].stripe = c
  BY <1>1, <1>2, <1>5 DEF StripeWebhook, SubsOfCustomer
<1>6. ASSUME NEW w \in Workers, SaveStripeRow(w)  PROVE FALSE
  BY <1>6, CardRowSaved
<1>7. ASSUME NEW w \in Workers, SavePaypalRow(w)  PROVE FALSE
  BY <1>7, PaypalRowSaved
<1>8. ASSUME NEW w \in Workers, SavePlan(w)  PROVE FALSE
  BY <1>8, PlanSaved
<1>9. ASSUME NEW w \in Workers, Begin(w) \/ Continue(w) \/ Fail(w)
      PROVE  \/ SaveStripeRow(w) \/ SavePaypalRow(w) \/ SavePlan(w)
             \/ SaveSuspended(w) \/ SaveReactivated(w)
  BY <1>1, <1>9 DEF Begin, Continue, Fail, CreateCustomer, RequestPayment, LoadForUpdate,
       CancelSubscription, LoadForPaypal, CreateProfile, MovePlan, UpdateRefused,
       SuspendProfile, ReactivateProfile, PaypalRefused, Finish
<1>10. ~ \E c \in Customers : StripeEnds(c)
  BY <1>1 DEF StripeEnds
<1>11. ~ \E p \in Profiles : PayerCancels(p)
  BY <1>1 DEF PayerCancels
<1>. QED  BY <1>1, <1>3, <1>4, <1>5, <1>6, <1>7, <1>8, <1>9, <1>10, <1>11 DEF Next

\* News is of profiles that are cancelled, and a profile whose row is still to
\* be saved is active: no row names it, so nobody can have suspended it.
PaypalInv ==
  /\ \A p \in ipns : paypal[p].status = "cancelled"
  /\ \A w \in Workers : req[w].at = "profile" => paypal[req[w].token].status = "active"

\* No request and no news is under way in the beginning.
LEMMA InitPaypal == Init => PaypalInv
BY DEF Init, PaypalInv, Idle

\* News is only of profiles that are cancelled, and these stay so.
LEMMA NextNews ==
  ASSUME BillingInv, PaypalInv, [Next]_vars, NEW p \in ipns'
  PROVE  paypal'[p].status = "cancelled"
<1>1. p \in Profiles
  BY NextInv DEF BillingInv, TypeOK
<1>2. CASE p \in ipns
  <2>1. paypal[p].status = "cancelled"
    BY <1>2 DEF PaypalInv
  <2>. QED  BY <1>1, <2>1, ProfileSteps
<1>3. CASE p \notin ipns
  BY <1>1, <1>3, NewsSteps DEF PayerCancels, BillingInv, TypeOK
<1>. QED  BY <1>2, <1>3

\* A profile that is changed by suspend or reactivate has the row they loaded.
LEMMA ProfileHasRow ==
  ASSUME BillingInv, NEW v \in Workers,
         req[v].at \in {"suspend", "suspended", "reactivate", "reactivated"},
         req[v].token \in Profiles
  PROVE  /\ req[v].sub \in Saved /\ subs[req[v].sub].profile = req[v].token
         /\ \A i \in Saved : subs[i].profile = req[v].token => i = req[v].sub
<1>1. req[v].sub \in Saved /\ subs[req[v].sub].profile = req[v].token
  BY DEF BillingInv, RequestsOK, RequestOK
<1>. QED  BY <1>1, BillingAssumption DEF BillingInv, TokensNameOneRow

\* Every step keeps what is known of a profile without a row.
LEMMA NextPaypal == BillingInv /\ PaypalInv /\ [Next]_vars => PaypalInv'
<1>. SUFFICES ASSUME BillingInv, PaypalInv, [Next]_vars, NEW w \in Workers,
                     req'[w].at = "profile"
              PROVE  paypal'[req'[w].token].status = "active"
  BY NextNews DEF PaypalInv
<1>1. CASE req'[w] = req[w]
  <2>1. /\ req[w].token \in Profiles /\ Holds(w, req[w].token)
        /\ paypal[req[w].token].status = "active"
        /\ \A i \in Saved : subs[i].profile # req[w].token
    BY <1>1 DEF BillingInv, RequestsOK, RequestOK, HeldOK, Fresh, PaypalInv, Holds
  <2>2. ASSUME NEW v \in Workers, SuspendProfile(v) \/ ReactivateProfile(v),
               req[v].token = req[w].token
        PROVE  FALSE
    BY <2>1, <2>2, ProfileHasRow DEF SuspendProfile, ReactivateProfile
  <2>3. ~PayerCancels(req[w].token)
    BY <2>1 DEF PayerCancels
  <2>4. paypal'[req[w].token] = paypal[req[w].token]
    BY <2>1, <2>2, <2>3, ProfileSteps
  <2>. QED  BY <1>1, <2>1, <2>4
<1>2. CASE req'[w] # req[w]
  <2>1. CreateProfile(w)
    BY <1>2, StepsLead DEF Idle
  <2>. QED  BY <2>1 DEF CreateProfile, BillingInv, TypeOK, Request
<1>. QED  BY <1>1, <1>2

\* What is known of news and of profiles without a row stays right.
THEOREM PaypalInvariance == Spec => []PaypalInv
BY InitPaypal, NextPaypal, Invariance, PTL DEF Spec

\* suspend leaves a closed row of a profile that is not active, unless another
\* worker changed one of the two in between ...
LEMMA ClosedBySuspend ==
  ASSUME BillingInv, NEW w \in Workers, SaveSuspended(w), ~PaypalOvertaken(w)
  PROVE  /\ subs'[req[w].sub].cancelled
         /\ paypal'[req[w].token].status # "active"
<1>1. /\ req[w].sub \in Saved /\ req[w].token \in Profiles
      /\ req[w].seen = subs[req[w].sub].cancelled
      /\ paypal[req[w].token].status # "active" /\ UNCHANGED paypal
  BY PaypalRowChanged DEF SaveSuspended, PaypalOvertaken
<1>2. CASE req[w].seen
  BY <1>1, <1>2 DEF SaveSuspended
<1>3. CASE ~req[w].seen
  BY <1>1, <1>3, CancelledSet DEF SaveSuspended, BillingInv
<1>. QED  BY <1>1, <1>2, <1>3

\* ... and reactivate an open row of one that is active, or of which PayPal has
\* sent the news that the payer left.
LEMMA OpenedByReactivate ==
  ASSUME BillingInv, NEW w \in Workers, SaveReactivated(w), ~PaypalOvertaken(w)
  PROVE  /\ ~subs'[req[w].sub].cancelled
         /\ paypal'[req[w].token].status = "active" \/ req[w].token \in ipns
<1>1. /\ req[w].sub \in Saved /\ req[w].token \in Profiles
      /\ req[w].seen = subs[req[w].sub].cancelled
      /\ paypal[req[w].token].status = "active" \/ req[w].token \in ipns
      /\ UNCHANGED paypal
  BY PaypalRowChanged DEF SaveReactivated, PaypalOvertaken
<1>2. CASE req[w].seen
  BY <1>1, <1>2, CancelledSet DEF SaveReactivated, BillingInv
<1>3. CASE ~req[w].seen
  BY <1>1, <1>3 DEF SaveReactivated
<1>. QED  BY <1>1, <1>2, <1>3

\* No request overtakes itself: what it loads is the row as it is, and what it
\* moves to at PayPal is where it leaves the profile.
LEMMA OwnStepAgrees ==
  ASSUME BillingInv, [Next]_vars, NEW w \in Workers, req'[w] # req[w],
         ~PaypalOvertaken(w)
  PROVE  ~PaypalOvertaken(w)'
<1>. SUFFICES ASSUME req'[w].at \in {"suspend", "suspended", "reactivate", "reactivated"}
              PROVE  ~PaypalOvertaken(w)'
  BY DEF PaypalOvertaken
<1>1. ASSUME NEW u \in Users, NEW verb \in {"suspend", "reactivate"},
             LoadForPaypal(w, u, verb)
      PROVE  ~PaypalOvertaken(w)'
  <2>1. PICK i \in SubsOf(u) :
          req' = [req EXCEPT ![w] = [Idle EXCEPT !.at = verb, !.user = u, !.sub = i,
                    !.seen = subs[i].cancelled, !.token = subs[i].profile]]
    BY <1>1 DEF LoadForPaypal
  <2>2. /\ req'[w].at = verb /\ req'[w].sub = i /\ req'[w].seen = subs[i].cancelled
        /\ UNCHANGED subs
    BY <1>1, <2>1 DEF LoadForPaypal, Idle, BillingInv, TypeOK
  <2>. QED  BY <2>2 DEF PaypalOvertaken
<1>2. ASSUME SuspendProfile(w) \/ ReactivateProfile(w)  PROVE ~PaypalOvertaken(w)'
  <2>1. /\ req[w] \in Request /\ req[w].token \in Profiles /\ UNCHANGED subs
        /\ req[w].at \in {"suspend", "reactivate"}
    BY <1>2 DEF SuspendProfile, ReactivateProfile, InStatus, BillingInv, TypeOK
  <2>2. /\ req'[w].token = req[w].token /\ req'[w].sub = req[w].sub
        /\ req'[w].seen = req[w].seen
        /\ \/ /\ req'[w].at = "suspended"
              /\ paypal'[req[w].token].status = "suspended"
           \/ /\ req'[w].at = "reactivated"
              /\ paypal'[req[w].token].status = "active"
    BY <1>2, <2>1 DEF SuspendProfile, ReactivateProfile, BillingInv, TypeOK, Request
  <2>3. req[w].seen = subs[req[w].sub].cancelled
    BY <2>1 DEF PaypalOvertaken
  <2>. QED  BY <2>1, <2>2, <2>3 DEF PaypalOvertaken
<1>. QED  BY <1>1, <1>2, StepsLead DEF Idle

\* A request is overtaken by one of another worker about the same row, or by
\* news of the payer that another worker takes in.
LEMMA PaypalOvertakenByRace ==
  ASSUME BillingInv, PayInv, [Next]_vars, NEW w \in Workers,
         ~PaypalOvertaken(w), PaypalOvertaken(w)'
  PROVE  PaypalRace(w)
<1>. DEFINE i == req[w].sub
            p == req[w].token
<1>1. req'[w] = req[w]
  BY OwnStepAgrees
<1>2. /\ req[w].at \in {"suspend", "suspended", "reactivate", "reactivated"}
      /\ p \in Profiles
  BY <1>1 DEF PaypalOvertaken, BillingInv, RequestsOK, RequestOK
<1>3. /\ i \in Saved /\ subs[i].profile = p
      /\ \A j \in Saved : subs[j].profile = p => j = i
  BY <1>2, ProfileHasRow
<1>4. /\ paypal[p].status # "none" /\ subs[i].payer = paypal[p].payer
      /\ subs[i].stripe = None
  BY <1>2, <1>3, BillingAssumption DEF BillingInv, RowsOK, TokensNameOneRow, PayInv
<1>. HIDE DEF i, p
<1>5. ASSUME NEW v \in Workers, req[v].sub = i, req'[v] # req[v],
             req[v].at \in {"suspend", "suspended", "reactivate", "reactivated"}
      PROVE  PaypalRace(w)
  BY <1>1, <1>5 DEF PaypalRace, i
<1>6. ASSUME NEW q \in Profiles, PaypalIpn(q), subs[i].payer = paypal[q].payer
      PROVE  PaypalRace(w)
  <2>1. PICK v \in Workers : Free(v)
    BY <1>6 DEF PaypalIpn
  <2>2. v # w
    BY <1>2, <2>1 DEF Free
  <2>. QED  BY <1>6, <2>1, <2>2 DEF PaypalIpn, PaypalRace, i
<1>7. ASSUME NEW v \in Workers, SuspendProfile(v) \/ ReactivateProfile(v),
             req[v].token = p
      PROVE  PaypalRace(w)
  <2>1. /\ req[v].at \in {"suspend", "reactivate"} /\ req'[v].at # req[v].at
    BY <1>7 DEF SuspendProfile, ReactivateProfile, BillingInv, TypeOK, Request
  <2>2. req[v].sub = i
    BY <1>2, <1>3, <1>7, <2>1, ProfileHasRow
  <2>. QED  BY <1>5, <2>1, <2>2
<1>8. CASE subs'[i].cancelled # subs[i].cancelled
  <2>1. ASSUME NEW v \in Workers, SaveSuspended(v) \/ SaveReactivated(v), req[v].sub = i
        PROVE  PaypalRace(w)
    <3>1. /\ req[v].at \in {"suspended", "reactivated"} /\ req'[v].at = "answer"
      BY <2>1 DEF SaveSuspended, SaveReactivated, Answer, Idle, BillingInv, TypeOK
    <3>. QED  BY <1>5, <2>1, <3>1
  <2>2. ~ \E c \in Customers : StripeWebhook(c) /\ subs[i].stripe = c
    BY <1>4, BillingAssumption
  <2>. QED  BY <1>3, <1>6, <1>8, <2>1, <2>2, CancelledSteps
<1>9. CASE paypal'[p] # paypal[p] /\ ~PayerCancels(p)
  BY <1>2, <1>4, <1>7, <1>9, ProfileSteps
<1>10. CASE p \in ipns /\ p \notin ipns'
  BY <1>4, <1>6, <1>10, NewsSteps
<1>11. CASE /\ subs'[i].cancelled = subs[i].cancelled
            /\ paypal'[p] = paypal[p] \/ PayerCancels(p)
            /\ p \in ipns => p \in ipns'
  <2>1. ASSUME PayerCancels(p)  PROVE paypal'[p].status = "cancelled" /\ p \in ipns'
    BY <1>2, <2>1 DEF PayerCancels, BillingInv, TypeOK
  <2>. QED  BY <1>1, <1>2, <1>11, <2>1 DEF PaypalOvertaken, i, p
<1>. QED  BY <1>8, <1>9, <1>10, <1>11

\* A notification closes the row of the profile, if the payer has no other.
LEMMA ClosedByNews ==
  ASSUME BillingInv, PayInv, NEW i \in Saved, subs[i].profile \in Profiles,
         \A q \in Profiles : paypal[q].payer = subs[i].payer => q = subs[i].profile,
         PaypalIpn(subs[i].profile)
  PROVE  subs'[i].cancelled
<1>1. subs[i].payer = paypal[subs[i].profile].payer /\ subs[i].payer # None
  BY BillingAssumption DEF PayInv, BillingInv, RowsOK
<1>2. i \in SubsOfPayer(paypal[subs[i].profile].payer)
  BY <1>1 DEF SubsOfPayer
<1>3. PICK j \in SubsOfPayer(paypal[subs[i].profile].payer) : SetCancelled(j, TRUE)
  BY <1>2 DEF PaypalIpn
<1>4. j \in Saved /\ subs[j].payer = subs[i].payer
  BY <1>1, <1>3 DEF SubsOfPayer
<1>5. subs[j].profile \in Profiles /\ subs[j].payer = paypal[subs[j].profile].payer
  BY <1>1, <1>4, SavedRow DEF PayInv, BillingInv, RowsOK, Row
<1>6. subs[j].profile = subs[i].profile
  BY <1>4, <1>5
<1>7. j = i
  BY <1>4, <1>6, BillingAssumption DEF BillingInv, TokensNameOneRow
<1>. QED  BY <1>3, <1>7, CancelledSet DEF BillingInv

\* A row and PayPal come to differ only by a request that died between the two,
\* or by one that was overtaken there.
LEMMA PaypalLost ==
  ASSUME BillingInv, PayInv, PaypalInv, [Next]_vars, NEW i \in SubIds,
         PaypalAgrees(i), ~PaypalAgrees(i)'
  PROVE  \/ DiesAt({"suspended", "reactivated"}, i)
         \/ \E w \in Workers : PaypalOvertaken(w) /\ AnsweredAt(w, i)
<1>. DEFINE p == subs'[i].profile
<1>1. /\ i \in Saved' /\ p # None /\ p \notin ipns'
      /\ \A q \in Profiles : paypal'[q].payer = subs'[i].payer => q = p
      /\ \A w \in Workers : req'[w].sub = i => req'[w].at \notin {"suspended", "reactivated"}
      /\ ~(subs'[i].cancelled <=> paypal'[p].status # "active")
  BY DEF PaypalAgrees
<1>. HIDE DEF p
<1>2. CASE i \notin Saved
  <2>1. ~ UNCHANGED subs
    BY <1>1, <1>2 DEF Saved
  <2>2. ~ \E j \in Saved, value \in BOOLEAN : SetCancelled(j, value)
    BY <1>1, <1>2, CancelledSet DEF BillingInv
  <2>3. ~ \E w \in Workers : SavePlan(w)
    BY <1>1, <1>2, PlanSaved
  <2>4. ASSUME NEW w \in Workers, SaveStripeRow(w)  PROVE FALSE
    <3>1. subs'[i] = CardRow(w)
      BY <1>1, <1>2, <2>4, CardRowSaved
    <3>. QED  BY <1>1, <3>1 DEF CardRow, p
  <2>5. ASSUME NEW w \in Workers, SavePaypalRow(w)  PROVE FALSE
    <3>1. subs'[i] = PaypalRow(w)
      BY <1>1, <1>2, <2>5, PaypalRowSaved
    <3>2. paypal[req[w].token].status = "active" /\ UNCHANGED paypal
      BY <2>5 DEF SavePaypalRow, PaypalInv
    <3>. QED  BY <1>1, <3>1, <3>2 DEF PaypalRow, p
  <2>. QED  BY <2>1, <2>2, <2>3, <2>4, <2>5, RowSteps
<1>3. CASE i \in Saved
  <2>1. /\ subs[i].profile = p /\ subs[i].payer = subs'[i].payer
        /\ p \in Profiles /\ paypal[p].status # "none"
        /\ subs[i].payer = paypal[p].payer /\ subs[i].payer # None
    <3>1. subs[i].profile = p /\ subs[i].payer = subs'[i].payer
      BY <1>3, RowKept DEF p
    <3>2. p \in Profiles /\ paypal[p].status # "none" /\ subs[i].payer # None
      BY <1>1, <1>3, <3>1, SavedRow DEF Row, BillingInv, RowsOK
    <3>. QED  BY <1>1, <1>3, <3>1, <3>2 DEF PayInv
  <2>2. \A q \in Profiles : paypal[q].payer = subs[i].payer => q = p
    <3>. SUFFICES ASSUME NEW q \in Profiles, paypal[q].payer = subs[i].payer  PROVE q = p
      OBVIOUS
    <3>1. paypal[q].status # "none"
      BY <2>1 DEF PayInv
    <3>2. paypal'[q].payer = paypal[q].payer
      <4>1. CASE \E w \in Workers : CreateProfile(w)
        BY <3>1, <4>1 DEF CreateProfile, BillingInv, TypeOK
      <4>2. CASE \A w \in Workers : ~CreateProfile(w)
        BY <4>2, ProfilesKept
      <4>. QED  BY <4>1, <4>2
    <3>. QED  BY <1>1, <2>1, <3>2
  <2>3. CASE p \in ipns
    <3>1. PaypalIpn(p)
      BY <1>1, <2>3, NewsSteps
    <3>2. subs'[i].cancelled
      BY <1>3, <2>1, <2>2, <3>1, ClosedByNews
    <3>3. paypal'[p].status = "cancelled"
      BY <2>3, <3>1 DEF PaypalIpn, PaypalInv
    <3>. QED  BY <1>1, <3>2, <3>3
  <2>4. ASSUME p \notin ipns, NEW w \in Workers, req[w].sub = i,
               req[w].at \in {"suspended", "reactivated"}
        PROVE  \/ DiesAt({"suspended", "reactivated"}, i)
               \/ PaypalOvertaken(w) /\ AnsweredAt(w, i)
    <3>1. req'[w] # req[w]
      BY <1>1, <2>4
    <3>2. req'[w] = Idle \/ SaveSuspended(w) \/ SaveReactivated(w)
      BY <2>4, <3>1, StepsLead DEF CreateCustomer, RequestPayment, LoadForUpdate,
           LoadForPaypal, CancelSubscription, Free, CreateProfile, MovePlan,
           SuspendProfile, ReactivateProfile, SaveStripeRow, SavePaypalRow, SavePlan
    <3>3. req[w].token = p
      BY <2>1, <2>4, PaypalRowChanged
    <3>4. ASSUME SaveSuspended(w) \/ SaveReactivated(w)  PROVE AnsweredAt(w, i)
      BY <2>4, <3>4 DEF SaveSuspended, SaveReactivated, Answer, Idle, AnsweredAt,
           BillingInv, TypeOK
    <3>5. ~PaypalOvertaken(w) => ~SaveSuspended(w)
      BY <1>1, <2>4, <3>3, ClosedBySuspend
    <3>6. ~PaypalOvertaken(w) => ~SaveReactivated(w)
      BY <1>1, <2>4, <3>3, OpenedByReactivate
    <3>. QED  BY <2>4, <3>2, <3>4, <3>5, <3>6 DEF DiesAt
  <2>5. ASSUME p \notin ipns,
               \A w \in Workers : req[w].sub = i => req[w].at \notin {"suspended", "reactivated"}
        PROVE  FALSE
    <3>1. subs[i].cancelled <=> paypal[p].status # "active"
      BY <1>1, <1>3, <2>1, <2>2, <2>5 DEF PaypalAgrees
    <3>2. subs'[i].cancelled = subs[i].cancelled
      <4>. SUFFICES ASSUME subs'[i].cancelled # subs[i].cancelled  PROVE FALSE
        OBVIOUS
      <4>1. ~ \E w \in Workers : (SaveSuspended(w) \/ SaveReactivated(w)) /\ req[w].sub = i
        BY <2>5 DEF SaveSuspended, SaveReactivated
      <4>2. ~ \E q \in Profiles : PaypalIpn(q) /\ subs[i].payer = paypal[q].payer
        BY <2>2, <2>5 DEF PaypalIpn
      <4>3. subs[i].stripe = None
        BY <1>1, <1>3, <2>1 DEF BillingInv, TokensNameOneRow
      <4>4. ~ \E c \in Customers : StripeWebhook(c) /\ subs[i].stripe = c
        BY <4>3, BillingAssumption
      <4>. QED  BY <1>3, <4>1, <4>2, <4>4, CancelledSteps
    <3>3. (paypal'[p].status # "active") <=> (paypal[p].status # "active")
      <4>. SUFFICES ASSUME paypal'[p] # paypal[p]  PROVE FALSE
        OBVIOUS
      <4>1. ASSUME NEW w \in Workers, SuspendProfile(w) \/ ReactivateProfile(w),
                   req[w].token = p
            PROVE  FALSE
        <5>1. req[w].sub \in Saved /\ subs[req[w].sub].profile = p
          BY <4>1 DEF SuspendProfile, ReactivateProfile, BillingInv, RequestsOK, RequestOK
        <5>2. req[w].sub = i
          BY <1>1, <1>3, <2>1, <5>1 DEF BillingInv, TokensNameOneRow
        <5>3. req'[w].sub = i /\ req'[w].at \in {"suspended", "reactivated"}
          BY <4>1, <5>2 DEF SuspendProfile, ReactivateProfile, BillingInv, TypeOK, Request
        <5>. QED  BY <1>1, <5>3
      <4>2. ~PayerCancels(p)
        BY <1>1 DEF PayerCancels
      <4>. QED  BY <2>1, <4>1, <4>2, ProfileSteps
    <3>. QED  BY <1>1, <3>1, <3>2, <3>3
  <2>. QED  BY <2>3, <2>4, <2>5
<1>. QED  BY <1>2, <1>3

\* However many requests, messages and changes on PayPal's pages cross, a row
\* and PayPal come apart only by a death or a race of two workers.
THEOREM PaypalLostByDeathOrRaceTheorem == Spec => PaypalLostByDeathOrRace
<1>1. BillingInv /\ PayInv /\ PaypalInv /\ [Next]_vars =>
        [/\ \A i \in SubIds :
              PaypalAgrees(i) /\ ~PaypalAgrees(i)' =>
                \/ DiesAt({"suspended", "reactivated"}, i)
                \/ \E w \in Workers : PaypalOvertaken(w) /\ AnsweredAt(w, i)
         /\ \A w \in Workers :
              ~PaypalOvertaken(w) /\ PaypalOvertaken(w)' => PaypalRace(w)]_vars
  BY PaypalLost, PaypalOvertakenByRace
<1>. QED  BY <1>1, Invariance, PayInvariance, PaypalInvariance, PTL
          DEF Spec, PaypalLostByDeathOrRace

-----------------------------------------------------------------------------
(* What reactivate tells the user.                                         *)

\* A request works on a row of the user who sent it, for as long as it does.
OwnRow ==
  \A w \in Workers :
    req[w].sub # None => req[w].sub \in Saved /\ subs[req[w].sub].user = req[w].user

\* No request has loaded a row in the beginning.
LEMMA InitOwnRow == Init => OwnRow
BY DEF Init, OwnRow, Idle

\* A row is loaded through its user, and no row is handed to another user.
LEMMA NextOwnRow == BillingInv /\ OwnRow /\ [Next]_vars => OwnRow'
<1>. SUFFICES ASSUME BillingInv, OwnRow, [Next]_vars, NEW w \in Workers,
                     req'[w].sub # None
              PROVE  /\ req'[w].sub \in Saved'
                     /\ subs'[req'[w].sub].user = req'[w].user
  BY DEF OwnRow
<1>1. req \in [Workers -> Request]
  BY DEF BillingInv, TypeOK
<1>2. \/ req'[w].sub = req[w].sub /\ req'[w].user = req[w].user
      \/ \E u \in Users : \E i \in SubsOf(u) : req'[w].sub = i /\ req'[w].user = u
  <2>1. ASSUME NEW u \in Users,
               \/ LoadForUpdate(w, u)
               \/ \E verb \in {"suspend", "reactivate"} : LoadForPaypal(w, u, verb)
        PROVE  \E i \in SubsOf(u) : req'[w].sub = i /\ req'[w].user = u
    BY <1>1, <2>1 DEF LoadForUpdate, LoadForPaypal, Idle
  <2>2. ASSUME \/ MovePlan(w) \/ SuspendProfile(w) \/ ReactivateProfile(w)
               \/ CreateProfile(w)
        PROVE  req'[w].sub = req[w].sub /\ req'[w].user = req[w].user
    BY <1>1, <2>2 DEF MovePlan, SuspendProfile, ReactivateProfile, CreateProfile, Request
  <2>3. ASSUME NEW u \in Users, NEW plan \in Plans,
               CreateCustomer(w, u, plan) \/ RequestPayment(w, u, plan)
        PROVE  FALSE
    BY <1>1, <2>3 DEF CreateCustomer, RequestPayment, Idle
  <2>4. ASSUME NEW u \in Users, CancelSubscription(w, u)  PROVE FALSE
    BY <1>1, <2>4 DEF CancelSubscription, Answer, Idle
  <2>5. ASSUME \/ SaveStripeRow(w) \/ SavePaypalRow(w) \/ SavePlan(w)
               \/ SaveSuspended(w) \/ SaveReactivated(w)
        PROVE  FALSE
    BY <1>1, <2>5 DEF SaveStripeRow, SavePaypalRow, SavePlan, SaveSuspended,
         SaveReactivated, Answer, Idle
  <2>6. req'[w] # Idle
    BY DEF Idle
  <2>. QED  BY <2>1, <2>2, <2>3, <2>4, <2>5, <2>6, StepsLead
<1>3. CASE req'[w].sub = req[w].sub /\ req'[w].user = req[w].user
  BY <1>3, RowKept DEF OwnRow
<1>4. ASSUME NEW u \in Users, NEW i \in SubsOf(u), req'[w].sub = i, req'[w].user = u
      PROVE  /\ req'[w].sub \in Saved'
             /\ subs'[req'[w].sub].user = req'[w].user
  BY <1>4, RowKept DEF SubsOf
<1>. QED  BY <1>2, <1>3, <1>4

\* Every request works on the row of its own user.
THEOREM OwnRowInvariance == Spec => []OwnRow
BY InitOwnRow, NextOwnRow, Invariance, PTL DEF Spec

\* Only reactivate says that billing has been activated.
LEMMA ActivatedSteps ==
  ASSUME BillingInv, [Next]_vars, NEW w \in Workers,
         req[w].said # "activated", req'[w].said = "activated"
  PROVE  SaveReactivated(w)
<1>1. req \in [Workers -> Request]
  BY DEF BillingInv, TypeOK
<1>2. ASSUME NEW u \in Users, NEW plan \in Plans,
             CreateCustomer(w, u, plan) \/ RequestPayment(w, u, plan)
      PROVE  FALSE
  BY <1>1, <1>2 DEF CreateCustomer, RequestPayment, Idle
<1>3. ASSUME NEW u \in Users,
             \/ LoadForUpdate(w, u) \/ CancelSubscription(w, u)
             \/ \E verb \in {"suspend", "reactivate"} : LoadForPaypal(w, u, verb)
      PROVE  FALSE
  BY <1>1, <1>3 DEF LoadForUpdate, CancelSubscription, LoadForPaypal, Answer, Idle
<1>4. ASSUME CreateProfile(w) \/ MovePlan(w) \/ SuspendProfile(w) \/ ReactivateProfile(w)
      PROVE  FALSE
  BY <1>1, <1>4 DEF CreateProfile, MovePlan, SuspendProfile, ReactivateProfile, Request
<1>5. ASSUME SaveStripeRow(w) \/ SavePaypalRow(w) \/ SavePlan(w) \/ SaveSuspended(w)
      PROVE  FALSE
  BY <1>1, <1>5 DEF SaveStripeRow, SavePaypalRow, SavePlan, SaveSuspended, Answer, Idle
<1>6. req'[w] # Idle
  BY DEF Idle
<1>. QED  BY <1>2, <1>3, <1>4, <1>5, <1>6, StepsLead

\* Who reads that billing has been activated has access, or another worker
\* came in between the moment his row was loaded and the moment it was written.
LEMMA ActivatedOpens ==
  ASSUME BillingInv, OwnRow, [Next]_vars, NEW w \in Workers,
         req[w].said # "activated", req'[w].said = "activated"
  PROVE  HasAccess(req[w].user)' \/ PaypalOvertaken(w)
<1>1. SaveReactivated(w)
  BY ActivatedSteps
<1>. SUFFICES ASSUME ~PaypalOvertaken(w)  PROVE HasAccess(req[w].user)'
  OBVIOUS
<1>2. req[w].sub \in Saved /\ req[w].sub # None
  BY <1>1, PaypalRowChanged, BillingAssumption DEF SaveReactivated, Saved
<1>3. req[w].sub \in Saved' /\ subs'[req[w].sub].user = req[w].user
  BY <1>2, RowKept DEF OwnRow
<1>4. ~subs'[req[w].sub].cancelled
  BY <1>1, OpenedByReactivate
<1>5. req'[w].user = req[w].user
  BY <1>1 DEF SaveReactivated, Answer, Idle, BillingInv, TypeOK
<1>. QED  BY <1>3, <1>4, <1>5 DEF HasAccess, SubsOf

\* The notice of reactivate is false only for a request that was overtaken.
THEOREM ActivatedMeansAccessOrOvertaken ==
  Spec => [][\A w \in Workers :
               req[w].said # "activated" /\ req'[w].said = "activated"
                 => HasAccess(req[w].user)' \/ PaypalOvertaken(w)]_vars
<1>1. BillingInv /\ OwnRow /\ [Next]_vars =>
        [\A w \in Workers :
           req[w].said # "activated" /\ req'[w].said = "activated"
             => HasAccess(req[w].user)' \/ PaypalOvertaken(w)]_vars
  BY ActivatedOpens
<1>. QED  BY <1>1, Invariance, OwnRowInvariance, PTL DEF Spec

-----------------------------------------------------------------------------
(* One request at a time.                                                  *)

OneWorker == \A v, w \in Workers : v = w

\* Nobody overtakes the request of the only worker.
NotOvertaken == \A w \in Workers : ~PlanOvertaken(w) /\ ~PaypalOvertaken(w)

\* In the beginning there is nothing to overtake.
LEMMA InitAlone == Init => NotOvertaken
BY DEF Init, NotOvertaken, PlanOvertaken, PaypalOvertaken, Idle

\* A race takes two workers.
LEMMA NextAlone ==
  ASSUME OneWorker, BillingInv, PayInv, NotOvertaken, [Next]_vars
  PROVE  NotOvertaken'
<1>. SUFFICES ASSUME NEW w \in Workers
              PROVE  ~PlanOvertaken(w)' /\ ~PaypalOvertaken(w)'
  BY DEF NotOvertaken
<1>1. Workers \ {w} = {}
  BY DEF OneWorker
<1>2. ~PlanOvertaken(w)'
  BY <1>1, PlanRace DEF NotOvertaken
<1>3. ~PaypalOvertaken(w)'
  BY <1>1, PaypalOvertakenByRace DEF NotOvertaken, PaypalRace
<1>. QED  BY <1>2, <1>3

\* With one worker no request is overtaken.
THEOREM NotOvertakenAlone == OneWorker => (Spec => []NotOvertaken)
<1>. SUFFICES ASSUME OneWorker  PROVE Spec => []NotOvertaken
  OBVIOUS
<1>1. BillingInv /\ PayInv /\ NotOvertaken /\ [Next]_vars => NotOvertaken'
  BY NextAlone
<1>. QED  BY <1>1, InitAlone, Invariance, PayInvariance, PTL DEF Spec

\* With one worker the site and a provider come to differ by nothing but a
\* request that dies half way: no order of messages and no change on the
\* provider's side is enough.
THEOREM LostByDeathAlone ==
  OneWorker =>
    (Spec => [][\A i \in SubIds :
                  /\ PlanAgrees(i) /\ ~PlanAgrees(i)' => DiesAt({"moved"}, i)
                  /\ PaypalAgrees(i) /\ ~PaypalAgrees(i)'
                       => DiesAt({"suspended", "reactivated"}, i)]_vars)
<1>. SUFFICES ASSUME OneWorker
     PROVE  Spec => [][\A i \in SubIds :
                  /\ PlanAgrees(i) /\ ~PlanAgrees(i)' => DiesAt({"moved"}, i)
                  /\ PaypalAgrees(i) /\ ~PaypalAgrees(i)'
                       => DiesAt({"suspended", "reactivated"}, i)]_vars
  OBVIOUS
<1>1. BillingInv /\ PayInv /\ PlanInv /\ PaypalInv /\ NotOvertaken /\ [Next]_vars =>
        [\A i \in SubIds :
           /\ PlanAgrees(i) /\ ~PlanAgrees(i)' => DiesAt({"moved"}, i)
           /\ PaypalAgrees(i) /\ ~PaypalAgrees(i)'
                => DiesAt({"suspended", "reactivated"}, i)]_vars
  BY PlanLost, PaypalLost DEF NotOvertaken
<1>. QED  BY <1>1, NotOvertakenAlone, Invariance, PayInvariance, PlanInvariance,
             PaypalInvariance, PTL DEF Spec

\* With one worker the notice of reactivate is true.
THEOREM ActivatedMeansAccessAlone == OneWorker => (Spec => ActivatedMeansAccess)
<1>. SUFFICES ASSUME OneWorker  PROVE Spec => ActivatedMeansAccess
  OBVIOUS
<1>1. BillingInv /\ OwnRow /\ NotOvertaken /\ [Next]_vars =>
        [\A w \in Workers : Says(w, "activated") => HasAccess(req[w].user)']_vars
  BY ActivatedOpens DEF NotOvertaken, Says
<1>. QED  BY <1>1, NotOvertakenAlone, Invariance, OwnRowInvariance, PTL
          DEF Spec, ActivatedMeansAccess
=============================================================================
