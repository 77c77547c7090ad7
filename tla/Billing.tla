------------------------------- MODULE Billing -------------------------------
(***************************************************************************)
(* Paid subscriptions of the dating site: the requests of                  *)
(* SubscriptionsController, the payment code of the Subscription and       *)
(* PaypalPayment models, the Stripe webhook, the PayPal notification and   *)
(* the access check of the conversations pages.                            *)
(*                                                                         *)
(* Three parties hold a copy of a subscription: the table subscriptions,   *)
(* Stripe (one customer per card subscription) and PayPal (one recurring   *)
(* profile per PayPal subscription).  No transaction spans two of them.  A *)
(* request is therefore cut into one action per store it talks to, several *)
(* workers serve requests at the same time, a request can die between two  *)
(* of its actions, and the news that an agreement ended travels in         *)
(* messages that arrive late, out of order or twice.                       *)
(***************************************************************************)
EXTENDS Naturals, FiniteSets

CONSTANTS
  Users,              \* logged-in users; a user pays from one PayPal account
  Workers,            \* server processes, each busy with one request at a time
  Customers,          \* customer ids Stripe can hand out
  Profiles,           \* recurring profile ids PayPal can hand out
  SubIds,             \* primary keys of the table subscriptions
  MaxPayments,        \* bound on the one-off PayPal payments of a user
  MayFail,            \* whether a request can die half way
  StripeResubscribes, \* whether Stripe starts a new subscription when the
                      \* plan of a customer without one is changed
  None                \* SQL NULL, or "no such row"

Monthly == 1
Annual == 12
Plans == {Monthly, Annual}

ASSUME BillingAssumption ==
  /\ MaxPayments \in Nat
  /\ MayFail \in BOOLEAN
  /\ StripeResubscribes \in BOOLEAN
  /\ None \notin Users \cup Customers \cup Profiles \cup SubIds \cup Plans
  /\ Customers \cap Profiles = {}

VARIABLES
  subs,      \* table subscriptions: key -> row, or None
  stripe,    \* Stripe: customer -> plan and status
  paypal,    \* PayPal: profile -> payer and status
  payments,  \* PayPal: payments taken by request_payment, per user
  events,    \* customers whose customer.subscription.deleted is undelivered
  ipns,      \* profiles whose subscr_cancel notification is undelivered
  req        \* worker -> the request it is serving

vars == <<subs, stripe, paypal, payments, events, ipns, req>>

\* A row of the table; cancelled is NULL (FALSE) or 1 (TRUE).
Row == [user: Users, plan: Plans, stripe: Customers \cup {None},
        profile: Profiles \cup {None}, payer: Users \cup {None},
        cancelled: BOOLEAN]

ASSUME NoneIsNoRow == None \notin Row

Steps == {"idle", "customer", "paid", "profile", "update", "moved",
          "suspend", "suspended", "reactivate", "reactivated", "answer"}

\* What the flash of the final redirect tells the user.
Notices == {"nothing", "thanks", "monthly", "annually", "cancelled",
            "suspended", "activated"}

\* The memory of a request: plan and seen are the columns of the row it loaded
\* (Active Record keeps the loaded copy and writes only what it changes).
Request == [at: Steps, user: Users \cup {None}, plan: Plans \cup {None},
            sub: SubIds \cup {None}, seen: BOOLEAN,
            token: Customers \cup Profiles \cup {None}, said: Notices]

Idle == [at |-> "idle", user |-> None, plan |-> None, sub |-> None,
         seen |-> FALSE, token |-> None, said |-> "nothing"]

\* The type invariant: tables, providers and the memory of every request.
TypeOK ==
  /\ subs \in [SubIds -> Row \cup {None}]
  /\ stripe \in [Customers -> [plan: Plans \cup {None},
                    status: {"none", "active", "canceling", "ended"}]]
  /\ paypal \in [Profiles -> [payer: Users \cup {None},
                    status: {"none", "active", "suspended", "cancelled"}]]
  /\ payments \in [Users -> Nat]
  /\ events \subseteq Customers
  /\ ipns \subseteq Profiles
  /\ req \in [Workers -> Request]

Init ==
  /\ subs = [i \in SubIds |-> None]
  /\ stripe = [c \in Customers |-> [plan |-> None, status |-> "none"]]
  /\ paypal = [p \in Profiles |-> [payer |-> None, status |-> "none"]]
  /\ payments = [u \in Users |-> 0]
  /\ events = {}
  /\ ipns = {}
  /\ req = [w \in Workers |-> Idle]

-----------------------------------------------------------------------------
(* Queries.  has_one and find_by are a SELECT with LIMIT 1 and no ORDER BY: *)
(* an action takes any member of the set.                                   *)

Saved == {i \in SubIds : subs[i] # None}
SubsOf(u) == {i \in Saved : subs[i].user = u}
SubsOfCustomer(c) == {i \in Saved : subs[i].stripe = c}
SubsOfPayer(u) == {i \in Saved : subs[i].payer = u}

\* The before_filter of every conversations page.
HasAccess(u) == \E i \in SubsOf(u) : ~subs[i].cancelled

Running(c) == stripe[c].status \in {"active", "canceling"}

\* The request of w is between creating the agreement t and saving its row.
Holds(w, t) == req[w].at \in {"customer", "profile"} /\ req[w].token = t

Free(w) == req[w].at = "idle"

\* The redirect with its notice; the request only has to be sent back.
Answer(w, u, notice, t) ==
  req' = [req EXCEPT ![w] = [Idle EXCEPT !.at = "answer", !.user = u,
                                         !.said = notice, !.token = t]]

Drop(w) == req' = [req EXCEPT ![w] = Idle]

Insert(row) == \E i \in SubIds \ Saved : subs' = [subs EXCEPT ![i] = row]

SetCancelled(i, value) == subs' = [subs EXCEPT ![i].cancelled = value]

-----------------------------------------------------------------------------
(* Slips: an action or helper of this module with a mistake its code could *)
(* have.  No specification uses them; each shows that a property notices.   *)

OtherPlanAdded(plan) == plan + 11

\* save! is retried without looking whether the first one went through.
SaveStripeRowTwice(w) ==
  /\ req[w].at = "customer"
  /\ Insert([user |-> req[w].user, plan |-> req[w].plan,
             stripe |-> req[w].token, profile |-> None, payer |-> None,
             cancelled |-> FALSE])
  /\ UNCHANGED <<stripe, paypal, payments, events, ipns, req>>

\* save without a bang: an invalid row is dropped in silence.
SaveStripeRowSilently(w) ==
  /\ req[w].at = "customer"
  /\ Answer(w, req[w].user, "thanks", req[w].token)
  /\ UNCHANGED <<subs, stripe, paypal, payments, events, ipns>>

RequestPaymentUnchecked(w, u, plan) ==
  /\ Free(w)
  /\ req' = [req EXCEPT ![w] = [Idle EXCEPT !.at = "paid", !.user = u,
                                            !.plan = plan]]
  /\ UNCHANGED <<subs, stripe, paypal, payments, events, ipns>>

SavePlanAsLoaded(w) ==
  /\ req[w].at = "moved"
  /\ subs' = [subs EXCEPT ![req[w].sub].plan = req[w].plan]
  /\ Answer(w, req[w].user, "monthly", req[w].token)
  /\ UNCHANGED <<stripe, paypal, payments, events, ipns>>

\* The row is closed at once and not when the period has run out.
CancelSubscriptionAtOnce(w, u) ==
  /\ Free(w)
  /\ \E i \in SubsOf(u) :
       LET c == subs[i].stripe IN
       /\ c \in Customers
       /\ Running(c)
       /\ stripe' = [stripe EXCEPT ![c].status = "canceling"]
       /\ SetCancelled(i, TRUE)
       /\ Answer(w, u, "cancelled", c)
  /\ UNCHANGED <<paypal, payments, events, ipns>>

SaveSuspendedNowhere(w) ==
  /\ req[w].at = "suspended"
  /\ Answer(w, req[w].user, "suspended", req[w].token)
  /\ UNCHANGED <<subs, stripe, paypal, payments, events, ipns>>

\* The errors of PayPal's answer are not raised.
ReactivateProfileUnchecked(w) ==
  /\ req[w].at = "reactivate"
  /\ req' = [req EXCEPT ![w].at = "reactivated"]
  /\ UNCHANGED <<subs, stripe, paypal, payments, events, ipns>>

\* The event is answered before the row is looked for.
StripeWebhookUnread(c) ==
  /\ c \in events
  /\ events' = events \ {c}
  /\ UNCHANGED <<subs, stripe, paypal, payments, ipns, req>>

\* The row is found without its customer token.
StripeWebhookAnyRow(c) ==
  /\ c \in events
  /\ \E i \in Saved : SetCancelled(i, TRUE)
  /\ events' \in {events, events \ {c}}
  /\ UNCHANGED <<stripe, paypal, payments, ipns, req>>

-----------------------------------------------------------------------------
(* SubscriptionsController#create paying by card.                          *)

\* A valid form: Stripe::Customer.create.  A refused card raises and leaves
\* nothing behind, here or at Stripe.
CreateCustomer(w, u, plan) ==
  /\ Free(w)
  /\ \E c \in Customers :
       /\ stripe[c].status = "none"
       /\ stripe' = [stripe EXCEPT ![c] = [plan |-> plan, status |-> "active"]]
       /\ req' = [req EXCEPT ![w] = [Idle EXCEPT !.at = "customer", !.user = u,
                                         !.plan = plan, !.token = c]]
  /\ UNCHANGED <<subs, paypal, payments, events, ipns>>

SaveStripeRow(w) ==
  /\ req[w].at = "customer"
  /\ Insert([user |-> req[w].user, plan |-> req[w].plan,
             stripe |-> req[w].token, profile |-> None, payer |-> None,
             cancelled |-> FALSE])
  /\ Answer(w, req[w].user, "thanks", req[w].token)
  /\ UNCHANGED <<stripe, paypal, payments, events, ipns>>

(* SubscriptionsController#create with the token of a PayPal checkout.     *)

RequestPayment(w, u, plan) ==
  /\ Free(w)
  /\ payments[u] < MaxPayments
  /\ payments' = [payments EXCEPT ![u] = @ + 1]
  /\ req' = [req EXCEPT ![w] = [Idle EXCEPT !.at = "paid", !.user = u,
                                            !.plan = plan]]
  /\ UNCHANGED <<subs, stripe, paypal, events, ipns>>

CreateProfile(w) ==
  /\ req[w].at = "paid"
  /\ \E p \in Profiles :
       /\ paypal[p].status = "none"
       /\ paypal' = [paypal EXCEPT ![p] = [payer |-> req[w].user,
                                           status |-> "active"]]
       /\ req' = [req EXCEPT ![w].at = "profile", ![w].token = p]
  /\ UNCHANGED <<subs, stripe, payments, events, ipns>>

SavePaypalRow(w) ==
  /\ req[w].at = "profile"
  /\ Insert([user |-> req[w].user, plan |-> req[w].plan, stripe |-> None,
             profile |-> req[w].token, payer |-> req[w].user,
             cancelled |-> FALSE])
  /\ Answer(w, req[w].user, "thanks", req[w].token)
  /\ UNCHANGED <<stripe, paypal, payments, events, ipns>>

-----------------------------------------------------------------------------
(* SubscriptionsController#updatesubscription: the other plan, first at    *)
(* Stripe, then in the row.                                                *)

OtherPlan(plan) == IF plan = Annual THEN Monthly ELSE Annual

\* Statuses a customer can have after its plan was changed at Stripe.
AfterPlanChange(status) ==
  IF status # "ended" THEN {status, "active"}
  ELSE IF StripeResubscribes THEN {"active"} ELSE {}

LoadForUpdate(w, u) ==
  /\ Free(w)
  /\ \E i \in SubsOf(u) :
       req' = [req EXCEPT ![w] = [Idle EXCEPT !.at = "update", !.user = u,
                                     !.sub = i, !.plan = subs[i].plan,
                                     !.token = subs[i].stripe]]
  /\ UNCHANGED <<subs, stripe, paypal, payments, events, ipns>>

MovePlan(w) ==
  LET c == req[w].token IN
  /\ req[w].at = "update"
  /\ c \in Customers
  /\ \E status \in AfterPlanChange(stripe[c].status) :
       stripe' = [stripe EXCEPT ![c] = [plan |-> OtherPlan(req[w].plan),
                                        status |-> status]]
  /\ req' = [req EXCEPT ![w].at = "moved"]
  /\ UNCHANGED <<subs, paypal, payments, events, ipns>>

SavePlan(w) ==
  LET new == OtherPlan(req[w].plan) IN
  /\ req[w].at = "moved"
  /\ subs' = [subs EXCEPT ![req[w].sub].plan = new]
  /\ Answer(w, req[w].user, IF new = Annual THEN "annually" ELSE "monthly",
            req[w].token)
  /\ UNCHANGED <<stripe, paypal, payments, events, ipns>>

\* Stripe raises: the row is PayPal's and has no customer, or the customer
\* has no subscription left to change.
UpdateRefused(w) ==
  /\ req[w].at = "update"
  /\ ~(req[w].token \in Customers /\ AfterPlanChange(stripe[req[w].token].status) # {})
  /\ Drop(w)
  /\ UNCHANGED <<subs, stripe, paypal, payments, events, ipns>>

(* SubscriptionsController#cancelsubscription: Stripe ends the subscription *)
(* at the end of the period; the row stays as it is.                       *)
CancelSubscription(w, u) ==
  /\ Free(w)
  /\ \E i \in SubsOf(u) :
       LET c == subs[i].stripe IN
       /\ c \in Customers
       /\ Running(c)
       /\ stripe' = [stripe EXCEPT ![c].status = "canceling"]
       /\ Answer(w, u, "cancelled", c)
  /\ UNCHANGED <<subs, paypal, payments, events, ipns>>

-----------------------------------------------------------------------------
(* SubscriptionsController#suspend and #reactivate: first PayPal, which    *)
(* raises unless the profile can make the transition, then the row.        *)

LoadForPaypal(w, u, verb) ==
  /\ Free(w)
  /\ \E i \in SubsOf(u) :
       req' = [req EXCEPT ![w] = [Idle EXCEPT !.at = verb, !.user = u,
                                     !.sub = i, !.seen = subs[i].cancelled,
                                     !.token = subs[i].profile]]
  /\ UNCHANGED <<subs, stripe, paypal, payments, events, ipns>>

\* The profile exists (a card subscription has none) and is in this status.
InStatus(p, status) == p \in Profiles /\ paypal[p].status = status

SuspendProfile(w) ==
  LET p == req[w].token IN
  /\ req[w].at = "suspend"
  /\ InStatus(p, "active")
  /\ paypal' = [paypal EXCEPT ![p].status = "suspended"]
  /\ req' = [req EXCEPT ![w].at = "suspended"]
  /\ UNCHANGED <<subs, stripe, payments, events, ipns>>

\* update_attributes(cancelled: 1) on the copy that was loaded.
SaveSuspended(w) ==
  /\ req[w].at = "suspended"
  /\ IF req[w].seen THEN UNCHANGED subs ELSE SetCancelled(req[w].sub, TRUE)
  /\ Answer(w, req[w].user, "suspended", req[w].token)
  /\ UNCHANGED <<stripe, paypal, payments, events, ipns>>

ReactivateProfile(w) ==
  LET p == req[w].token IN
  /\ req[w].at = "reactivate"
  /\ InStatus(p, "suspended")
  /\ paypal' = [paypal EXCEPT ![p].status = "active"]
  /\ req' = [req EXCEPT ![w].at = "reactivated"]
  /\ UNCHANGED <<subs, stripe, payments, events, ipns>>

\* update_attributes(cancelled: nil) on the copy that was loaded.
SaveReactivated(w) ==
  /\ req[w].at = "reactivated"
  /\ IF req[w].seen THEN SetCancelled(req[w].sub, FALSE) ELSE UNCHANGED subs
  /\ Answer(w, req[w].user, "activated", req[w].token)
  /\ UNCHANGED <<stripe, paypal, payments, events, ipns>>

\* PaypalPayment#process raises on any error PayPal reports.
PaypalRefused(w) ==
  /\ \/ req[w].at = "suspend" /\ ~InStatus(req[w].token, "active")
     \/ req[w].at = "reactivate" /\ ~InStatus(req[w].token, "suspended")
  /\ Drop(w)
  /\ UNCHANGED <<subs, stripe, paypal, payments, events, ipns>>

-----------------------------------------------------------------------------
(* Messages from the providers.  The provider repeats a message until it   *)
(* is answered, so one that was handled may come again.                    *)

StripeWebhook(c) ==
  /\ c \in events
  /\ \E w \in Workers : Free(w)
  /\ \/ \E i \in SubsOfCustomer(c) : SetCancelled(i, TRUE)
     \/ SubsOfCustomer(c) = {} /\ UNCHANGED subs
  /\ events' \in {events, events \ {c}}
  /\ UNCHANGED <<stripe, paypal, payments, ipns, req>>

PaypalIpn(p) ==
  /\ p \in ipns
  /\ \E w \in Workers : Free(w)
  /\ \/ \E i \in SubsOfPayer(paypal[p].payer) : SetCancelled(i, TRUE)
     \/ SubsOfPayer(paypal[p].payer) = {} /\ UNCHANGED subs
  /\ ipns' \in {ipns, ipns \ {p}}
  /\ UNCHANGED <<stripe, paypal, payments, events, req>>

(* The providers themselves.  A billing period lasts a day at PayPal, a    *)
(* month or a year at Stripe, and a request seconds, so an agreement       *)
(* outlives the request that made it.                                      *)

\* The period of a cancelled subscription ran out, or its card kept failing.
StripeEnds(c) ==
  /\ Running(c)
  /\ \A w \in Workers : ~Holds(w, c)
  /\ stripe' = [stripe EXCEPT ![c].status = "ended"]
  /\ events' = events \cup {c}
  /\ UNCHANGED <<subs, paypal, payments, ipns, req>>

\* The payer cancels the profile on PayPal's own pages.
PayerCancels(p) ==
  /\ paypal[p].status \in {"active", "suspended"}
  /\ \A w \in Workers : ~Holds(w, p)
  /\ paypal' = [paypal EXCEPT ![p].status = "cancelled"]
  /\ ipns' = ipns \cup {p}
  /\ UNCHANGED <<subs, stripe, payments, events, req>>

-----------------------------------------------------------------------------
Finish(w) ==
  /\ req[w].at = "answer"
  /\ Drop(w)
  /\ UNCHANGED <<subs, stripe, paypal, payments, events, ipns>>

\* The process is killed, a provider's answer is lost, save! or the mail
\* after it raises: what the stores hold stays, what the request knew is gone.
Fail(w) ==
  /\ MayFail
  /\ ~Free(w)
  /\ Drop(w)
  /\ UNCHANGED <<subs, stripe, paypal, payments, events, ipns>>

Begin(w) ==
  \E u \in Users :
    \/ \E plan \in Plans : CreateCustomer(w, u, plan) \/ RequestPayment(w, u, plan)
    \/ LoadForUpdate(w, u)
    \/ CancelSubscription(w, u)
    \/ \E verb \in {"suspend", "reactivate"} : LoadForPaypal(w, u, verb)

Continue(w) ==
  \/ SaveStripeRow(w) \/ CreateProfile(w) \/ SavePaypalRow(w)
  \/ MovePlan(w) \/ SavePlan(w) \/ UpdateRefused(w)
  \/ SuspendProfile(w) \/ SaveSuspended(w)
  \/ ReactivateProfile(w) \/ SaveReactivated(w) \/ PaypalRefused(w)
  \/ Finish(w)

Next ==
  \/ \E w \in Workers : Begin(w) \/ Continue(w) \/ Fail(w)
  \/ \E c \in Customers : StripeWebhook(c) \/ StripeEnds(c)
  \/ \E p \in Profiles : PaypalIpn(p) \/ PayerCancels(p)

Spec == Init /\ [][Next]_vars

\* A request that was begun goes on, and an unanswered webhook is repeated.
Fairness ==
  /\ \A w \in Workers : WF_vars(Continue(w))
  /\ \A c \in Customers : SF_vars(StripeWebhook(c))
  /\ \A p \in Profiles : SF_vars(PaypalIpn(p))

FairSpec == Spec /\ Fairness

-----------------------------------------------------------------------------
(* Safety.                                                                 *)

\* find_by(stripe_customer_token: ...) in the webhook can only meet the row of
\* the customer Stripe speaks of: no two rows share a customer or a profile,
\* and none has both or neither, however many requests create rows at once.
TokensNameOneRow ==
  \A i, j \in Saved :
    /\ (subs[i].stripe = None) # (subs[i].profile = None)
    /\ i # j => /\ subs[i].stripe = None \/ subs[i].stripe # subs[j].stripe
                /\ subs[i].profile = None \/ subs[i].profile # subs[j].profile

\* A card subscription opens the conversations pages only while Stripe bills
\* for it, or while the news that it ended is still on its way: whatever is
\* suspended, reactivated, lost or repeated meanwhile.
StripeAccessIsPaid ==
  \A i \in Saved :
    subs[i].stripe # None /\ ~subs[i].cancelled
      => Running(subs[i].stripe) \/ subs[i].stripe \in events

\* The site closes a card subscription only when Stripe stopped billing it
\* (given that a plan change does not start the billing again).
ClosedIsNotBilled ==
  ~StripeResubscribes =>
    \A i \in Saved :
      subs[i].stripe # None /\ subs[i].cancelled
        => stripe[subs[i].stripe].status = "ended"

\* A PayPal row comes after a recurring profile, and a profile after a
\* payment: make_recurring never yields a subscription that was not paid for.
PaypalIsPaidFor ==
  \A u \in Users :
    LET made == {p \in Profiles : paypal[p].payer = u} IN
    /\ Cardinality(SubsOfPayer(u)) <= Cardinality(made)
    /\ Cardinality(made) <= payments[u]

Signed == {c \in Customers : stripe[c].status # "none"}
            \cup {p \in Profiles : paypal[p].status # "none"}

\* The agreement t has its row, or a request is about to save it.
Known(t) ==
  \/ \E i \in Saved : t \in {subs[i].stripe, subs[i].profile}
  \/ \E w \in Workers : Holds(w, t)

\* What a provider bills is known to the site, unless the request that created
\* it died before it saved the row: no other step loses an agreement, neither
\* of this request nor of one that runs at the same time.
BilledIsKnown ==
  [][\A t \in Signed' : Known(t)' \/ (t \in Signed /\ ~Known(t))
       \/ \E w \in Workers : Holds(w, t) /\ req'[w] = Idle]_vars

\* No request ever opens a card subscription again once it was closed:
\* reactivate stops at PayPal's error before it reaches the row.
ClosedStaysClosed ==
  [][\A i \in Saved : subs[i].stripe # None /\ subs[i].cancelled
                        => subs'[i].cancelled]_vars

(* The inductive invariant the proofs in BillingProofs rest on.             *)

\* A request knows what its next step needs, and names the row it loaded.
RequestOK(r) ==
  /\ r.at # "idle" => r.user \in Users
  /\ r.at \in {"customer", "paid", "profile", "update", "moved"} => r.plan \in Plans
  /\ r.at \in {"customer", "moved"} => r.token \in Customers
  /\ r.at \in {"profile", "suspended", "reactivated"} => r.token \in Profiles
  /\ r.at \in {"update", "moved", "suspend", "suspended", "reactivate",
              "reactivated"} => r.sub \in Saved
  /\ r.at \in {"update", "moved"} => subs[r.sub].stripe = r.token
  /\ r.at \in {"suspend", "suspended", "reactivate", "reactivated"}
       => subs[r.sub].profile = r.token

RequestsOK == \A w \in Workers : RequestOK(req[w])

\* A row names an agreement that was signed, and a payer with a profile only.
RowsOK ==
  \A i \in Saved :
    /\ subs[i].stripe # None => stripe[subs[i].stripe].status # "none"
    /\ subs[i].profile # None => paypal[subs[i].profile].status # "none"
    /\ (subs[i].payer = None) = (subs[i].profile = None)

\* An agreement whose row is still to be saved has no row, is signed, and is
\* billed if it is a card's.
Fresh(r) ==
  /\ r.at = "customer" => Running(r.token) /\ SubsOfCustomer(r.token) = {}
  /\ r.at = "profile" => /\ paypal[r.token].status # "none"
                         /\ \A i \in Saved : subs[i].profile # r.token

\* Only one request knows it.
HeldOnce(v, w) ==
  req[v].at \in {"customer", "profile"} /\ req[w].at \in {"customer", "profile"}
    => req[v].token # req[w].token

HeldOK ==
  /\ \A w \in Workers : Fresh(req[w])
  /\ \A v, w \in Workers : v # w => HeldOnce(v, w)

\* News speaks of agreements that ended, and a payer is known for each profile.
NewsOK ==
  /\ \A c \in events : ~StripeResubscribes => stripe[c].status = "ended"
  /\ \A p \in ipns : paypal[p].status # "none"
  /\ \A p \in Profiles : paypal[p].status # "none" => paypal[p].payer \in Users

BillingInv ==
  /\ TypeOK /\ RequestsOK /\ RowsOK /\ HeldOK /\ NewsOK
  /\ TokensNameOneRow /\ StripeAccessIsPaid /\ ClosedIsNotBilled

(* How a row and its provider come apart: by a request that dies between   *)
(* its two calls, or by one that another overtakes there.                  *)

\* This step ends a request about row i: with a notice, or without one.
AnsweredAt(w, i) == req[w].sub = i /\ req'[w].at = "answer"
DiesAt(steps, i) ==
  \E w \in Workers : req[w].at \in steps /\ req[w].sub = i /\ req'[w] = Idle

\* Stripe bills another plan than the one w moved it to and is about to write.
PlanOvertaken(w) ==
  req[w].at = "moved" /\ stripe[req[w].token].plan # OtherPlan(req[w].plan)

\* The plan of a row is the plan Stripe bills, or is about to be.
PlanAgrees(i) ==
  i \in Saved /\ subs[i].stripe # None =>
    \/ subs[i].plan = stripe[subs[i].stripe].plan
    \/ \E w \in Workers : req[w].at = "moved" /\ req[w].sub = i /\ ~PlanOvertaken(w)

\* A row and Stripe come to differ about the plan only by a request that died
\* after it had moved the plan, or by one that writes the row after a request
\* of another worker moved the plan once more; and by nothing the providers do.
PlanLostByDeathOrRace ==
  [][/\ \A i \in SubIds :
          PlanAgrees(i) /\ ~PlanAgrees(i)' =>
            \/ DiesAt({"moved"}, i)
            \/ \E w \in Workers : PlanOvertaken(w) /\ AnsweredAt(w, i)
     /\ \A w \in Workers :
          ~PlanOvertaken(w) /\ PlanOvertaken(w)' =>
            \E v \in Workers \ {w} :
              /\ req[v].sub = req[w].sub
              /\ req[v].at = "update" /\ req'[v].at = "moved"]_vars

\* The row changed after w loaded it, or PayPal is not where w left it, with no
\* news about this to come.
PaypalOvertaken(w) ==
  LET r == req[w]
      active == paypal[r.token].status = "active" IN
  \/ /\ r.at \in {"suspend", "suspended", "reactivate", "reactivated"}
     /\ r.token \in Profiles /\ r.seen # subs[r.sub].cancelled
  \/ r.at = "suspended" /\ active
  \/ r.at = "reactivated" /\ ~active /\ r.token \notin ipns

\* A PayPal row is open exactly when its profile is active, once no request
\* and no notification about it is under way; given that the payer has one profile only,
\* for a notification names the payer and closes any of his rows.
PaypalAgrees(i) ==
  (/\ i \in Saved /\ subs[i].profile # None
   /\ subs[i].profile \notin ipns
   /\ \A p \in Profiles : paypal[p].payer = subs[i].payer => p = subs[i].profile
   /\ \A w \in Workers : req[w].sub = i => req[w].at \notin {"suspended", "reactivated"})
    => (subs[i].cancelled <=> paypal[subs[i].profile].status # "active")

\* Another worker takes in news of the payer of w's row, or takes a step of a
\* request to suspend or reactivate the same row.
PaypalRace(w) ==
  \E v \in Workers \ {w} :
    \/ /\ req[v].sub = req[w].sub
       /\ req[v].at \in {"suspend", "suspended", "reactivate", "reactivated"}
       /\ req'[v] # req[v]
    \/ /\ Free(v) /\ UNCHANGED req
       /\ \E p \in ipns : paypal[p].payer = subs[req[w].sub].payer

\* A row and PayPal come to differ only by a request that died after PayPal had
\* changed the profile, or by one that ends after another worker overtook it.
PaypalLostByDeathOrRace ==
  [][/\ \A i \in SubIds :
          PaypalAgrees(i) /\ ~PaypalAgrees(i)' =>
            \/ DiesAt({"suspended", "reactivated"}, i)
            \/ \E w \in Workers : PaypalOvertaken(w) /\ AnsweredAt(w, i)
     /\ \A w \in Workers : ~PaypalOvertaken(w) /\ PaypalOvertaken(w)' => PaypalRace(w)]_vars

(* Liveness.                                                               *)

\* Once Stripe ended a card subscription that has a row, the row is closed
\* sooner or later.
EndedIsClosed ==
  \A c \in Customers, i \in SubIds :
    (stripe[c].status = "ended" /\ i \in SubsOfCustomer(c))
      ~> (i \in Saved /\ subs[i].cancelled)

(* Refinement.                                                             *)

BillingOf == [none |-> "none", active |-> "running", canceling |-> "running",
              ended |-> "ended"]

RowAccess(c) ==
  IF SubsOfCustomer(c) = {} THEN "never"
  ELSE IF \A i \in SubsOfCustomer(c) : subs[i].cancelled THEN "closed" ELSE "open"

Card == INSTANCE Entitlement WITH
  Agreements <- Customers,
  Resumes    <- StripeResubscribes,
  provider   <- [c \in Customers |-> BillingOf[stripe[c].status]],
  access     <- [c \in Customers |-> RowAccess(c)],
  due        <- events

\* Requests, rows, workers and lost answers add nothing to the life of a card
\* subscription as Entitlement tells it: granted once, while it is billed, and
\* withdrawn for good after its end was reported.
CardsAreEntitlements == Card!FairEntitlementSpec

(* What the site says of itself, and what the code does not keep.          *)

\* This step ends the request of w with a notice, and no other request is
\* under way that could still change what the notice says.
Says(w, notice) ==
  /\ req[w].said # notice /\ req'[w].said = notice
  /\ \A v \in Workers \ {w} : Free(v)

\* "Billing has been activated!": the user who reads it has access.
ActivatedMeansAccess ==
  [][\A w \in Workers : Says(w, "activated") => HasAccess(req[w].user)']_vars
=============================================================================
