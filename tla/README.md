# A formal model of the dating site

The repository is a Ruby on Rails site where users meet: they sign up, follow
each other, propose dates ("let's go"), ask questions, write messages, upload
photos, and pay a subscription, by card through Stripe or through PayPal, to open
the conversations pages. This directory models its own logic in TLA+, checks the
models with TLC on small instances, and proves the safety properties with TLAPS for
every size of the instance.

The program's own code is small: `app/`, `lib/tasks/`, `config/` and
`db/schema.rb`. Most of its difficulty is not in any single handler. Handlers read
a row, decide, call another company or another table, and write what they decided;
nothing spans the steps. The models are about what happens in between.

To check a run: `tlc -config billing_mixed.cfg MCBilling`. To check the proofs of a
component: `tlapm MailboxProofs.tla`.

## 1. Inventory

| Component | Code | State it keeps | Operations | Model |
|---|---|---|---|---|
| Billing | `subscriptions_controller.rb`, `subscription.rb`, `paypal_payment.rb`, `webhooks_controller.rb`, `notifications_controller.rb` | table `subscriptions`; customers at Stripe; recurring profiles and payments at PayPal | create (card, PayPal), updatesubscription, cancelsubscription, suspend, reactivate, Stripe webhook, PayPal notification, access check | `Billing`, `Entitlement` |
| Mailbox and questions | `conversations_controller.rb`, `messages_controller.rb`, `questions_controller.rb`, `answers_controller.rb`, `letsgos#interested` | tables `conversations`, `notifications`, `receipts` (written by the mailboxer library) and `questions` | write, ask out, interested, reply, show, trash_all, ask and destroy a question, answer | `Mailbox` |
| Retention | `lib/tasks/messages.rake`, `config/schedule.rb` | removes old rows of the three mailboxer tables | remove_old_receipts, remove_old_notifications, remove_old_conversations | `Mailbox` |
| Members, following, dates | `users_controller.rb`, `user.rb`, `relationships_controller.rb`, `letsgos_controller.rb`, `letsgo.rb` | tables `users`, `relationships`, `letsgos` | sign up, change the name or the e-mail, delete, follow, unfollow, post, repost, delete a date | `Members` |
| Password resets | `password_resets_controller.rb`, `user.rb`, `user_mailer.rb`, `users#update` | columns `password_reset_token`, `password_reset_sent_at`, `password_digest` | ask for a link, reset, change the password in the settings | `PasswordReset`, `ResetLock` |
| Photos | `photos_controller.rb`, `photo.rb`, the two pages with buttons | table `photos`, column `avatar_id` | upload with a quota of 5, delete, set as avatar | `Photos` |
| Feed of dates and matching | `letsgos#index`, its view, `users#create` | column `sexuality`; pages by offset over `letsgos` | next page, previous page, who is shown to whom | `Feed` |
| Ages and search | `user.rb`, `search.rb` | column `age` | age, stored age, bounds of a search | `Ages` |
| Sessions, worker, PayPal interface, favorites, profile, contacts, mailers, admin pages, charges, search index, views, vendored code | see `PROJECT.json` | none that another operation depends on, or not reachable | | not modelled (section 7) |

How they interact. A request carries a cookie; `current_user` reads the user by its
`auth_token`. Billing decides who passes `check_has_access`, the filter of every
conversations page; writing messages, asking and answering have no such filter.
Questions and interest in a date go through `send_message`, as messages do.
Deleting a user deletes its dates and relationships, and leaves its subscription,
its photos and its messages. Stripe and PayPal are told what to do inside a
request and answer later through `subscription_event` and `paypal/ipn`.

What is hard, and what makes each part correct:

* Billing: three copies of one fact, in the table, at Stripe and at PayPal. Requests
  die between two of them, two requests work on one row from copies loaded earlier,
  and the news that an agreement ended comes late, twice or out of order. Correct
  means: access is paid for, what is billed is known, what is closed stays closed
  and is not billed, and who stopped paying loses access in the end.
* Mailbox: two users share the messages of a conversation and each has flags on
  copies of its own. Correct means that a message is not marked as read unseen, that
  nobody's request touches the flags of the other, that a question leads to the
  conversation it opened, and that the clean-up takes old rows only.
* Members: rules without an index or a foreign key behind them. Correct means unique
  names and e-mails, and no rows of users that are gone.
* Resets: besides the settings of who is logged in only the newest link sets a
  password, for two hours, and it does reach its user, however many requests overlap.
* Photos: at most five, none without a user, an avatar that exists, and a way back
  for a user whose avatar is gone.
* Feed: no date skipped while others come and go, and nobody shown whom the reader
  did not ask for. Ages: the same age wherever a user is looked for.

The hazards are listed one by one, at their lines, in `PROJECT.json`.

## 2. Modules

| Module | What it is |
|---|---|
| `Billing` | the subscription requests, both providers, the webhook and the notification |
| `Entitlement` | abstract: what the site promises about a card subscription |
| `BillingProofs`, `PaymentProofs` | theorems about `Billing` and its refinement of `Entitlement`; about what is paid, and about a row and its provider |
| `Mailbox`, `MailboxProofs` | conversations, questions, retention |
| `Members`, `MembersProofs` | sign-up, names and e-mails, following, dates, deletion |
| `PasswordReset`, `PasswordResetProofs` | links that reset a password, and the settings that change it |
| `ResetLock` | abstract: a lock turned only from the inside or by who showed the newest key while it was young |
| `Photos`, `PhotosProofs` | uploads, removal, avatars, the pages with their buttons |
| `Feed`, `FeedProofs` | matching, and a reader who turns pages of a changing list |
| `Ages`, `AgesProofs` | three ways to tell an age |
| `MC...` | the instances of each module for TLC: symmetry sets, small calendars |

Conventions shared by the modules. A table is a set of records, or a function from
keys to rows or `None`; keys are handed out in order and never again. A server
process is a member of `Workers`; `req[w]` is the memory of the request it serves:
where it is (`at`) and what it has read. An action covers what a handler does up
to and including one call to a provider, one statement or one transaction. `Fail(w)`
is a process that dies, a call whose answer is lost, or a mail that raises after
the rows were saved: the memory is gone and the stores keep what they have.
Operators introduced by a comment that starts with "Slip" are deliberate mistakes;
no specification uses them. Each stands before the definition it imitates, and
replacing that definition by it makes TLC find one of the properties violated, which
shows that the property depends on the code.

### Billing

State: `subs` (the table), `stripe` and `paypal` (agreements with plan and status),
`payments` (one-off PayPal payments taken), `events` and `ipns` (ends the providers
have still to report), `req`.

| Action | Code |
|---|---|
| `CreateCustomer`, `SaveStripeRow` | `subscription.rb` 72-101: the customer is created, and billed, before `save!` |
| `RequestPayment`, `CreateProfile`, `SavePaypalRow` | `paypal_payment.rb` 15-18, `subscription.rb` 86-90 |
| `LoadForUpdate`, `MovePlan`, `SavePlan`, `UpdateRefused` | `updatesubscription`: load, Stripe, then the row |
| `CancelSubscription` | `cancelsubscription`: at the end of the period, at Stripe only |
| `LoadForPaypal`, `SuspendProfile`, `SaveSuspended`, `ReactivateProfile`, `SaveReactivated`, `PaypalRefused` | `suspend` and `reactivate` |
| `StripeWebhook`, `PaypalIpn` | `webhooks_controller.rb` 5-16, `notifications_controller.rb` 5-15 |
| `StripeEnds`, `PayerCancels` | external: the providers end an agreement |

`user.subscription` and `find_by` select one row without an order: `SubsOf`,
`SubsOfCustomer` and `SubsOfPayer` are sets and an action takes any member. Active
Record writes only the columns it believes changed, against the copy it loaded:
hence `seen` in the request. `StripeResubscribes` covers both things Stripe can do
when the plan of a customer without a subscription is changed.

### Mailbox

State: the four tables, the keys handed out, a clock, `req`. Mailboxer is a library
outside the repository and is modelled from how the code uses it: `Deliver` saves a
message with the copy of its recipient, `SaveOwnCopy` the copy of its sender in a
transaction of its own; a reply goes to those who have a copy of the last message.
`show` is two actions, `OpenConversation` (the `update_all`, of all copies, whatever
page `n` is asked for) and `LoadPage` (the rows of that page, loaded by the view:
`PagesOf` is OFFSET and LIMIT without an order, so any rows of the right number). The
scrolling of the view asks for page 2 and on; a request may ask for any page. `trash_all` files one conversation per action. A question
is saved, posted and linked. Each rake task is one statement that fails as a whole
if a row is still referred to. `Subscribers` stands for the outcome of
`check_has_access`. A conversation has the key of its first message, which renames
keys and no more.

### Members

State: `users`, `relationships`, `letsgos`, the keys handed out, `req`. `overtaken` is not
in the code and steers nothing: the requests that looked for a name which somebody
else was given since (`Watch`, which goes with every `Step`).

| Action | Code |
|---|---|
| `CheckSignup`, `InsertUser` | the two uniqueness checks, then the insert, of which only the e-mail is guarded by an index |
| `CheckUpdate`, `SaveUpdate` | the same for the settings, where a user changes the name, the e-mail or both (`users_controller.rb` 112-121): the whole row is checked, and the columns that changed are written |
| `BeginFollow`, `BeginFollowOnce`, `SaveFollow` | `follow!`, with and without the question whether one follows already |
| `BeginUnfollow`, `SaveUnfollow` | finds one row of the pair, and deletes it by its key |
| `BeginPost`, `BeginRepost`, `SaveDate`, `DestroyLetsgo` | dates |
| `BeginDestroy`, `CommitDestroy` | reads the dependent rows; deletes them by key, and the user, in one transaction |

Following is possible for oneself too: a profile shows the button to its own user.
The reads of a deletion do not see what others insert meanwhile. The second
`destroy` of the controller finds its associations emptied and does nothing.

### PasswordReset and ResetLock

State: the three columns, the links mailed to each user, a clock, `req`. `issued`
(when each token was drawn) and `lost` (tokens whose mail was never sent) are not in
the code and no guard of the code's reads them; tokens are counted instead of drawn
at random, so two are never equal.

| Action | Code |
|---|---|
| `AskReset` | `send_password_reset` draws a token and takes the time (`user.rb` 217-219) |
| `SaveReset`, `MailLink` | `save!`, then the mail (219-222) |
| `OpenLink` | `update` finds the row by the token and looks at the time (`password_resets_controller.rb` 15-18) |
| `OpenSettings` | `users#update` finds the row by the cookie, or by the name an administrator sends, and asks for no token (`users_controller.rb` 112-119) |
| `SavePassword` | `update_attributes`, of both controllers, writes the password and leaves the token (`password_resets_controller.rb` 19-24) |

`ResetLock` knows keys that are cut, one key installed per lock, attempts that
showed it or come from the inside, and a setting. `AskReset` is `Cut`, `SaveReset` is
`Install`, `OpenLink` is `Show`, `OpenSettings` is `FromInside`, `SavePassword` is
`Turn`, or `GiveUp` for a blank form, a request of either form that dies is `GiveUp`,
and everything else is a stutter. The
promise is the one the code keeps: the key need not be the newest any more when the
lock turns, it can be used again, and it fits still when the lock was set from the
inside. A log in is not modelled: no change of a password ends one, so any user may
be logged in at any time.

### Photos

State: `users`, `photos`, `avatar`, the buttons on pages shown so far (`page`),
`req`, and `abandoned`, which is not in the code: the photos whose upload died, was
refused or came without a log in. `Default` is the 8 of `schema.rb:307`, the key of a
photo that is still to come.

| Action | Code |
|---|---|
| `CreatePhoto` | `Photo.create` saves a row without a user (`photos_controller.rb` 11-12), whoever sends the form |
| `CountPhotos`, `RefusePhoto` | the validation counts the user's photos, if somebody is logged in (`photo.rb` 23-28) |
| `SavePhoto` | the row gets its user, if there is one (`photos_controller.rb` 13-16) |
| `ViewProfile`, `ViewPictures` | pages that offer the buttons, and raise when an avatar or a user is missing |
| `DestroyPhoto`, `SetAvatar` | the requests of the two buttons, from a page that may be old or by hand: any key, and for the removal no log in (51-65) |
| `DestroyUser` | takes no photo along: the association has no `dependent` |

### Feed

State: `gender`, `sexuality`, the state of each zip code, `letsgos`, a clock, the
page on the screen. `boxes`, what was ticked in the sign-up form, is not a column:
it is what `sexuality` is meant to keep. `seen`, `reached`, `steady`, `gone` and
`came` watch the walk through the pages and steer nothing. `SexualityOf` is
`users#create`, `Genders` the way back in `letsgos#index` (the same text stands in
`users#speed_date`), `Slices` is OFFSET and LIMIT under an ORDER BY that leaves ties
open, `NextPage` and `PreviousPage` send `@page` and `@page - 2` as the forms do. In
this version of Rails an order added to a default scope is put before it, so the
feed is oldest first, whatever the default scope says.

### Ages

State: the date, and of each user the birthday, the stored age and when the row was
saved. Dates are records of a year, a month and a day under the Gregorian calendar.
`Age` is `user.rb` 163-166, `StoredAge` the callback of every save (168-170),
`Found` the bounds on the birthday in `search.rb` 18-24, with `n.years.ago` going
back to the 28th of February where there is no 29th.

## 3. Runs

| Run | Properties | What it shows |
|---|---|---|
| `billing_mixed` | `TypeOK`, `TokensNameOneRow`, `StripeAccessIsPaid`, `PaypalIsPaidFor`, `ClosedStaysClosed`, `BilledIsKnown`, `PlanLostByDeathOrRace`, `PaypalLostByDeathOrRace` | two workers, a card and a PayPal subscription, failures, repeated news: access is paid for, what is closed stays closed, an agreement the site does not know comes only from a create that died, and a row and its provider come to differ only by a request that died between the two or was overtaken there by another |
| `billing_cards` | `ClosedIsNotBilled` | two workers, a user with two card subscriptions, failures: with two ends to report, nothing is closed that Stripe still bills |
| `billing_live` | `EndedIsClosed`, `CardsAreEntitlements` | two workers and failures: an ended card subscription loses access in the end; `Billing` implements `Entitlement`, with its fairness |
| `mailbox_mixed` | `TypeOK`, `PageShowsWhatItMarks`, `FlagsAreTheReceivers`, `YoungStays`, `NoReplyIsLost` | two users, two workers, failures, the rake tasks in any order: a page that is not full hides no more of what it marked than fits on the pages before it |
| `mailbox_questions` | `QuestionsReachRecipient`, `SavedQuestionIsLinked` | two questions, overlapping, destroyed and answered at any time; without failures each gets its conversation |
| `members_mixed` | `TypeOK`, `EmailsUnique`, `NamesGivenTwiceByRace`, `FollowEndsByRequest`, `DeletionTakesItsRows` | two workers, overlapping sign-ups, changes of names and e-mails, follows, dates and deletions: a name is given twice, by a sign-up or a renaming, only by a request that another one overtook, and a deletion leaves only rows saved while it ran |
| `resets` | `TypeOK`, `LinkOnItsWay`, `ResetsAreALock` | two users, two workers, three links in flight in any order, requests that die, passwords changed in the settings meanwhile: the link that works has been mailed, or will be, or its request died; `PasswordReset` implements `ResetLock`, with its fairness |
| `photos` | `TypeOK`, `QuotaWithOverlap`, `OwnerlessIsAbandoned`, `AbandonedNotOffered`, `OfferedToItsUser`, `LockedOutStays` | overlapping uploads pass the quota by less than the number of workers; photos without a user come only from uploads that died, were refused or had no log in, and no page offers them for removal; pages offer the photos of their own user, which is all that keeps users from those of others; a user whose avatar was removed and who has no page open gets one back only by a request by hand |
| `feed` | `TypeOK`, `MissesForDepartures`, `ShownAsTicked`, `NextShowsNew` | a reader misses no more of the dates that were there all the time than left the list meanwhile, sees a date on two pages in a row only when one came in before it, and is shown nobody of a gender not asked for |
| `ages` | `TypeOK`, `SearchFindsNoStranger`, `SearchMissesTheOldest`, `StoredAgeDrifts` | a search finds nobody outside its bounds, but misses everybody of the highest age whose birthday is not today; the stored age is one too high until the birthday and falls behind by a year with every year the row is not saved |

Several of these say precisely how far a promise is broken, by overlap, by failure or
by the passing of time, and no further: `QuotaWithOverlap`, `NamesGivenTwiceByRace`,
`PlanLostByDeathOrRace`, `PaypalLostByDeathOrRace`, `MissesForDepartures`,
`SearchMissesTheOldest`, `StoredAgeDrifts`, `LockedOutStays`.

Two more runs state what the repository says of itself and the code does not keep;
TLC shows each violated:

| Run | Property | The text | The code |
|---|---|---|---|
| `billing_activated` | `ActivatedMeansAccess` | "Billing has been activated!" (`subscriptions_controller.rb:84`) | a suspend that overlaps leaves the row closed while PayPal bills |
| `members_names` | `UsernamesUnique` | `validates_uniqueness_of :username` (`user.rb:60`) | a check without an index: two users get one name |

Disagreements that no run states, because they follow from these or need no model to
be seen: `has_one :subscription` (`user.rb:39`), while creating looks for no earlier
row and a user can have two, both billed, of which cancelling ends one; two plan
changes that overlap can leave Stripe billing another plan than the notice names;
the rake tasks speak of a day and go by 90, and one old conversation in use makes
the statement that removes them fail for all (`messages.rake:13`); the column meant
to "save the user id of original repost" gets the key of the date (`letsgo.rb:24`);
a row saved while its user is deleted stays behind in spite of
`dependent: :destroy`; a blank form changes nothing and says "Password has been
reset!" (`password_resets_controller.rb:20`); "Set as avatar!" is said of a photo
that is gone (`photos_controller.rb:64`).

## 4. Bounds, and why they are enough

Every hazard found so far is a race of two requests, or of a request and a message,
a mail or a task, on one or two rows; two workers give every such race, and the
proofs are for any values of the bounds.

* Billing: `billing_mixed` has one user (two users share no row, customer or
  profile), two workers, one agreement of each kind and as many rows as agreements,
  so that saving a row never fails for want of a key. `MaxPayments` is 2, so that a
  payment whose profile failed can be paid again. A payer with two profiles, whose
  notification may close either row, is left out of `PaypalAgrees` and, for the other
  properties, left to the proofs. `billing_cards` has two agreements of one kind, so
  that the webhook has a wrong row to choose.
  `ClosedIsNotBilled` holds where Stripe bills nobody again on a change of plan, hence
  `StripeResubscribes = FALSE` in that run. `billing_live` has one card subscription,
  which no other one disturbs (`TokensNameOneRow`).
* Mailbox: two users, two messages (a message and a reply, or two conversations) and
  pages of two receipts, so that the first page can be partly filled, filled by a
  message that arrives meanwhile, and full, and later ones are empty. A later page
  that is partly filled takes a third message, which is left to the theorem: it is
  for all numbers and sizes of pages. A tick
  of the clock of `mailbox_mixed` is the whole retention: `Retention` is 0 and a row
  is old when it was saved before the tick, so rows can be young and old, a reply can
  be younger than its conversation, and a copy younger than its message.
  `mailbox_questions` lets no time pass: retention plays no part in linking a
  question; nobody subscribes in it, since asking and answering have no such filter
  and the actions that have one write nothing a question depends on. In
  `mailbox_mixed` both users subscribe, which allows the most. `Room` reserves a key
  for every request that is going to write a message, so that the bound stops new
  requests and never one under way.
* Members: two users, two follows and dates, two names and e-mails. A deleted user's
  name can be taken again. `since` in the memory of a request is not in the code: it
  holds the last keys when the rows were read, so that `DeletionTakesItsRows` can tell
  the rows saved later, as `overtaken` tells `NamesGivenTwiceByRace` the names given
  later.
* Resets: three tokens (two of one user, which race, and one of another, which must
  not matter). As in the mailbox a tick of the clock is the whole lifetime: a link is
  young until the tick, and old after it (`Lifetime` is 0), so that it can expire
  between any two steps, also before it is saved, and be replaced by another that is
  young while it is not.
* Photos: a limit of one and two workers give the overlap, three photos leave one
  more to be refused. `Default` is 2: the default photo comes after one that is not,
  is uploaded by either user or by nobody, and can be removed.
* Feed: pages of one date, three dates, so that there is a page to skip, a page to
  turn back to and one more; two seconds leave a tie and an order; two states and one
  move let a date leave or come without being posted.
* Ages: dates from 2011 to 2013 around the 29th of February 2012 and the turns of
  the year, birthdays on and around such a day in years that are leap years and that
  are not, bounds on both sides of the ages these give. `Bounds` are searched in
  both orders. The proofs are for any dates.

`CHECK_DEADLOCK FALSE` stands in the runs of billing, resets and photos, where every
key or token can be used and every agreement or user can have ended; the other runs
check for deadlock.

Symmetry is used in safety runs only, over sets whose members no definition names.

## 5. Fairness

* `WF_vars(Continue(w))` in `Billing`, `Mailbox` and `PasswordReset`: a request that
  was begun takes its next step, unless its process dies. Nothing forces a user to
  begin one.
* `SF_vars(StripeWebhook(c))` and `SF_vars(PaypalIpn(p))`: the providers repeat a
  message until it is answered, and a worker is free again and again, though not at
  every moment.
* None is assumed of the rake tasks, for nothing in the repository schedules them,
  and none of users, mails or the clock. `Members`, `Photos`, `Feed` and `Ages` have
  no liveness property: what must happen in them is up to a user.

## 6. Proofs

The theorems hold for any sets of users, workers, agreements, keys, photos, dates,
names and times, with or without failures. The assumptions are the named ones of the
modules, which TLC evaluates in every run: the constants have the types they should,
and `None` is none of the things it stands beside. No other fact is assumed.

Every safety invariant and action property of the passing runs is proved; the list,
with what each theorem establishes, is in `PROJECT.json`. None of the properties is
inductive alone. Each proof module defines the invariant that is, proves it with one
lemma per action and one step per part the action can disturb, and derives the
properties:

* `BillingInv`: `TypeOK`, `TokensNameOneRow`, `StripeAccessIsPaid`,
  `ClosedIsNotBilled`, and four parts about requests, rows and news. Saving a row
  keeps `TokensNameOneRow` only because the customer in the memory of the request is in no row yet and in no other request's
  memory: `Fresh` and `HeldOnce`. It keeps `StripeAccessIsPaid` only because that
  customer is billed, which is also in `Fresh`: a billing period lasts a
  month or a year at Stripe (a day at PayPal, whose profiles are `period: :daily`) and a
  request seconds, so `StripeEnds` leaves an agreement alone while the request that
  made it still runs. Writing a row from a loaded copy keeps both only because the
  copy's token is still the row's (`RequestOK`: rows never change their customer or
  profile). The webhook keeps `ClosedIsNotBilled` only because news speaks of
  agreements that ended (`NewsOK`).
* `CardsRefine`: every step is a step of `Entitlement` or changes nothing of it. The
  refinement maps Stripe's status to `provider`, the rows of a customer to `access`
  (never, open, closed) and `events` to `due`. `SaveStripeRow` is `Grant`, the webhook
  is `Report`, `StripeEnds` is `End`, a plan change that bills again is `Resume`; a
  cancellation, which lets the paid period run out, and everything about PayPal and
  requests is a stutter.
* `PaymentProofs` adds to `BillingInv`, for any number of workers: `PayInv`, that the
  profiles of a payer and the requests of this payer that have paid and not yet a
  profile are together no more than the payments, with the rows counted by an
  injection into the profiles; `PlanInv` and `PaypalInv`, about agreements whose rows
  are still to be saved; and `OwnRow`. The code does not keep a row and its provider
  together when requests overlap, so the promise is stated with its exceptions:
  `PlanOvertaken` and `PaypalOvertaken` name the requests whose copy is no longer so,
  and the two `...LostByDeathOrRace` theorems say both that nothing but death or such
  a request parts the two, and that only a step of another worker overtakes one.
  The same argument shows how far a message can be wrong
  (`ActivatedMeansAccessOrOvertaken`: "activated" is false only to a request that was
  overtaken). With one worker `NotOvertaken` is an invariant, which leaves death
  alone (`LostByDeathAlone`) and makes `ActivatedMeansAccess` hold, the property that
  `billing_activated` refutes for two.
* `MailboxInv`: rows refer to rows (`MessagesOK`, `CopiesOK`), a message was delivered
  to whom it was sent (`DeliveredOK`), a question and the request that asks it name
  one conversation (`QuestionsOK`, `RequestsOK`), and there is room for every
  message under way (`RoomOK`), without which the bound itself would stop a request.
  Of the liveness property `SavedQuestionIsLinked` the safety part is proved: a
  question waits for ever only when its request died or its message was removed before
  the sender had a copy (`UnlinkedByDeath`), and where neither can happen a request
  stands behind every question that waits (`UnlinkedIsPursued`).
* `MembersInv`: keys are handed out once and in order (`KeysOK`), and a request that
  deletes has all rows but those with later keys (`RequestsOK`). `NamesInv` counts the
  users of a name together with the sign-ups and renamings to it that have passed the
  check: no more than there are workers, for once there is a user of the name no other
  request passes, and before that every one takes a worker. `OvertakenOK` says that a
  request which looked for a name that a user has by now was overtaken. Hence `FewShareAName`, and
  `UsernamesUnique`, which `members_names` refutes for two workers, holds for one.
* `ResetInv`: a token is in one row and goes to one mailbox (`OneOwner`,
  `MailedWereDrawn`, `LinkIsItsReaders`) and the time beside it is its own
  (`SentWithItsToken`); `ResetsAreALockTheorem` is the safety part of the refinement,
  in which the settings are an attempt without a key.
  `OldLinksStayUseless` is about a link over time: once it left the row or grew old,
  nothing that is saved, mailed or followed later makes it open a form again.
* `PhotosInv`: an upload under way holds a photo of its own without a user
  (`UploadsOK`), an abandoned one never gets a user (`AbandonedAreOwnerless`), and
  pages offer only photos that have one, none that an upload holds (`PagesOK`), on a
  profile its user's (`OfferedToItsUser`), whatever is removed or chosen by hand.
  `LockedOutStaysTheorem` rests on keys that only grow. `QuotaInv` counts the
  uploads that have passed the validation together with the photos: fewer than the
  limit plus the workers; with one worker that is the limit (`QuotaKeptAlone`).
* `FeedInv`: dates that were in the list all the time have a place of their own in it
  (`SteadyOK`), those on the screen have moved at most towards the front as long as
  none came in (`ScreenOK`), and the stored word means the boxes for this gender
  (`SexualityOK`, by `GendersUndoesSexualityOf`). What OFFSET and LIMIT cut out is
  told by the place of a date alone (`CutGoesByPlace`), whatever is done with ties;
  from it follow that a date is on one page of the list and no other
  (`EveryDateHasOnePage`), and that nothing is missed while nothing leaves.
* `AgesInv`: the age in a row is the difference of the years of its birthday and its
  last save (`SavedAge`). The algorithms are compared with what they should compute,
  for all dates: the age with the number of birthdays passed (`AgeCountsBirthdays`),
  and a search with the ages it finds (`FoundExactly`).

Only model-checked: `EndedIsClosed` and `SavedQuestionIsLinked`, which are liveness
properties, and the fairness parts of `CardsAreEntitlements` and `ResetsAreALock`,
all out of reach of the prover; so is the existence of a page for every offset, which
takes induction over the list. The two violated properties are shown by TLC's
counterexamples, which take two workers; for one worker both are proved. Theorems about one worker have that as a hypothesis, since nothing in
the repository fixes the number of server processes.

## 7. Not modelled

* A search with a blank bound, which drops the condition on the age (`search.rb:18`):
  the form that reaches this code sends both bounds.
* Vendored C sources (ImageMagick, libiconv), style sheets, script libraries, images
  and data. In lines they are nearly all of the repository, but they are releases of
  other projects kept beside the program: `image_uploader.rb` resizes uploads with
  whatever ImageMagick is installed, nothing builds or calls these copies, and none
  of the program's behaviour is decided there. Counted with them, next to nothing of
  the repository is modelled; of the Ruby that is the program, most of what changes
  state is.
* Sessions: log in reads a row and sets a cookie, log out deletes it. The
  `auth_token` never changes after the sign-up, so no order of requests gives a
  property anything to be about.
* Layout, wording, mail bodies, images and the search index.
* Code no request reaches: `trash`, `trash_folder`, `empty_trash`,
  `trash_conversations` and `untrash` (no route, or a route without the key they
  need), favorites, profile, credit cards, the actions of galleries but its list,
  `UserMessageWorker`, the PayPal interface in `lib/modules`, the scheduled
  `Notification.old.destroy` (there is no `old`).
* Pages that only list or count: admin, top, archives, plans, `speed_date`, dates by
  tag, a random date, the age groups of the statistics.
* `update_card` and `update_stripe_billing` replace a card at Stripe; no state here
  depends on it. A user who deletes the account leaves the subscription behind: that
  is in `Members` for the rows it owns and in `Photos` for the photos, and not in
  `Billing`.
* The text of messages and answers: who overwrites whose answer is not told apart,
  nor an answer saved for a conversation that is gone.
* The server's clock and UTC are taken to show one date (`Ages`): near midnight
  `Date.today` and `Time.now.utc` can differ by a day.

## 8. What could come next

`Billing`, `Mailbox` and `Members` composed into one site: access that ends while a
request runs, a deleted user with a running agreement and unread messages. A third
worker in `mailbox_mixed` and `members_mixed`, and two agreements of each kind in
`billing_mixed`, for the runs alone: the proofs already hold for those.
