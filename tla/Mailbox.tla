------------------------------- MODULE Mailbox -------------------------------
(***************************************************************************)
(* Messages between users: conversations, questions asked on a profile,    *)
(* the answer to a question, the trash, and the rake tasks that remove old *)
(* rows.                                                                   *)
(*                                                                         *)
(* The rows are written by the mailboxer library, one transaction for a    *)
(* message with the copy of its recipient and another for the copy of its  *)
(* sender, and read by statements of their own.  A request is one action   *)
(* per transaction or statement; several workers serve requests, a request *)
(* can die between two of them, and an operator runs the rake tasks        *)
(* whenever he likes.                                                      *)
(***************************************************************************)
EXTENDS Naturals, FiniteSets

CONSTANTS
  Users,         \* logged-in users
  Subscribers,   \* the users check_has_access lets in
  Workers,       \* server processes
  MaxMessages,   \* bound on the messages ever written
  MaxQuestions,  \* bound on the questions ever asked
  MaxTime,       \* bound on the clock
  Retention,     \* the 90 days of the rake tasks, in units of the clock
  PerPage,       \* receipts on a page of a conversation
  MayFail,       \* whether a request can die half way
  None           \* SQL NULL, or nothing

ASSUME MailboxAssumption ==
  /\ Subscribers \subseteq Users
  /\ IsFiniteSet(Workers)
  /\ {MaxMessages, MaxQuestions, MaxTime, Retention} \subseteq Nat
  /\ PerPage \in Nat \ {0}
  /\ MayFail \in BOOLEAN
  /\ None \notin Users \cup Nat

VARIABLES
  conversations,  \* table conversations
  notifications,  \* table notifications: the messages
  receipts,       \* table receipts: a user's copy of a message
  questions,      \* table questions
  written,        \* key of the last message
  asked,          \* key of the last question
  now,            \* the clock
  req             \* worker -> the request it is serving

tables == <<conversations, notifications, receipts, questions, written, asked>>
vars == <<tables, now, req>>

MessageIds == 1..MaxMessages
QuestionIds == 1..MaxQuestions
Time == 0..MaxTime

\* The pages of a conversation one can ask for: the last of them is always empty.
Pages == 1..(MaxMessages + 1)

\* A conversation has the key of the message that opened it.
Conversation == [id: MessageIds, created: Time]

\* to is not a column: it is the list a message is delivered with.
Message == [id: MessageIds, conversation: MessageIds, sender: Users,
            to: SUBSET Users, created: Time]

Receipt == [notification: MessageIds, receiver: Users,
            box: {"inbox", "sentbox"}, read: BOOLEAN, trashed: BOOLEAN,
            created: Time]

Question == [id: QuestionIds, sender: Users, recipient: Users,
             answered: BOOLEAN, conversation: MessageIds \cup {None}]

Request == [at: {"idle", "render", "page", "reply", "trash", "ask", "sent",
                 "link", "answered"},
            user: Users \cup {None}, ids: SUBSET MessageIds, page: Pages,
            question: QuestionIds \cup {None}, to: Users \cup {None}]

Idle == [at |-> "idle", user |-> None, ids |-> {}, page |-> 1,
         question |-> None, to |-> None]

\* The type invariant: the rows of the four tables, the keys handed out
\* and the memory of every request.
TypeOK ==
  /\ conversations \subseteq Conversation
  /\ notifications \subseteq Message
  /\ receipts \subseteq Receipt
  /\ questions \subseteq Question
  /\ written \in 0..MaxMessages /\ asked \in 0..MaxQuestions
  /\ now \in Time
  /\ req \in [Workers -> Request]

Init ==
  /\ conversations = {} /\ notifications = {} /\ receipts = {}
  /\ questions = {} /\ written = 0 /\ asked = 0
  /\ now = 0
  /\ req = [w \in Workers |-> Idle]

-----------------------------------------------------------------------------
(* Queries.                                                                *)

MessagesOf(c) == {m \in notifications : m.conversation = c}

\* receipts_for: the copies u has of the messages of conversation c.
CopiesOf(u, c) ==
  {r \in receipts : /\ r.receiver = u
                    /\ \E m \in MessagesOf(c) : m.id = r.notification}

\* mailbox.conversations: those u has a copy of anything of, trashed or not.
Mine(u) == {c \in MessageIds : CopiesOf(u, c) # {}}

\* ORDER BY created_at DESC LIMIT 1 takes any of these.
LastMessages(c) ==
  {m \in MessagesOf(c) : \A n \in MessagesOf(c) : n.created <= m.created}

Receivers(m) == {r.receiver : r \in {s \in receipts : s.notification = m.id}}

Old(row) == row.created + Retention < now

Free(w) == req[w].at = "idle"

\* Bound: every request that will write a message finds a key for it.
Room == written + Cardinality({w \in Workers : req[w].at \in {"ask", "reply"}})
          < MaxMessages

\* What w remembers next.
Remember(w, memory) == req' = [req EXCEPT ![w] = memory]
Go(w, step) == Remember(w, [req[w] EXCEPT !.at = step])
Drop(w) == Remember(w, Idle)
Enter(w, u, step, ids) ==
  Remember(w, [Idle EXCEPT !.at = step, !.user = u, !.ids = ids])

\* update_all(is_read: true), move_to_trash and untrash of a set of copies.
MarkRead(copies) ==
  receipts' = (receipts \ copies) \cup {[r EXCEPT !.read = TRUE] : r \in copies}
SetTrashed(copies, trashed) ==
  receipts' = (receipts \ copies)
                \cup {[r EXCEPT !.trashed = trashed] : r \in copies}

-----------------------------------------------------------------------------
(* Writing messages.                                                       *)

\* Slip: dates the copy later than it is saved.
CopyOfTomorrow(m, u, box) ==
  [notification |-> m, receiver |-> u, box |-> box, read |-> box = "sentbox",
   trashed |-> FALSE, created |-> now + 1]

Copy(m, u, box) ==
  [notification |-> m, receiver |-> u, box |-> box, read |-> box = "sentbox",
   trashed |-> FALSE, created |-> now]

\* The message, in conversation c, with the copies of those it is addressed
\* to; the first row saved takes the message with it, so a message to nobody
\* comes with the copy of its sender.
Deliver(u, c, to) ==
  /\ written' = written + 1
  /\ notifications' = notifications \cup
       {[id |-> written', conversation |-> c, sender |-> u, to |-> to,
         created |-> now]}
  /\ receipts' = receipts \cup {Copy(written', v, "inbox") : v \in to} \cup
       (IF to = {} THEN {Copy(written', u, "sentbox")} ELSE {})

\* send_message: a conversation of its own with a first message.
SendMessage(u, v) ==
  /\ Deliver(u, written + 1, {v})
  /\ conversations' = conversations \cup {[id |-> written + 1, created |-> now]}

\* create, askout and interested: the pages offer them for other users only.
Write(w, u, v) ==
  /\ Free(w) /\ Room /\ u # v
  /\ SendMessage(u, v)
  /\ Enter(w, u, "sent", {written + 1})
  /\ UNCHANGED <<questions, asked, now>>

\* The second transaction: the sender's own copy.  It is refused if the message
\* is gone.
SaveOwnCopy(w) ==
  /\ req[w].at = "sent"
  /\ \E m \in notifications :
       /\ m.id \in req[w].ids
       /\ receipts' = receipts \cup {Copy(m.id, req[w].user, "sentbox")}
  /\ IF req[w].question = None THEN Drop(w) ELSE Go(w, "link")
  /\ UNCHANGED <<conversations, notifications, questions, written, asked, now>>

\* reply: the filter finds the conversation and the library takes it out of
\* the trash ...
FindForReply(w, u, c) ==
  /\ Free(w) /\ Room
  /\ u \in Subscribers /\ c \in Mine(u)
  /\ SetTrashed(CopiesOf(u, c), FALSE)
  /\ Enter(w, u, "reply", {c})
  /\ UNCHANGED <<conversations, notifications, questions, written, asked, now>>

\* Slip: replies to the sender of the last message only.
PostReplyToSender(w) ==
  /\ req[w].at = "reply"
  /\ \E c \in req[w].ids : \E last \in LastMessages(c) :
       LET to == {last.sender} \ {req[w].user} IN
       /\ Deliver(req[w].user, c, to)
       /\ IF to = {} THEN Drop(w)
                     ELSE Enter(w, req[w].user, "sent", {written + 1})
  /\ UNCHANGED <<conversations, questions, asked, now>>

\* ... and writes to those who have a copy of the last message.
PostReply(w) ==
  /\ req[w].at = "reply"
  /\ \E c \in req[w].ids : \E last \in LastMessages(c) :
       LET to == Receivers(last) \ {req[w].user} IN
       /\ Deliver(req[w].user, c, to)
       /\ IF to = {} THEN Drop(w)
                     ELSE Enter(w, req[w].user, "sent", {written + 1})
  /\ UNCHANGED <<conversations, questions, asked, now>>

-----------------------------------------------------------------------------
(* Reading and filing.                                                     *)

\* Slip: leaves out recipient(user) and marks the copies of both users.
OpenConversationForAll(w, u, c, n) ==
  /\ Free(w) /\ u \in Subscribers /\ c \in Mine(u)
  /\ MarkRead(UNION {CopiesOf(v, c) : v \in Users})
  /\ Remember(w, [Idle EXCEPT !.at = "render", !.user = u, !.ids = {c},
                             !.page = n])
  /\ UNCHANGED <<conversations, notifications, questions, written, asked, now>>

\* show: whichever page n is asked for, every copy the user has in the
\* conversation is marked as read ...
OpenConversation(w, u, c, n) ==
  /\ Free(w) /\ u \in Subscribers /\ c \in Mine(u)
  /\ MarkRead(CopiesOf(u, c))
  /\ Remember(w, [Idle EXCEPT !.at = "render", !.user = u, !.ids = {c},
                             !.page = n])
  /\ UNCHANGED <<conversations, notifications, questions, written, asked, now>>

\* The OFFSET of page n.
Skipped(n) == (n - 1) * PerPage

\* OFFSET and LIMIT without an ORDER BY: any rows, no more than fit, none of those
\* passed over, and none left if there is room.
PagesOf(copies, n) ==
  {page \in SUBSET copies :
     /\ Cardinality(page) <= PerPage
     /\ page = {} \/ Skipped(n) + Cardinality(page) <= Cardinality(copies)
     /\ \/ Cardinality(page) = PerPage
        \/ Cardinality(copies) <= Skipped(n) + Cardinality(page)}

\* Slip: leaves out the copies in the trash, which were marked all the same.
LoadPageUntrashed(w) ==
  /\ req[w].at = "render"
  /\ \E c \in req[w].ids :
       LET copies == {r \in CopiesOf(req[w].user, c) : ~r.trashed} IN
       \E page \in PagesOf(copies, req[w].page) :
         Enter(w, req[w].user, "page", {r.notification : r \in page})
  /\ UNCHANGED <<tables, now>>

\* ... and the page is loaded when the view asks for it.
LoadPage(w) ==
  /\ req[w].at = "render"
  /\ \E c \in req[w].ids :
       \E page \in PagesOf(CopiesOf(req[w].user, c), req[w].page) :
         Enter(w, req[w].user, "page", {r.notification : r \in page})
  /\ UNCHANGED <<tables, now>>

\* trash_all: the conversations ticked on the index, one after the other.
TrashAll(w, u, ids) ==
  /\ Free(w) /\ u \in Subscribers
  /\ ids # {} /\ ids \subseteq Mine(u)
  /\ Enter(w, u, "trash", ids)
  /\ UNCHANGED <<tables, now>>

MoveToTrash(w) ==
  /\ req[w].at = "trash"
  /\ \E c \in req[w].ids :
       /\ SetTrashed(CopiesOf(req[w].user, c), TRUE)
       /\ IF req[w].ids = {c} THEN Drop(w)
                              ELSE Remember(w, [req[w] EXCEPT !.ids = @ \ {c}])
  /\ UNCHANGED <<conversations, notifications, questions, written, asked, now>>

-----------------------------------------------------------------------------
(* Questions.                                                              *)

SaveQuestion(w, u, v) ==
  /\ Free(w) /\ Room /\ u # v
  /\ asked < MaxQuestions
  /\ asked' = asked + 1
  /\ questions' = questions \cup
       {[id |-> asked', sender |-> u, recipient |-> v, answered |-> FALSE,
         conversation |-> None]}
  /\ Remember(w, [Idle EXCEPT !.at = "ask", !.user = u, !.question = asked',
                             !.to = v])
  /\ UNCHANGED <<conversations, notifications, receipts, written, now>>

\* Slip: forgets that the message belongs to a question.
PostQuestionOnly(w) ==
  /\ req[w].at = "ask"
  /\ SendMessage(req[w].user, req[w].to)
  /\ Enter(w, req[w].user, "sent", {written + 1})
  /\ UNCHANGED <<questions, asked, now>>

PostQuestion(w) ==
  /\ req[w].at = "ask"
  /\ SendMessage(req[w].user, req[w].to)
  /\ Remember(w, [req[w] EXCEPT !.at = "sent", !.ids = {written + 1}])
  /\ UNCHANGED <<questions, asked, now>>

\* Slip: takes the newest conversation for the one just opened.
LinkQuestionToNewest(w) ==
  /\ req[w].at = "link"
  /\ questions' = {IF q.id = req[w].question
                     THEN [q EXCEPT !.conversation = written]
                     ELSE q : q \in questions}
  /\ Drop(w)
  /\ UNCHANGED <<conversations, notifications, receipts, written, asked, now>>

\* An UPDATE of no row if the question was destroyed meanwhile.
LinkQuestion(w) ==
  /\ req[w].at = "link"
  /\ questions' =
       {IF q.id = req[w].question
          THEN [q EXCEPT !.conversation = CHOOSE c \in req[w].ids : TRUE]
          ELSE q : q \in questions}
  /\ Drop(w)
  /\ UNCHANGED <<conversations, notifications, receipts, written, asked, now>>

DestroyQuestion(w) ==
  /\ Free(w)
  /\ \E q \in questions : questions' = questions \ {q}
  /\ UNCHANGED <<conversations, notifications, receipts, written, asked, now,
                 req>>

\* The form is on the conversation of the question, for both its users, and a
\* page that was open before still offers it after the first answer.
SaveAnswer(w, u) ==
  /\ Free(w)
  /\ \E q \in questions :
       /\ q.conversation # None /\ u \in {q.sender, q.recipient}
       /\ questions' = (questions \ {q}) \cup {[q EXCEPT !.answered = TRUE]}
       /\ Enter(w, u, "answered", {q.conversation})
  /\ UNCHANGED <<conversations, notifications, receipts, written, asked, now>>

\* Nothing happens, and the request ends in an error, if the conversation is
\* gone.
FileAnswered(w) ==
  /\ req[w].at = "answered"
  /\ \E c \in req[w].ids : SetTrashed(CopiesOf(req[w].user, c), TRUE)
  /\ Drop(w)
  /\ UNCHANGED <<conversations, notifications, questions, written, asked, now>>

-----------------------------------------------------------------------------
(* Retention.  A delete_all is one statement: a row that is still referred  *)
(* to makes the whole of it fail.                                          *)

RemoveOldReceipts ==
  /\ receipts' = {r \in receipts : ~Old(r)}
  /\ UNCHANGED <<conversations, notifications, questions, written, asked, now,
                 req>>

RemoveOldNotifications ==
  /\ \A r \in receipts, m \in notifications : r.notification = m.id => ~Old(m)
  /\ notifications' = {m \in notifications : ~Old(m)}
  /\ UNCHANGED <<conversations, receipts, questions, written, asked, now, req>>

\* Slip: a conversation takes its messages and their copies with it.
RemoveOldConversationsWithMessages ==
  LET gone == {m \in notifications :
                 \E c \in conversations : c.id = m.conversation /\ Old(c)} IN
  /\ conversations' = {c \in conversations : ~Old(c)}
  /\ notifications' = notifications \ gone
  /\ receipts' = {r \in receipts : \A m \in gone : r.notification # m.id}
  /\ UNCHANGED <<questions, written, asked, now, req>>

RemoveOldConversations ==
  /\ \A m \in notifications, c \in conversations :
       m.conversation = c.id => ~Old(c)
  /\ conversations' = {c \in conversations : ~Old(c)}
  /\ UNCHANGED <<notifications, receipts, questions, written, asked, now, req>>

-----------------------------------------------------------------------------
\* The page is sent; or a request finds a row gone and ends in an error.
Finish(w) ==
  /\ \/ req[w].at = "page"
     \/ req[w].at = "sent" /\ {m \in notifications : m.id \in req[w].ids} = {}
     \/ req[w].at = "reply" /\ \A c \in req[w].ids : MessagesOf(c) = {}
  /\ Drop(w)
  /\ UNCHANGED <<tables, now>>

\* The process dies, or the mail of a message cannot be sent and raises.
Fail(w) ==
  /\ MayFail /\ ~Free(w)
  /\ Drop(w)
  /\ UNCHANGED <<tables, now>>

Tick ==
  /\ now < MaxTime
  /\ now' = now + 1
  /\ UNCHANGED <<tables, req>>

Begin(w) ==
  \/ \E u, v \in Users : Write(w, u, v) \/ SaveQuestion(w, u, v)
  \/ \E u \in Users :
       \/ \E c \in MessageIds :
            \/ FindForReply(w, u, c)
            \/ \E n \in Pages : OpenConversation(w, u, c, n)
       \/ \E ids \in SUBSET MessageIds : TrashAll(w, u, ids)
       \/ SaveAnswer(w, u)
  \/ DestroyQuestion(w)

Continue(w) ==
  \/ SaveOwnCopy(w) \/ PostReply(w) \/ LoadPage(w) \/ MoveToTrash(w)
  \/ PostQuestion(w) \/ LinkQuestion(w) \/ FileAnswered(w) \/ Finish(w)

Next ==
  \/ RemoveOldReceipts \/ RemoveOldNotifications \/ RemoveOldConversations
  \/ Tick
  \/ \E w \in Workers : Begin(w) \/ Continue(w) \/ Fail(w)

Spec == Init /\ [][Next]_vars

\* A request that was begun goes on.
FairSpec == Spec /\ \A w \in Workers : WF_vars(Continue(w))

-----------------------------------------------------------------------------
(* Safety.                                                                 *)

\* A question points to the conversation that its own message opened, from its
\* sender to its recipient, and no two questions share one: so that show finds
\* the right form and answers file the right conversation.
QuestionsReachRecipient ==
  \A q \in questions : q.conversation # None =>
    /\ \A m \in notifications :
         m.id = q.conversation => m.sender = q.sender /\ m.to = {q.recipient}
    /\ \A p \in questions : p.conversation = q.conversation => p = q

\* A page that is not full shows whatever is marked as read, but for as many copies
\* as fit on the pages before it: the first page hides nothing that it has marked,
\* also when a message arrives while show runs.
PageShowsWhatItMarks ==
  [][\A w \in Workers : req[w].at = "render" /\ req'[w].at = "page" =>
       \A c \in req[w].ids :
         LET unseen == {r \in CopiesOf(req[w].user, c) :
                          r.read /\ r.notification \notin req'[w].ids} IN
         \/ Cardinality(unseen) <= Skipped(req[w].page)
         \/ Cardinality(req'[w].ids) = PerPage]_vars

\* A copy is marked as read, filed or taken out of the trash only by a request
\* of the user it belongs to, whatever the other user of the conversation does.
FlagsAreTheReceivers ==
  [][\A r \in receipts, s \in receipts' :
       /\ r # s
       /\ <<r.notification, r.receiver, r.box>>
            = <<s.notification, s.receiver, s.box>>
       => \E w \in Workers :
            /\ req'[w] # req[w]
            /\ r.receiver \in {req[w].user, req'[w].user}]_vars

\* No rake task takes away, or hides from those it was sent to, a message that
\* is younger than the retention, however old its conversation is.
YoungStays ==
  [][\A m \in notifications : ~Old(m) =>
       /\ m \in notifications'
       /\ \E c \in conversations' : c.id = m.conversation
       /\ \A v \in m.to : \E r \in receipts' :
            r.notification = m.id /\ r.receiver = v]_vars

\* A reply reaches nobody only if it answers a message that is past the
\* retention, that reached nobody itself, or whose sender has no copy of it yet:
\* a delivery that is half done.
NoReplyIsLost ==
  [][\A m \in notifications' \ notifications : m.to = {} =>
       \E e \in LastMessages(m.conversation) :
         Old(e) \/ e.to = {} \/ e.sender \notin Receivers(e)]_vars

-----------------------------------------------------------------------------
(* Liveness.                                                               *)

Unlinked(k) == \E q \in questions : q.id = k /\ q.conversation = None

\* A question that was saved gets its conversation in the end.
SavedQuestionIsLinked == \A k \in QuestionIds : Unlinked(k) ~> ~Unlinked(k)

=============================================================================
