---------------------------- MODULE MailboxProofs ----------------------------
(***************************************************************************)
(* Theorems about Mailbox: for any number of users, workers, messages and  *)
(* questions, any retention and any size of a page.                        *)
(***************************************************************************)
EXTENDS Mailbox, TLAPS, FiniteSetTheorems, FunctionTheorems

-----------------------------------------------------------------------------
(* The inductive invariant.                                                *)

\* Messages have keys of their own, a conversation, and not their sender among
\* those they are sent to.
MessagesOK ==
  /\ \A m \in notifications :
       /\ m.id <= written /\ m.sender \notin m.to
       /\ \E c \in conversations : c.id = m.conversation
  /\ \A m, n \in notifications : m.id = n.id => m = n

\* A user has one copy of a message.
CopiesOK ==
  /\ \A r \in receipts : r.notification <= written
  /\ \A r, s \in receipts :
       r.notification = s.notification /\ r.receiver = s.receiver => r = s

\* A young message is with everybody it was sent to.
DeliveredOK ==
  \A m \in notifications : ~Old(m) =>
    \A v \in m.to : \E r \in receipts :
      r.notification = m.id /\ r.receiver = v /\ r.created = m.created

QuestionsOK ==
  /\ \A q \in questions : q.id <= asked
  /\ \A p, q \in questions : p.id = q.id => p = q
  /\ \A q \in questions : q.conversation # None => q.conversation <= written

\* The question of a request is between its two users, if it is still there.
AskOK(r) ==
  /\ r.question \in QuestionIds /\ r.question <= asked /\ r.to \in Users
  /\ \A q \in questions : q.id = r.question => q.sender = r.user /\ q.recipient = r.to

\* The message of a request that asks a question went to its recipient, and no
\* question points to it yet.
PostedOK(r) ==
  /\ \A m \in notifications : m.id \in r.ids => m.sender = r.user /\ m.to = {r.to}
  /\ \A q \in questions : q.conversation \notin r.ids

\* The message a request has written is its own, and the sender has no copy.
RequestOK(w) ==
  LET r == req[w] IN
  /\ r.at # "idle" => r.user \in Users
  /\ r.at \in {"render", "reply", "sent", "link"} => \E k \in MessageIds : r.ids = {k}
  /\ r.at = "ask" => AskOK(r) /\ r.user # r.to
  /\ r.at \in {"sent", "link"} =>
       /\ \A k \in r.ids : k <= written
       /\ \A x \in Workers :
            req[x].at \in {"sent", "link"} /\ req[x].ids = r.ids => x = w
       /\ r.at = "link" => r.question # None
       /\ r.question # None => AskOK(r) /\ PostedOK(r)
  /\ r.at = "sent" => \A s \in receipts : s.notification \in r.ids => s.receiver # r.user

RequestsOK == \A w \in Workers : RequestOK(w)

\* The requests that will write a message.
Pending == {w \in Workers : req[w].at \in {"ask", "reply"}}
RoomOK == written + Cardinality(Pending) <= MaxMessages

MailboxInv ==
  /\ TypeOK
  /\ MessagesOK
  /\ CopiesOK
  /\ DeliveredOK
  /\ QuestionsOK
  /\ QuestionsReachRecipient
  /\ RequestsOK
  /\ RoomOK

LEMMA Constants ==
  /\ {MaxMessages, MaxQuestions, MaxTime, Retention} \subseteq Nat
  /\ None \notin Users /\ None \notin Nat /\ IsFiniteSet(Workers)
  /\ PerPage \in Nat
  BY MailboxAssumption

LEMMA FirstPage == 1 \in Pages
  BY Constants DEF Pages

LEMMA IdleRequest == Idle \in Request /\ Idle.at = "idle"
  BY FirstPage DEF Idle, Request

LEMMA PendingFinite ==
  ASSUME NEW P \in SUBSET Workers
  PROVE  IsFiniteSet(P) /\ Cardinality(P) \in Nat
  BY Constants, FS_Subset, FS_CardinalityType

LEMMA InitMailbox == Init => MailboxInv
  <1> SUFFICES ASSUME Init PROVE MailboxInv
    OBVIOUS
  <1>1. TypeOK
    BY Constants, IdleRequest DEF Init, TypeOK, Time
  <1>2. Pending = {} /\ written = 0
    BY IdleRequest DEF Init, Pending
  <1>3. RoomOK
    BY <1>2, Constants, FS_EmptySet DEF RoomOK
  <1>4. RequestsOK
    BY IdleRequest DEF Init, RequestsOK, RequestOK
  <1> QED BY <1>1, <1>3, <1>4
        DEF Init, MailboxInv, MessagesOK, CopiesOK, DeliveredOK, QuestionsOK,
            QuestionsReachRecipient

-----------------------------------------------------------------------------
(* Keys for the messages to come.                                          *)

LEMMA FewerPending ==
  ASSUME TypeOK, RoomOK, UNCHANGED written, Pending' \subseteq Pending
  PROVE  RoomOK'
  <1>1. /\ IsFiniteSet(Pending) /\ Cardinality(Pending) \in Nat
        /\ Cardinality(Pending') <= Cardinality(Pending) /\ Cardinality(Pending') \in Nat
    <2>1. Pending \subseteq Workers
      BY DEF Pending
    <2> QED BY <2>1, PendingFinite, FS_Subset, FS_CardinalityType
  <1> QED BY <1>1, Constants DEF RoomOK, TypeOK

LEMMA OneMorePending ==
  ASSUME TypeOK, Room, UNCHANGED written, NEW w \in Workers, Pending' \subseteq Pending \cup {w}
  PROVE  RoomOK'
  <1>1. IsFiniteSet(Pending) /\ Cardinality(Pending) \in Nat
    <2>1. Pending \subseteq Workers
      BY DEF Pending
    <2> QED BY <2>1, PendingFinite
  <1>2. /\ IsFiniteSet(Pending \cup {w})
        /\ Cardinality(Pending \cup {w}) = IF w \in Pending THEN Cardinality(Pending)
                                          ELSE Cardinality(Pending) + 1
    BY <1>1, FS_AddElement
  <1>3. Cardinality(Pending') <= Cardinality(Pending \cup {w}) /\ Cardinality(Pending') \in Nat
    BY <1>2, FS_Subset, FS_CardinalityType
  <1>4. written + Cardinality(Pending) < MaxMessages
    BY DEF Room, Pending
  <1> QED BY <1>1, <1>2, <1>3, <1>4, Constants DEF RoomOK, TypeOK

\* A message written by a request that was pending, or by one that found room.
LEMMA MessageWritten ==
  ASSUME TypeOK, RoomOK, written' = written + 1, NEW w \in Workers,
         \/ Room /\ Pending' \subseteq Pending
         \/ w \in Pending /\ Pending' \subseteq Pending \ {w}
  PROVE  RoomOK' /\ written + 1 \in MessageIds /\ written' \in 0..MaxMessages
  <1>1. IsFiniteSet(Pending) /\ Cardinality(Pending) \in Nat
    <2>1. Pending \subseteq Workers
      BY DEF Pending
    <2> QED BY <2>1, PendingFinite
  <1>2. written \in Nat /\ MaxMessages \in Nat
    BY Constants DEF TypeOK
  <1>3. CASE Room /\ Pending' \subseteq Pending
    <2>1. Cardinality(Pending') <= Cardinality(Pending) /\ Cardinality(Pending') \in Nat
      BY <1>1, <1>3, FS_Subset, FS_CardinalityType
    <2>2. written + Cardinality(Pending) < MaxMessages
      BY <1>3 DEF Room, Pending
    <2> QED BY <1>1, <1>2, <2>1, <2>2 DEF RoomOK, MessageIds
  <1>4. CASE w \in Pending /\ Pending' \subseteq Pending \ {w}
    <2>1. IsFiniteSet(Pending \ {w}) /\ Cardinality(Pending \ {w}) = Cardinality(Pending) - 1
      BY <1>1, <1>4, FS_RemoveElement
    <2>2. Cardinality(Pending') <= Cardinality(Pending \ {w}) /\ Cardinality(Pending') \in Nat
      BY <1>4, <2>1, FS_Subset, FS_CardinalityType
    <2> QED BY <1>1, <1>2, <2>1, <2>2 DEF RoomOK, MessageIds
  <1> QED BY <1>3, <1>4

-----------------------------------------------------------------------------
(* Steps that write no message and no question.                            *)

\* The copies are the same but for their flags.
SameCopies ==
  /\ receipts' \subseteq Receipt
  /\ \A s \in receipts' : \E r \in receipts :
       /\ s.notification = r.notification /\ s.receiver = r.receiver /\ s.box = r.box
       /\ s.created = r.created
  /\ \A r \in receipts : \E s \in receipts' :
       /\ s.notification = r.notification /\ s.receiver = r.receiver
       /\ s.created = r.created
  /\ \A s, t \in receipts' :
       s.notification = t.notification /\ s.receiver = t.receiver => s = t

LEMMA UntouchedAreSame ==
  ASSUME TypeOK, CopiesOK, UNCHANGED receipts
  PROVE  SameCopies
  BY DEF TypeOK, CopiesOK, SameCopies

LEMMA TrashedAreSame ==
  ASSUME TypeOK, CopiesOK, NEW copies \in SUBSET receipts, NEW b \in BOOLEAN,
         SetTrashed(copies, b)
  PROVE  SameCopies
  <1> DEFINE F(r) == [r EXCEPT !.trashed = b]
  <1>1. receipts' = (receipts \ copies) \cup {F(r) : r \in copies}
    BY DEF SetTrashed
  <1>2. ASSUME NEW r \in receipts
        PROVE  /\ F(r) \in Receipt /\ F(r).notification = r.notification
               /\ F(r).receiver = r.receiver /\ F(r).box = r.box /\ F(r).created = r.created
    BY DEF TypeOK, Receipt
  <1> HIDE DEF F
  <1> QED BY <1>1, <1>2 DEF SameCopies, CopiesOK, TypeOK

LEMMA ReadAreSame ==
  ASSUME TypeOK, CopiesOK, NEW copies \in SUBSET receipts, MarkRead(copies)
  PROVE  SameCopies
  <1> DEFINE F(r) == [r EXCEPT !.read = TRUE]
  <1>1. receipts' = (receipts \ copies) \cup {F(r) : r \in copies}
    BY DEF MarkRead
  <1>2. ASSUME NEW r \in receipts
        PROVE  /\ F(r) \in Receipt /\ F(r).notification = r.notification
               /\ F(r).receiver = r.receiver /\ F(r).box = r.box /\ F(r).created = r.created
    BY DEF TypeOK, Receipt
  <1> HIDE DEF F
  <1> QED BY <1>1, <1>2 DEF SameCopies, CopiesOK, TypeOK

\* A request goes on to a step that writes nothing but flags.
LEMMA FlagsKeep ==
  ASSUME MailboxInv, SameCopies, NEW w \in Workers, NEW mem \in Request,
         req' = [req EXCEPT ![w] = mem],
         mem.at \notin {"ask", "sent", "link"},
         mem.at # "idle" => mem.user \in Users,
         mem.at \in {"render", "reply"} => \E k \in MessageIds : mem.ids = {k},
         mem.at = "reply" => Room,
         UNCHANGED <<conversations, notifications, questions, written, asked, now>>
  PROVE  MailboxInv'
  <1>1. /\ req' \in [Workers -> Request] /\ req'[w] = mem
        /\ \A x \in Workers : x # w => req'[x] = req[x]
    BY DEF MailboxInv, TypeOK
  <1>2. TypeOK'
    BY <1>1 DEF MailboxInv, TypeOK, SameCopies
  <1>3. MessagesOK' /\ QuestionsOK' /\ QuestionsReachRecipient'
    BY DEF MailboxInv, MessagesOK, QuestionsOK, QuestionsReachRecipient
  <1>4. CopiesOK'
    BY DEF MailboxInv, CopiesOK, SameCopies
  <1>5. DeliveredOK'
    <2> SUFFICES ASSUME NEW m \in notifications, ~Old(m), NEW v \in m.to
                 PROVE  \E s \in receipts' :
                          s.notification = m.id /\ s.receiver = v /\ s.created = m.created
      BY DEF DeliveredOK, Old
    <2>1. PICK r \in receipts :
            r.notification = m.id /\ r.receiver = v /\ r.created = m.created
      BY DEF MailboxInv, DeliveredOK
    <2> QED BY <2>1 DEF SameCopies
  <1>6. RequestsOK'
    <2> SUFFICES ASSUME NEW x \in Workers PROVE RequestOK(x)'
      BY DEF RequestsOK
    <2>1. CASE x = w
      BY <1>1, <2>1 DEF RequestOK
    <2>2. CASE x # w
      <3>1. req'[x] = req[x] /\ RequestOK(x)
        BY <1>1, <2>2 DEF MailboxInv, RequestsOK
      <3>2. \A y \in Workers : req'[y].at \in {"sent", "link"} => req'[y] = req[y]
        BY <1>1
      <3>3. req[x].at = "sent" =>
              \A s \in receipts' : s.notification \in req[x].ids => s.receiver # req[x].user
        BY <3>1 DEF RequestOK, SameCopies
      <3> QED BY <3>1, <3>2, <3>3 DEF RequestOK, AskOK, PostedOK
    <2> QED BY <2>1, <2>2
  <1>7. RoomOK'
    <2>1. CASE mem.at = "reply"
      <3>1. Pending' \subseteq Pending \cup {w}
        BY <1>1 DEF Pending
      <3> QED BY <2>1, <3>1, OneMorePending DEF MailboxInv
    <2>2. CASE mem.at # "reply"
      <3>1. Pending' \subseteq Pending
        BY <1>1, <2>2 DEF Pending
      <3> QED BY <3>1, FewerPending DEF MailboxInv
    <2> QED BY <2>1, <2>2
  <1> QED BY <1>2, <1>3, <1>4, <1>5, <1>6, <1>7 DEF MailboxInv

LEMMA CopiesAreReceipts ==
  ASSUME NEW u, NEW c
  PROVE  CopiesOf(u, c) \in SUBSET receipts
  BY DEF CopiesOf

LEMMA FindForReplyKeeps ==
  ASSUME MailboxInv, NEW w \in Workers, NEW u \in Users, NEW c \in MessageIds,
         FindForReply(w, u, c)
  PROVE  MailboxInv'
  <1>1. SameCopies
    BY CopiesAreReceipts, TrashedAreSame DEF FindForReply, MailboxInv
  <1> DEFINE mem == [Idle EXCEPT !.at = "reply", !.user = u, !.ids = {c}]
  <1>2. mem \in Request /\ mem.at = "reply" /\ mem.user = u /\ mem.ids = {c}
    BY FirstPage DEF Idle, Request
  <1>3. /\ req' = [req EXCEPT ![w] = mem] /\ Room
        /\ UNCHANGED <<conversations, notifications, questions, written, asked, now>>
    BY DEF FindForReply, Enter, Remember
  <1> HIDE DEF mem
  <1> QED BY <1>1, <1>2, <1>3, FlagsKeep

LEMMA OpenConversationKeeps ==
  ASSUME MailboxInv, NEW w \in Workers, NEW u \in Users, NEW c \in MessageIds,
         NEW n \in Pages, OpenConversation(w, u, c, n)
  PROVE  MailboxInv'
  <1>1. SameCopies
    BY CopiesAreReceipts, ReadAreSame DEF OpenConversation, MailboxInv
  <1> DEFINE mem == [Idle EXCEPT !.at = "render", !.user = u, !.ids = {c}, !.page = n]
  <1>2. mem \in Request /\ mem.at = "render" /\ mem.user = u /\ mem.ids = {c}
    BY FirstPage DEF Idle, Request
  <1>3. /\ req' = [req EXCEPT ![w] = mem]
        /\ UNCHANGED <<conversations, notifications, questions, written, asked, now>>
    BY DEF OpenConversation, Remember
  <1> HIDE DEF mem
  <1> QED BY <1>1, <1>2, <1>3, FlagsKeep

LEMMA TrashAllKeeps ==
  ASSUME MailboxInv, NEW w \in Workers, NEW u \in Users, NEW ids \in SUBSET MessageIds,
         TrashAll(w, u, ids)
  PROVE  MailboxInv'
  <1>1. SameCopies
    BY UntouchedAreSame DEF TrashAll, tables, MailboxInv
  <1> DEFINE mem == [Idle EXCEPT !.at = "trash", !.user = u, !.ids = ids]
  <1>2. mem \in Request /\ mem.at = "trash" /\ mem.user = u
    BY FirstPage DEF Idle, Request
  <1>3. /\ req' = [req EXCEPT ![w] = mem]
        /\ UNCHANGED <<conversations, notifications, questions, written, asked, now>>
    BY DEF TrashAll, Enter, Remember, tables
  <1> HIDE DEF mem
  <1> QED BY <1>1, <1>2, <1>3, FlagsKeep

LEMMA LoadPageKeeps ==
  ASSUME MailboxInv, NEW w \in Workers, LoadPage(w)
  PROVE  MailboxInv'
  <1>1. SameCopies
    BY UntouchedAreSame DEF LoadPage, tables, MailboxInv
  <1>2. PICK c \in req[w].ids : \E p \in SUBSET CopiesOf(req[w].user, c) :
          Enter(w, req[w].user, "page", {r.notification : r \in p})
    BY DEF LoadPage, PagesOf
  <1>3. PICK page \in SUBSET CopiesOf(req[w].user, c) :
          Enter(w, req[w].user, "page", {r.notification : r \in page})
    BY <1>2
  <1> DEFINE ids == {r.notification : r \in page}
             mem == [Idle EXCEPT !.at = "page", !.user = req[w].user, !.ids = ids]
  <1>4. ids \in SUBSET MessageIds
    BY CopiesAreReceipts DEF MailboxInv, TypeOK, Receipt
  <1>5. req[w].user \in Users
    BY DEF LoadPage, MailboxInv, RequestsOK, RequestOK
  <1> HIDE DEF ids
  <1>6. mem \in Request /\ mem.at = "page" /\ mem.user = req[w].user
    BY <1>4, <1>5, FirstPage DEF Idle, Request
  <1>7. /\ req' = [req EXCEPT ![w] = mem]
        /\ UNCHANGED <<conversations, notifications, questions, written, asked, now>>
    BY <1>3 DEF LoadPage, Enter, Remember, tables, ids
  <1> HIDE DEF mem
  <1> QED BY <1>1, <1>5, <1>6, <1>7, FlagsKeep

\* A request that ends, with or without having moved copies.
LEMMA DropKeeps ==
  ASSUME MailboxInv, SameCopies, NEW w \in Workers, Drop(w),
         UNCHANGED <<conversations, notifications, questions, written, asked, now>>
  PROVE  MailboxInv'
  BY IdleRequest, FlagsKeep DEF Drop, Remember

LEMMA MoveToTrashKeeps ==
  ASSUME MailboxInv, NEW w \in Workers, MoveToTrash(w)
  PROVE  MailboxInv'
  <1>1. PICK c \in req[w].ids :
          /\ SetTrashed(CopiesOf(req[w].user, c), TRUE)
          /\ IF req[w].ids = {c} THEN Drop(w)
             ELSE Remember(w, [req[w] EXCEPT !.ids = @ \ {c}])
    BY DEF MoveToTrash
  <1>2. SameCopies
    BY <1>1, CopiesAreReceipts, TrashedAreSame DEF MailboxInv
  <1>3. UNCHANGED <<conversations, notifications, questions, written, asked, now>>
    BY DEF MoveToTrash
  <1>4. CASE req[w].ids = {c}
    BY <1>1, <1>2, <1>3, <1>4, DropKeeps
  <1>5. CASE req[w].ids # {c}
    <2> DEFINE mem == [req[w] EXCEPT !.ids = @ \ {c}]
    <2>1. mem \in Request /\ mem.at = "trash" /\ mem.user \in Users
      BY DEF MoveToTrash, MailboxInv, TypeOK, Request, RequestsOK, RequestOK
    <2>2. req' = [req EXCEPT ![w] = mem]
      BY <1>1, <1>5 DEF Remember
    <2> HIDE DEF mem
    <2> QED BY <1>2, <1>3, <2>1, <2>2, FlagsKeep
  <1> QED BY <1>4, <1>5

LEMMA FileAnsweredKeeps ==
  ASSUME MailboxInv, NEW w \in Workers, FileAnswered(w)
  PROVE  MailboxInv'
  <1>1. PICK c \in req[w].ids : SetTrashed(CopiesOf(req[w].user, c), TRUE)
    BY DEF FileAnswered
  <1>2. SameCopies
    BY <1>1, CopiesAreReceipts, TrashedAreSame DEF MailboxInv
  <1> QED BY <1>2, DropKeeps DEF FileAnswered

LEMMA EndKeeps ==
  ASSUME MailboxInv, NEW w \in Workers, Finish(w) \/ Fail(w)
  PROVE  MailboxInv'
  <1>1. SameCopies
    BY UntouchedAreSame DEF Finish, Fail, tables, MailboxInv
  <1> QED BY <1>1, DropKeeps DEF Finish, Fail, tables

-----------------------------------------------------------------------------
(* Retention and the clock.                                                *)

LEMMA RemoveOldReceiptsKeeps ==
  ASSUME MailboxInv, RemoveOldReceipts
  PROVE  MailboxInv'
  <1>1. /\ receipts' = {r \in receipts : ~Old(r)}
        /\ UNCHANGED <<conversations, notifications, questions, written, asked, now, req>>
    BY DEF RemoveOldReceipts
  <1>2. DeliveredOK'
    BY <1>1 DEF MailboxInv, DeliveredOK, Old
  <1>3. RequestsOK'
    BY <1>1 DEF MailboxInv, RequestsOK, RequestOK, AskOK, PostedOK
  <1> QED BY <1>1, <1>2, <1>3
        DEF MailboxInv, TypeOK, MessagesOK, CopiesOK, QuestionsOK, QuestionsReachRecipient,
            RoomOK, Pending

LEMMA RemoveOldNotificationsKeeps ==
  ASSUME MailboxInv, RemoveOldNotifications
  PROVE  MailboxInv'
  <1>1. /\ notifications' = {m \in notifications : ~Old(m)}
        /\ UNCHANGED <<conversations, receipts, questions, written, asked, now, req>>
    BY DEF RemoveOldNotifications
  <1>2. DeliveredOK'
    BY <1>1 DEF MailboxInv, DeliveredOK, Old
  <1>3. RequestsOK'
    BY <1>1 DEF MailboxInv, RequestsOK, RequestOK, AskOK, PostedOK
  <1> QED BY <1>1, <1>2, <1>3
        DEF MailboxInv, TypeOK, MessagesOK, CopiesOK, QuestionsOK, QuestionsReachRecipient,
            RoomOK, Pending

LEMMA RemoveOldConversationsKeeps ==
  ASSUME MailboxInv, RemoveOldConversations
  PROVE  MailboxInv'
  <1>1. /\ conversations' = {c \in conversations : ~Old(c)}
        /\ \A m \in notifications, c \in conversations : m.conversation = c.id => ~Old(c)
        /\ UNCHANGED <<notifications, receipts, questions, written, asked, now, req>>
    BY DEF RemoveOldConversations
  <1>2. MessagesOK'
    BY <1>1 DEF MailboxInv, MessagesOK
  <1>3. DeliveredOK'
    BY <1>1 DEF MailboxInv, DeliveredOK, Old
  <1>4. RequestsOK'
    BY <1>1 DEF MailboxInv, RequestsOK, RequestOK, AskOK, PostedOK
  <1> QED BY <1>1, <1>2, <1>3, <1>4
        DEF MailboxInv, TypeOK, CopiesOK, QuestionsOK, QuestionsReachRecipient, RoomOK, Pending

LEMMA TickKeeps ==
  ASSUME MailboxInv, Tick
  PROVE  MailboxInv'
  <1>1. /\ now' = now + 1 /\ now' \in Time /\ now \in Nat
        /\ UNCHANGED <<conversations, notifications, receipts, questions, written, asked, req>>
    BY Constants DEF Tick, tables, MailboxInv, TypeOK, Time
  <1>2. DeliveredOK'
    <2>1. ASSUME NEW m \in notifications, ~Old(m)'
          PROVE  ~Old(m)
      <3>1. m.created \in Nat /\ Retention \in Nat
        BY Constants DEF MailboxInv, TypeOK, Message, Time
      <3> QED BY <1>1, <2>1, <3>1 DEF Old
    <2> QED BY <1>1, <2>1 DEF MailboxInv, DeliveredOK
  <1>3. RequestsOK'
    BY <1>1 DEF MailboxInv, RequestsOK, RequestOK, AskOK, PostedOK
  <1> QED BY <1>1, <1>2, <1>3
        DEF MailboxInv, TypeOK, MessagesOK, CopiesOK, QuestionsOK, QuestionsReachRecipient,
            RoomOK, Pending

-----------------------------------------------------------------------------
(* Writing a message.                                                      *)

\* A message with the next key goes to others than its sender, in a conversation
\* that is there, and the request remembers it, or ends.
LEMMA DeliverKeeps ==
  ASSUME MailboxInv, NEW w \in Workers, NEW u \in Users, NEW c \in MessageIds,
         NEW to \in SUBSET Users, u \notin to, Deliver(u, c, to),
         conversations \subseteq conversations', conversations' \subseteq Conversation,
         \E d \in conversations' : d.id = c,
         NEW mem \in Request, req' = [req EXCEPT ![w] = mem],
         \/ mem.at = "idle"
         \/ /\ mem.at = "sent" /\ mem.user = u /\ mem.ids = {written + 1} /\ to # {}
            /\ mem.question # None => AskOK(mem) /\ to = {mem.to},
         (req[w].at = "idle" /\ Room) \/ req[w].at \in {"ask", "reply"},
         UNCHANGED <<questions, asked, now>>
  PROVE  MailboxInv'
  <1> DEFINE k == written + 1
             new == [id |-> k, conversation |-> c, sender |-> u, to |-> to, created |-> now]
             copies == {Copy(k, v, "inbox") : v \in to}
                         \cup (IF to = {} THEN {Copy(k, u, "sentbox")} ELSE {})
  <1>1. /\ req' \in [Workers -> Request] /\ req'[w] = mem
        /\ \A x \in Workers : x # w => req'[x] = req[x]
    BY DEF MailboxInv, TypeOK
  <1>2. /\ written' = k /\ notifications' = notifications \cup {new}
        /\ receipts' = receipts \cup copies
    BY DEF Deliver
  <1>3. RoomOK' /\ k \in MessageIds /\ written' \in 0..MaxMessages
    <2>1. CASE req[w].at = "idle" /\ Room
      <3>1. Pending' \subseteq Pending
        BY <1>1 DEF Pending
      <3> QED BY <1>2, <2>1, <3>1, MessageWritten DEF MailboxInv
    <2>2. CASE req[w].at \in {"ask", "reply"}
      <3>1. w \in Pending /\ Pending' \subseteq Pending \ {w}
        BY <1>1, <2>2 DEF Pending
      <3> QED BY <1>2, <3>1, MessageWritten DEF MailboxInv
    <2> QED BY <2>1, <2>2
  <1>4. /\ new \in Message /\ new.id = k /\ new.sender = u /\ new.to = to
        /\ new.created = now /\ new.conversation = c
    BY <1>3 DEF Message, MailboxInv, TypeOK
  <1>5. ASSUME NEW v \in Users, NEW box \in {"inbox", "sentbox"}
        PROVE  /\ Copy(k, v, box) \in Receipt /\ Copy(k, v, box).notification = k
               /\ Copy(k, v, box).receiver = v /\ Copy(k, v, box).created = now
    BY <1>3 DEF Copy, Receipt, MailboxInv, TypeOK
  <1>6. ASSUME NEW r \in copies
        PROVE  /\ r \in Receipt /\ r.notification = k
               /\ to # {} => r.receiver \in to
               /\ \A s \in copies : r.receiver = s.receiver => r = s
    <2>1. CASE to = {}
      BY <1>5, <2>1
    <2>2. CASE to # {}
      BY <1>5, <2>2
    <2> QED BY <2>1, <2>2
  <1>6a. ASSUME NEW v \in to
         PROVE  \E r \in copies : r.notification = k /\ r.receiver = v /\ r.created = now
    <2>1. Copy(k, v, "inbox") \in copies
      OBVIOUS
    <2> QED BY <1>5, <2>1
  <1> HIDE DEF k, new, copies
  <1>7. written \in Nat /\ k = written + 1
    BY Constants DEF MailboxInv, TypeOK, k
  <1>8. /\ \A m \in notifications : m.id \in Nat /\ m.id < k
        /\ \A r \in receipts : r.notification \in Nat /\ r.notification < k
    BY <1>7 DEF MailboxInv, MessagesOK, CopiesOK, TypeOK, Message, Receipt, MessageIds
  <1>9. TypeOK'
    BY <1>1, <1>2, <1>3, <1>4, <1>6 DEF MailboxInv, TypeOK
  <1>10. MessagesOK'
    BY <1>2, <1>4, <1>7, <1>8 DEF MailboxInv, MessagesOK
  <1>11. CopiesOK'
    BY <1>2, <1>6, <1>7, <1>8 DEF MailboxInv, CopiesOK
  <1>12. DeliveredOK'
    <2> SUFFICES ASSUME NEW m \in notifications', ~Old(m), NEW v \in m.to
                 PROVE  \E r \in receipts' :
                          r.notification = m.id /\ r.receiver = v /\ r.created = m.created
      BY DEF DeliveredOK, Old
    <2>1. CASE m = new
      BY <1>2, <1>4, <1>6a, <2>1
    <2>2. CASE m \in notifications
      BY <1>2, <2>2 DEF MailboxInv, DeliveredOK
    <2> QED BY <1>2, <2>1, <2>2
  <1>13. \A q \in questions : q.conversation # None => q.conversation \in Nat /\ q.conversation < k
    BY <1>7 DEF MailboxInv, QuestionsOK, TypeOK, Question, MessageIds
  <1>14. QuestionsOK'
    BY <1>2, <1>7, <1>13 DEF MailboxInv, QuestionsOK
  <1>15. QuestionsReachRecipient'
    <2>1. \A q \in questions : q.conversation # None => q.conversation # k
      BY <1>7, <1>13
    <2> QED BY <1>2, <1>4, <2>1 DEF MailboxInv, QuestionsReachRecipient
  <1>16. \A x \in Workers : x # w => \A j \in req[x].ids : req[x].at \in {"sent", "link"} => j # k
    BY <1>7 DEF MailboxInv, RequestsOK, RequestOK
  <1>17. RequestsOK'
    <2> SUFFICES ASSUME NEW x \in Workers PROVE RequestOK(x)'
      BY DEF RequestsOK
    <2>1. CASE x = w /\ mem.at = "idle"
      BY <1>1, <2>1 DEF RequestOK
    <2>2. CASE x = w /\ mem.at = "sent"
      <3>1. mem.user = u /\ mem.ids = {k} /\ to # {}
        BY <2>2, <1>7
      <3>2. \A y \in Workers : req'[y].at \in {"sent", "link"} /\ req'[y].ids = mem.ids => y = w
        BY <1>1, <1>16, <3>1
      <3>3. mem.question # None => AskOK(mem)' /\ PostedOK(mem)'
        <4>1. ASSUME mem.question # None
              PROVE  AskOK(mem)' /\ to = {mem.to}
          BY <2>2, <4>1 DEF AskOK
        <4>2. ASSUME mem.question # None
              PROVE  PostedOK(mem)'
          <5>1. \A m \in notifications' : m.id \in mem.ids => m = new
            BY <1>2, <1>7, <1>8, <3>1
          <5>2. \A q \in questions : q.conversation \notin mem.ids
            BY <1>3, <1>7, <1>13, <3>1, Constants DEF MessageIds
          <5> QED BY <1>4, <3>1, <4>1, <4>2, <5>1, <5>2 DEF PostedOK
        <4> QED BY <4>1, <4>2
      <3>4. \A s \in receipts' : s.notification \in mem.ids => s.receiver # u
        BY <1>2, <1>6, <1>7, <1>8, <3>1
      <3> QED BY <1>1, <1>2, <1>3, <1>7, <2>2, <3>1, <3>2, <3>3, <3>4 DEF RequestOK
    <2>3. CASE x # w
      <3>1. req'[x] = req[x] /\ RequestOK(x)
        BY <1>1, <2>3 DEF MailboxInv, RequestsOK
      <3>2. req[x].at \in {"sent", "link"} =>
              \A y \in Workers : req'[y].at \in {"sent", "link"} /\ req'[y].ids = req[x].ids => y = x
        <4>1. ASSUME req[x].at \in {"sent", "link"}
              PROVE  k \notin req[x].ids
          BY <1>16, <2>3, <4>1
        <4> QED BY <1>1, <1>7, <3>1, <4>1 DEF RequestOK
      <3>3. req[x].at \in {"sent", "link"} => \A j \in req[x].ids : j <= written'
        BY <1>2, <1>7, <3>1 DEF RequestOK, MessageIds
      <3>4. req[x].at \in {"sent", "link"} /\ req[x].question # None =>
              AskOK(req[x])' /\ PostedOK(req[x])'
        BY <1>2, <1>4, <1>16, <2>3, <3>1 DEF RequestOK, AskOK, PostedOK
      <3>5. req[x].at = "ask" => AskOK(req[x])'
        BY <3>1 DEF RequestOK, AskOK
      <3>6. req[x].at = "sent" =>
              \A s \in receipts' : s.notification \in req[x].ids => s.receiver # req[x].user
        BY <1>2, <1>6, <1>16, <2>3, <3>1 DEF RequestOK
      <3> QED BY <3>1, <3>2, <3>3, <3>4, <3>5, <3>6 DEF RequestOK, AskOK, PostedOK
    <2> QED BY <2>1, <2>2, <2>3
  <1> QED BY <1>3, <1>9, <1>10, <1>11, <1>12, <1>14, <1>15, <1>17 DEF MailboxInv

\* A first message comes with its conversation.
LEMMA SendMessageKeeps ==
  ASSUME MailboxInv, NEW w \in Workers, NEW u \in Users, NEW v \in Users, u # v,
         SendMessage(u, v), NEW mem \in Request, req' = [req EXCEPT ![w] = mem],
         mem.at = "sent", mem.user = u, mem.ids = {written + 1},
         mem.question # None => AskOK(mem) /\ mem.to = v,
         (req[w].at = "idle" /\ Room) \/ req[w].at = "ask",
         UNCHANGED <<questions, asked, now>>
  PROVE  MailboxInv'
  <1>1. written + 1 \in MessageIds
    BY DEF MailboxInv, TypeOK, SendMessage, Deliver, Request
  <1>2. [id |-> written + 1, created |-> now] \in Conversation
    BY <1>1 DEF Conversation, MailboxInv, TypeOK
  <1>3. /\ conversations \subseteq conversations' /\ conversations' \subseteq Conversation
        /\ \E d \in conversations' : d.id = written + 1
    BY <1>2 DEF SendMessage, MailboxInv, TypeOK
  <1>4. Deliver(u, written + 1, {v}) /\ {v} \in SUBSET Users /\ u \notin {v} /\ {v} # {}
    BY DEF SendMessage
  <1> DEFINE c == written + 1
             to == {v}
  <1>5. /\ c \in MessageIds /\ to \in SUBSET Users /\ u \notin to /\ to # {}
        /\ Deliver(u, c, to) /\ \E d \in conversations' : d.id = c
        /\ mem.ids = {written + 1} /\ mem.question # None => AskOK(mem) /\ to = {mem.to}
    BY <1>1, <1>3, <1>4
  <1> HIDE DEF c, to
  <1>6. \/ req[w].at = "idle" /\ Room
        \/ req[w].at \in {"ask", "reply"}
    OBVIOUS
  <1> QED BY <1>3, <1>5, <1>6, DeliverKeeps

LEMMA WriteKeeps ==
  ASSUME MailboxInv, NEW w \in Workers, NEW u \in Users, NEW v \in Users, Write(w, u, v)
  PROVE  MailboxInv'
  <1> DEFINE mem == [Idle EXCEPT !.at = "sent", !.user = u, !.ids = {written + 1}]
  <1>1. written + 1 \in MessageIds
    <2>1. Pending \subseteq Workers /\ Cardinality(Pending) \in Nat
      BY PendingFinite DEF Pending
    <2>2. written + Cardinality(Pending) < MaxMessages
      BY DEF Write, Room, Pending
    <2> QED BY <2>1, <2>2, Constants DEF MailboxInv, TypeOK, MessageIds
  <1>2. /\ mem \in Request /\ mem.at = "sent" /\ mem.user = u /\ mem.ids = {written + 1}
        /\ mem.question = None
    BY <1>1, FirstPage DEF Idle, Request
  <1>3. /\ req' = [req EXCEPT ![w] = mem] /\ req[w].at = "idle" /\ Room /\ u # v
        /\ SendMessage(u, v) /\ UNCHANGED <<questions, asked, now>>
    BY DEF Write, Enter, Remember, Free
  <1> HIDE DEF mem
  <1> QED BY <1>2, <1>3, SendMessageKeeps

LEMMA PostQuestionKeeps ==
  ASSUME MailboxInv, NEW w \in Workers, PostQuestion(w)
  PROVE  MailboxInv'
  <1> DEFINE mem == [req[w] EXCEPT !.at = "sent", !.ids = {written + 1}]
  <1>1. /\ req[w].at = "ask" /\ req[w].user \in Users /\ req[w].to \in Users
        /\ req[w].user # req[w].to /\ AskOK(req[w])
    BY DEF PostQuestion, MailboxInv, RequestsOK, RequestOK, AskOK
  <1>2. written + 1 \in MessageIds
    <2>1. w \in Pending /\ Pending \subseteq Workers
      BY <1>1 DEF Pending
    <2>2. IsFiniteSet(Pending) /\ Cardinality(Pending) \in Nat /\ Cardinality(Pending) # 0
      BY <2>1, PendingFinite, FS_EmptySet
    <2> QED BY <2>2, Constants DEF MailboxInv, RoomOK, TypeOK, MessageIds
  <1>3. /\ mem \in Request /\ mem.at = "sent" /\ mem.user = req[w].user
        /\ mem.ids = {written + 1} /\ mem.question = req[w].question /\ mem.to = req[w].to
    BY <1>2 DEF MailboxInv, TypeOK, Request
  <1>4. req' = [req EXCEPT ![w] = mem] /\ SendMessage(req[w].user, req[w].to)
        /\ UNCHANGED <<questions, asked, now>>
    BY DEF PostQuestion, Remember
  <1> HIDE DEF mem
  <1>5. AskOK(mem)
    BY <1>1, <1>3 DEF AskOK
  <1> QED BY <1>1, <1>3, <1>4, <1>5, SendMessageKeeps

\* What a reply knows: the message it answers, and those who have a copy.
LEMMA ReplyFacts ==
  ASSUME MailboxInv, NEW w \in Workers, PostReply(w)
  PROVE  \E c \in MessageIds : \E last \in LastMessages(c) :
           LET to == Receivers(last) \ {req[w].user} IN
           /\ Deliver(req[w].user, c, to) /\ to \in SUBSET Users
           /\ IF to = {} THEN Drop(w) ELSE Enter(w, req[w].user, "sent", {written + 1})
           /\ \E d \in conversations : d.id = c
  <1>1. PICK c \in req[w].ids : \E last \in LastMessages(c) :
          LET to == Receivers(last) \ {req[w].user} IN
          /\ Deliver(req[w].user, c, to)
          /\ IF to = {} THEN Drop(w) ELSE Enter(w, req[w].user, "sent", {written + 1})
    BY DEF PostReply
  <1>2. c \in MessageIds
    BY DEF MailboxInv, TypeOK, Request
  <1>3. \A last \in LastMessages(c) : \E d \in conversations : d.id = c
    BY DEF LastMessages, MessagesOf, MailboxInv, MessagesOK
  <1>4. \A m : Receivers(m) \subseteq Users
    BY DEF Receivers, MailboxInv, TypeOK, Receipt
  <1> QED BY <1>1, <1>2, <1>3, <1>4

LEMMA PostReplyKeeps ==
  ASSUME MailboxInv, NEW w \in Workers, PostReply(w)
  PROVE  MailboxInv'
  <1>1. PICK c \in MessageIds : \E last \in LastMessages(c) :
          LET to == Receivers(last) \ {req[w].user} IN
          /\ Deliver(req[w].user, c, to) /\ to \in SUBSET Users
          /\ IF to = {} THEN Drop(w) ELSE Enter(w, req[w].user, "sent", {written + 1})
          /\ \E d \in conversations : d.id = c
    BY ReplyFacts
  <1>2. PICK last \in LastMessages(c) :
          LET to == Receivers(last) \ {req[w].user} IN
          /\ Deliver(req[w].user, c, to) /\ to \in SUBSET Users
          /\ IF to = {} THEN Drop(w) ELSE Enter(w, req[w].user, "sent", {written + 1})
          /\ \E d \in conversations : d.id = c
    BY <1>1
  <1> DEFINE to == Receivers(last) \ {req[w].user}
             mem == [Idle EXCEPT !.at = "sent", !.user = req[w].user, !.ids = {written + 1}]
  <1>3. /\ Deliver(req[w].user, c, to) /\ to \in SUBSET Users /\ req[w].user \notin to
        /\ IF to = {} THEN Drop(w) ELSE req' = [req EXCEPT ![w] = mem]
        /\ \E d \in conversations : d.id = c
    BY <1>2 DEF Enter, Remember
  <1>4. /\ req[w].at = "reply" /\ req[w].user \in Users
        /\ UNCHANGED <<conversations, questions, asked, now>>
    BY DEF PostReply, MailboxInv, RequestsOK, RequestOK
  <1>5. written + 1 \in MessageIds
    <2>1. w \in Pending /\ Pending \subseteq Workers
      BY <1>4 DEF Pending
    <2>2. IsFiniteSet(Pending) /\ Cardinality(Pending) \in Nat /\ Cardinality(Pending) # 0
      BY <2>1, PendingFinite, FS_EmptySet
    <2> QED BY <2>2, Constants DEF MailboxInv, RoomOK, TypeOK, MessageIds
  <1>6. /\ mem \in Request /\ mem.at = "sent" /\ mem.user = req[w].user
        /\ mem.ids = {written + 1} /\ mem.question = None
    BY <1>4, <1>5, FirstPage DEF Idle, Request
  <1>7. conversations' \subseteq Conversation
    BY <1>4 DEF MailboxInv, TypeOK
  <1> HIDE DEF to, mem
  <1>8. CASE to = {}
    BY <1>3, <1>4, <1>7, <1>8, IdleRequest, DeliverKeeps DEF Drop, Remember
  <1>9. CASE to # {}
    BY <1>3, <1>4, <1>6, <1>7, <1>9, DeliverKeeps
  <1> QED BY <1>8, <1>9

\* The sender's own copy: he had none.
LEMMA SaveOwnCopyKeeps ==
  ASSUME MailboxInv, NEW w \in Workers, SaveOwnCopy(w)
  PROVE  MailboxInv'
  <1>1. PICK m \in notifications :
          /\ m.id \in req[w].ids
          /\ receipts' = receipts \cup {Copy(m.id, req[w].user, "sentbox")}
    BY DEF SaveOwnCopy
  <1>2. /\ req[w].at = "sent" /\ RequestOK(w) /\ req[w].user \in Users
        /\ req[w].ids = {m.id} /\ req[w] \in Request
    BY <1>1 DEF SaveOwnCopy, MailboxInv, TypeOK, RequestsOK, RequestOK
  <1> DEFINE mem == IF req[w].question = None THEN Idle ELSE [req[w] EXCEPT !.at = "link"]
             own == Copy(m.id, req[w].user, "sentbox")
  <1>3. /\ mem \in Request
        /\ \/ mem.at = "idle"
           \/ /\ mem.at = "link" /\ mem.user = req[w].user /\ mem.ids = req[w].ids
              /\ mem.question = req[w].question /\ mem.to = req[w].to
              /\ req[w].question # None
    BY <1>2, IdleRequest DEF Request
  <1>4. /\ req' = [req EXCEPT ![w] = mem]
        /\ UNCHANGED <<conversations, notifications, questions, written, asked, now>>
    BY DEF SaveOwnCopy, Drop, Go, Remember
  <1>5. /\ own \in Receipt /\ own.notification = m.id /\ own.receiver = req[w].user
        /\ m.id <= written /\ receipts' = receipts \cup {own}
    BY <1>1, <1>2 DEF Copy, Receipt, MailboxInv, TypeOK, Message, MessagesOK
  <1> HIDE DEF mem, own
  <1>6. /\ req' \in [Workers -> Request] /\ req'[w] = mem
        /\ \A x \in Workers : x # w => req'[x] = req[x]
    BY <1>3, <1>4 DEF MailboxInv, TypeOK
  <1>7. TypeOK'
    BY <1>4, <1>5, <1>6 DEF MailboxInv, TypeOK
  <1>8. MessagesOK' /\ QuestionsOK' /\ QuestionsReachRecipient'
    BY <1>4 DEF MailboxInv, MessagesOK, QuestionsOK, QuestionsReachRecipient
  <1>9. CopiesOK'
    <2>1. \A s \in receipts : s.notification = m.id => s.receiver # req[w].user
      BY <1>2 DEF RequestOK
    <2> QED BY <1>4, <1>5, <2>1 DEF MailboxInv, CopiesOK
  <1>10. DeliveredOK'
    BY <1>4, <1>5 DEF MailboxInv, DeliveredOK, Old
  <1>11. RequestsOK'
    <2> SUFFICES ASSUME NEW x \in Workers PROVE RequestOK(x)'
      BY DEF RequestsOK
    <2>1. CASE x = w /\ mem.at = "idle"
      BY <1>6, <2>1 DEF RequestOK
    <2>2. CASE x = w /\ mem.at = "link"
      <3>1. \A y \in Workers :
              req'[y].at \in {"sent", "link"} /\ req'[y].ids = req'[w].ids => y = w
        BY <1>2, <1>3, <1>6, <2>2 DEF RequestOK
      <3>2. AskOK(req[w])' /\ PostedOK(req[w])'
        BY <1>2, <1>3, <1>4, <1>6, <2>2 DEF RequestOK, AskOK, PostedOK
      <3> QED BY <1>2, <1>3, <1>4, <1>6, <2>2, <3>1, <3>2 DEF RequestOK
    <2>3. CASE x # w
      <3>1. req'[x] = req[x] /\ RequestOK(x)
        BY <1>6, <2>3 DEF MailboxInv, RequestsOK
      <3>2. req[x].at \in {"sent", "link"} => m.id \notin req[x].ids
        BY <1>2, <2>3, <3>1 DEF RequestOK
      <3>3. req[x].at \in {"sent", "link"} =>
              \A y \in Workers : req'[y].at \in {"sent", "link"} /\ req'[y].ids = req[x].ids => y = x
        BY <1>2, <1>3, <1>6, <2>3, <3>1, <3>2 DEF RequestOK
      <3>4. req[x].at = "sent" =>
              \A s \in receipts' : s.notification \in req[x].ids => s.receiver # req[x].user
        BY <1>5, <3>1, <3>2 DEF RequestOK
      <3> QED BY <1>4, <3>1, <3>3, <3>4 DEF RequestOK, AskOK, PostedOK
    <2> QED BY <1>3, <2>1, <2>2, <2>3
  <1>12. RoomOK'
    <2>1. Pending' \subseteq Pending
      BY <1>3, <1>6 DEF Pending
    <2> QED BY <1>4, <2>1, FewerPending DEF MailboxInv
  <1> QED BY <1>7, <1>8, <1>9, <1>10, <1>11, <1>12 DEF MailboxInv

-----------------------------------------------------------------------------
(* Questions.                                                              *)

\* The questions and one request change, and nothing else.
OnlyQuestions ==
  UNCHANGED <<conversations, notifications, receipts, written, now>>

LEMMA RowsKept ==
  ASSUME MailboxInv, OnlyQuestions
  PROVE  MessagesOK' /\ CopiesOK' /\ DeliveredOK'
  BY DEF OnlyQuestions, MailboxInv, MessagesOK, CopiesOK, DeliveredOK, Old

LEMMA SaveQuestionKeeps ==
  ASSUME MailboxInv, NEW w \in Workers, NEW u \in Users, NEW v \in Users,
         SaveQuestion(w, u, v)
  PROVE  MailboxInv'
  <1> DEFINE k == asked + 1
             new == [id |-> k, sender |-> u, recipient |-> v, answered |-> FALSE,
                     conversation |-> None]
             mem == [Idle EXCEPT !.at = "ask", !.user = u, !.question = k, !.to = v]
  <1>1. /\ Room /\ u # v /\ asked' = k /\ questions' = questions \cup {new}
        /\ req' = [req EXCEPT ![w] = mem] /\ OnlyQuestions
        /\ UNCHANGED <<conversations, notifications, receipts, written, now>>
    BY DEF SaveQuestion, Remember, OnlyQuestions
  <1>2. asked \in Nat /\ k \in QuestionIds /\ k \in 0..MaxQuestions
    BY Constants DEF SaveQuestion, MailboxInv, TypeOK, QuestionIds
  <1>3. /\ new \in Question /\ new.id = k /\ new.sender = u /\ new.recipient = v
        /\ new.conversation = None
    BY <1>2 DEF Question
  <1>4. /\ mem \in Request /\ mem.at = "ask" /\ mem.user = u /\ mem.question = k
        /\ mem.to = v
    BY <1>2, FirstPage DEF Idle, Request
  <1>5. k = asked + 1
    OBVIOUS
  <1> HIDE DEF k, new, mem
  <1>6. /\ req' \in [Workers -> Request] /\ req'[w] = mem
        /\ \A x \in Workers : x # w => req'[x] = req[x]
    BY <1>1, <1>4 DEF MailboxInv, TypeOK
  <1>7. TypeOK'
    BY <1>1, <1>2, <1>3, <1>6 DEF MailboxInv, TypeOK
  <1>8. \A q \in questions : q.id \in Nat /\ q.id < k
    BY <1>2, <1>5 DEF MailboxInv, QuestionsOK, TypeOK, Question, QuestionIds
  <1>9. QuestionsOK'
    BY <1>1, <1>2, <1>3, <1>5, <1>8 DEF MailboxInv, QuestionsOK
  <1>10. QuestionsReachRecipient'
    BY <1>1, <1>3 DEF MailboxInv, QuestionsReachRecipient
  <1>11. RequestsOK'
    <2> SUFFICES ASSUME NEW x \in Workers PROVE RequestOK(x)'
      BY DEF RequestsOK
    <2>1. CASE x = w
      <3>1. AskOK(req[w])'
        BY <1>1, <1>2, <1>3, <1>4, <1>6, <1>8 DEF AskOK
      <3> QED BY <1>1, <1>4, <1>6, <2>1, <3>1 DEF RequestOK
    <2>2. CASE x # w
      <3>1. req'[x] = req[x] /\ RequestOK(x)
        BY <1>6, <2>2 DEF MailboxInv, RequestsOK
      <3>2. AskOK(req[x]) => AskOK(req[x])'
        BY <1>1, <1>2, <1>3, <1>5, <1>8, <3>1 DEF AskOK, QuestionIds
      <3>3. \A k2 \in req[x].ids : k2 \in Nat
        BY DEF MailboxInv, TypeOK, Request, MessageIds
      <3>4. PostedOK(req[x]) => PostedOK(req[x])'
        BY <1>1, <1>3, <3>1, <3>3, Constants DEF PostedOK, OnlyQuestions
      <3>5. \A y \in Workers : req'[y].at \in {"sent", "link"} => req'[y] = req[y]
        BY <1>4, <1>6
      <3> QED BY <1>1, <3>1, <3>2, <3>4, <3>5 DEF RequestOK
    <2> QED BY <2>1, <2>2
  <1>12. RoomOK'
    <2>1. Pending' \subseteq Pending \cup {w}
      BY <1>6 DEF Pending
    <2> QED BY <1>1, <2>1, OneMorePending DEF MailboxInv
  <1> QED BY <1>1, <1>7, <1>9, <1>10, <1>11, <1>12, RowsKept DEF MailboxInv

\* Questions change but for their keys and users, and point to nothing new.
LEMMA QuestionsKeep ==
  ASSUME MailboxInv, OnlyQuestions, UNCHANGED asked, questions' \subseteq Question,
         \A q \in questions' : \E p \in questions :
           /\ q.id = p.id /\ q.sender = p.sender /\ q.recipient = p.recipient
           /\ q.conversation = p.conversation,
         \A p, q \in questions' : p.id = q.id => p = q,
         NEW w \in Workers, NEW mem \in Request, req' = [req EXCEPT ![w] = mem],
         \/ mem = req[w]
         \/ mem.at \in {"idle", "answered"} /\ (mem.at # "idle" => mem.user \in Users)
  PROVE  MailboxInv'
  <1>1. /\ req' \in [Workers -> Request] /\ req'[w] = mem
        /\ \A x \in Workers : x # w => req'[x] = req[x]
    BY DEF MailboxInv, TypeOK
  <1>2. TypeOK'
    BY <1>1 DEF MailboxInv, TypeOK, OnlyQuestions
  <1>3. QuestionsOK'
    BY DEF MailboxInv, QuestionsOK, OnlyQuestions
  <1>4. QuestionsReachRecipient'
    <2>1. ASSUME NEW q \in questions', q.conversation # None
          PROVE  /\ \A m \in notifications' :
                      m.id = q.conversation => m.sender = q.sender /\ m.to = {q.recipient}
                 /\ \A p \in questions' : p.conversation = q.conversation => p = q
      <3>1. PICK p \in questions :
              /\ q.id = p.id /\ q.sender = p.sender /\ q.recipient = p.recipient
              /\ q.conversation = p.conversation
        OBVIOUS
      <3>2. \A n \in questions : n.conversation = p.conversation => n = p
        BY <2>1, <3>1 DEF MailboxInv, QuestionsReachRecipient
      <3>3. \A n \in questions' : n.conversation = q.conversation => n.id = q.id
        BY <3>1, <3>2
      <3> QED BY <2>1, <3>1, <3>3 DEF MailboxInv, QuestionsReachRecipient, OnlyQuestions
    <2> QED BY <2>1 DEF QuestionsReachRecipient
  <1>5. RequestsOK'
    <2> SUFFICES ASSUME NEW x \in Workers PROVE RequestOK(x)'
      BY DEF RequestsOK
    <2>1. CASE req'[x] = req[x]
      <3>1. RequestOK(x)
        BY DEF MailboxInv, RequestsOK
      <3>2. AskOK(req[x]) => AskOK(req[x])'
        BY <2>1 DEF AskOK
      <3>3. PostedOK(req[x]) => PostedOK(req[x])'
        BY <2>1 DEF PostedOK, OnlyQuestions
      <3>4. \A y \in Workers : req'[y].at \in {"sent", "link"} => req'[y] = req[y]
        BY <1>1
      <3> QED BY <2>1, <3>1, <3>2, <3>3, <3>4 DEF RequestOK, OnlyQuestions
    <2>2. CASE x = w /\ mem.at \in {"idle", "answered"} /\ (mem.at # "idle" => mem.user \in Users)
      BY <1>1, <2>2 DEF RequestOK
    <2> QED BY <1>1, <2>1, <2>2
  <1>6. RoomOK'
    <2>1. Pending' \subseteq Pending
      BY <1>1 DEF Pending
    <2> QED BY <2>1, FewerPending DEF MailboxInv, OnlyQuestions
  <1> QED BY <1>2, <1>3, <1>4, <1>5, <1>6, RowsKept DEF MailboxInv

LEMMA DestroyQuestionKeeps ==
  ASSUME MailboxInv, NEW w \in Workers, DestroyQuestion(w)
  PROVE  MailboxInv'
  <1>1. PICK q \in questions : questions' = questions \ {q}
    BY DEF DestroyQuestion
  <1>2. req' = [req EXCEPT ![w] = req[w]] /\ req[w] \in Request
    BY DEF DestroyQuestion, MailboxInv, TypeOK
  <1>3. OnlyQuestions /\ UNCHANGED asked
    BY DEF DestroyQuestion, OnlyQuestions
  <1>4. /\ questions' \subseteq Question
        /\ \A p, n \in questions' : p.id = n.id => p = n
    BY <1>1 DEF MailboxInv, TypeOK, QuestionsOK
  <1>5. \A n \in questions' : \E p \in questions :
          /\ n.id = p.id /\ n.sender = p.sender /\ n.recipient = p.recipient
          /\ n.conversation = p.conversation
    BY <1>1
  <1> QED BY <1>2, <1>3, <1>4, <1>5, QuestionsKeep

LEMMA SaveAnswerKeeps ==
  ASSUME MailboxInv, NEW w \in Workers, NEW u \in Users, SaveAnswer(w, u)
  PROVE  MailboxInv'
  <1>1. PICK q \in questions :
          /\ q.conversation # None
          /\ questions' = (questions \ {q}) \cup {[q EXCEPT !.answered = TRUE]}
          /\ Enter(w, u, "answered", {q.conversation})
    BY DEF SaveAnswer
  <1> DEFINE n == [q EXCEPT !.answered = TRUE]
             mem == [Idle EXCEPT !.at = "answered", !.user = u, !.ids = {q.conversation}]
  <1>2. /\ n \in Question /\ n.id = q.id /\ n.sender = q.sender
        /\ n.recipient = q.recipient /\ n.conversation = q.conversation
        /\ q.conversation \in MessageIds
    BY <1>1 DEF MailboxInv, TypeOK, Question
  <1>3. mem \in Request /\ mem.at = "answered" /\ mem.user = u
    BY <1>2, FirstPage DEF Idle, Request
  <1>4. req' = [req EXCEPT ![w] = mem] /\ questions' = (questions \ {q}) \cup {n}
    BY <1>1 DEF Enter, Remember
  <1>5. OnlyQuestions /\ UNCHANGED asked
    BY DEF SaveAnswer, OnlyQuestions
  <1> HIDE DEF n, mem
  <1>6. /\ questions' \subseteq Question
        /\ \A p, m \in questions' : p.id = m.id => p = m
    BY <1>2, <1>4 DEF MailboxInv, TypeOK, QuestionsOK
  <1>7. \A m \in questions' : \E p \in questions :
          /\ m.id = p.id /\ m.sender = p.sender /\ m.recipient = p.recipient
          /\ m.conversation = p.conversation
    BY <1>2, <1>4
  <1> QED BY <1>3, <1>4, <1>5, <1>6, <1>7, QuestionsKeep

\* The question of the request gets the conversation that its message opened,
\* which no other question has.
LEMMA LinkQuestionKeeps ==
  ASSUME MailboxInv, NEW w \in Workers, LinkQuestion(w)
  PROVE  MailboxInv'
  <1>1. /\ req[w].at = "link" /\ RequestOK(w) /\ req[w] \in Request
        /\ AskOK(req[w]) /\ PostedOK(req[w])
    BY DEF LinkQuestion, MailboxInv, TypeOK, RequestsOK, RequestOK
  <1>2. PICK k \in MessageIds : req[w].ids = {k}
    BY <1>1 DEF RequestOK
  <1>3. (CHOOSE c \in req[w].ids : TRUE) = k
    BY <1>2
  <1> DEFINE F(q) == IF q.id = req[w].question THEN [q EXCEPT !.conversation = k] ELSE q
  <1>4. /\ questions' = {F(q) : q \in questions} /\ OnlyQuestions /\ UNCHANGED asked
        /\ req' = [req EXCEPT ![w] = Idle]
    BY <1>3 DEF LinkQuestion, Drop, Remember, OnlyQuestions
  <1>5. ASSUME NEW q \in questions
        PROVE  /\ F(q) \in Question /\ F(q).id = q.id /\ F(q).sender = q.sender
               /\ F(q).recipient = q.recipient
               /\ q.id = req[w].question => F(q).conversation = k
               /\ q.id # req[w].question => F(q) = q
    BY DEF MailboxInv, TypeOK, Question
  <1> HIDE DEF F
  <1>6. /\ req' \in [Workers -> Request] /\ req'[w] = Idle
        /\ \A x \in Workers : x # w => req'[x] = req[x]
    BY <1>4, IdleRequest DEF MailboxInv, TypeOK
  <1>7. TypeOK'
    BY <1>4, <1>5, <1>6 DEF MailboxInv, TypeOK, OnlyQuestions
  <1>8. /\ k <= written
        /\ \A q \in questions : q.conversation # k
    BY <1>1, <1>2 DEF RequestOK, PostedOK
  <1>9. QuestionsOK'
    BY <1>4, <1>5, <1>8 DEF MailboxInv, QuestionsOK, OnlyQuestions
  <1>10. QuestionsReachRecipient'
    <2> SUFFICES ASSUME NEW q \in questions, F(q).conversation # None
                 PROVE  /\ \A m \in notifications :
                             m.id = F(q).conversation =>
                               m.sender = F(q).sender /\ m.to = {F(q).recipient}
                        /\ \A p \in questions :
                             F(p).conversation = F(q).conversation => F(p) = F(q)
      BY <1>4 DEF QuestionsReachRecipient, OnlyQuestions
    <2>1. CASE q.id = req[w].question
      <3>1. \A m \in notifications : m.id = k => m.sender = q.sender /\ m.to = {q.recipient}
        BY <1>1, <1>2, <2>1 DEF AskOK, PostedOK
      <3>2. \A p \in questions : F(p).conversation = k => p.id = q.id
        BY <1>5, <1>8, <2>1
      <3> QED BY <1>5, <2>1, <3>1, <3>2 DEF MailboxInv, QuestionsOK
    <2>2. CASE q.id # req[w].question
      <3>1. F(q) = q
        BY <1>5, <2>2
      <3>2. \A p \in questions : F(p).conversation = q.conversation => F(p) = p
        BY <1>5, <1>8
      <3> QED BY <3>1, <3>2 DEF MailboxInv, QuestionsReachRecipient
    <2> QED BY <2>1, <2>2
  <1>11. RequestsOK'
    <2> SUFFICES ASSUME NEW x \in Workers PROVE RequestOK(x)'
      BY DEF RequestsOK
    <2>1. CASE x = w
      BY <1>6, <2>1, IdleRequest DEF RequestOK
    <2>2. CASE x # w
      <3>1. req'[x] = req[x] /\ RequestOK(x)
        BY <1>6, <2>2 DEF MailboxInv, RequestsOK
      <3>2. AskOK(req[x]) => AskOK(req[x])'
        BY <1>4, <1>5, <3>1 DEF AskOK
      <3>3. req[x].at \in {"sent", "link"} => k \notin req[x].ids
        BY <1>1, <1>2, <2>2, <3>1 DEF RequestOK
      <3>4. req[x].at \in {"sent", "link"} /\ PostedOK(req[x]) => PostedOK(req[x])'
        BY <1>4, <1>5, <3>1, <3>3 DEF PostedOK, OnlyQuestions
      <3>5. \A y \in Workers : req'[y].at \in {"sent", "link"} => req'[y] = req[y]
        BY <1>6, IdleRequest
      <3> QED BY <1>4, <3>1, <3>2, <3>4, <3>5 DEF RequestOK, OnlyQuestions
    <2> QED BY <2>1, <2>2
  <1>12. RoomOK'
    <2>1. Pending' \subseteq Pending
      BY <1>6, IdleRequest DEF Pending
    <2> QED BY <1>4, <2>1, FewerPending DEF MailboxInv, OnlyQuestions
  <1> QED BY <1>4, <1>7, <1>9, <1>10, <1>11, <1>12, RowsKept DEF MailboxInv

-----------------------------------------------------------------------------
(* Every step.                                                             *)

LEMMA NextMailbox ==
  ASSUME MailboxInv, [Next]_vars
  PROVE  MailboxInv'
  <1>1. CASE UNCHANGED vars
    <2>1. RequestsOK'
      BY <1>1 DEF vars, tables, MailboxInv, RequestsOK, RequestOK, AskOK, PostedOK
    <2> QED BY <1>1, <2>1
          DEF vars, tables, MailboxInv, TypeOK, MessagesOK, CopiesOK, DeliveredOK, Old,
              QuestionsOK, QuestionsReachRecipient, RoomOK, Pending
  <1>2. CASE RemoveOldReceipts \/ RemoveOldNotifications \/ RemoveOldConversations \/ Tick
    BY <1>2, RemoveOldReceiptsKeeps, RemoveOldNotificationsKeeps,
       RemoveOldConversationsKeeps, TickKeeps
  <1>3. ASSUME NEW w \in Workers, Begin(w)
        PROVE  MailboxInv'
    BY <1>3, WriteKeeps, SaveQuestionKeeps, FindForReplyKeeps, OpenConversationKeeps,
       TrashAllKeeps, SaveAnswerKeeps, DestroyQuestionKeeps DEF Begin
  <1>4. ASSUME NEW w \in Workers, Continue(w) \/ Fail(w)
        PROVE  MailboxInv'
    BY <1>4, SaveOwnCopyKeeps, PostReplyKeeps, LoadPageKeeps, MoveToTrashKeeps,
       PostQuestionKeeps, LinkQuestionKeeps, FileAnsweredKeeps, EndKeeps DEF Continue
  <1> QED BY <1>1, <1>2, <1>3, <1>4 DEF Next

\* The invariant holds in every reachable state, for every value of the constants.
THEOREM MailboxInvariance == Spec => []MailboxInv
  BY InitMailbox, NextMailbox, PTL DEF Spec

\* The type invariant: whatever requests, deaths and rake tasks do, the rows and
\* the memory of the requests stay what they are declared to be.
THEOREM MailboxTypeCorrect == Spec => []TypeOK
  <1>1. MailboxInv => TypeOK
    BY DEF MailboxInv
  <1> QED BY <1>1, MailboxInvariance, PTL

\* A question points to the conversation that its own message opened, from its
\* sender to its recipient, and no two questions share one.
THEOREM QuestionsReachRecipientTheorem == Spec => []QuestionsReachRecipient
  <1>1. MailboxInv => QuestionsReachRecipient
    BY DEF MailboxInv
  <1> QED BY <1>1, MailboxInvariance, PTL

-----------------------------------------------------------------------------
(* What a step does to the messages and their copies.                      *)

\* Flags of copies of one user, by a request of his.
FlagsOf(w, u) ==
  /\ \E c : \/ MarkRead(CopiesOf(u, c))
            \/ \E b \in BOOLEAN : SetTrashed(CopiesOf(u, c), b)
  /\ req'[w] # req[w] /\ u \in {req[w].user, req'[w].user}
  /\ UNCHANGED <<conversations, notifications>>

\* A message to somebody.
Delivery ==
  /\ \E u \in Users, c \in MessageIds, to \in (SUBSET Users) \ {{}} : Deliver(u, c, to)
  /\ conversations \subseteq conversations'

Untouched == UNCHANGED <<conversations, notifications, receipts>>

LEMMA SendMessageDelivers ==
  ASSUME MailboxInv, NEW u \in Users, NEW v \in Users, SendMessage(u, v),
         written + 1 \in MessageIds
  PROVE  Delivery
  <1> DEFINE c == written + 1
             to == {v}
  <1>1. /\ c \in MessageIds /\ to \in (SUBSET Users) \ {{}} /\ Deliver(u, c, to)
        /\ conversations \subseteq conversations'
    BY DEF SendMessage
  <1> HIDE DEF c, to
  <1> QED BY <1>1 DEF Delivery

LEMMA BeginCases ==
  ASSUME MailboxInv, NEW w \in Workers, Begin(w)
  PROVE  Untouched \/ Delivery \/ \E u \in Users : FlagsOf(w, u)
  <1>1. ASSUME NEW u \in Users, NEW v \in Users, Write(w, u, v)
        PROVE  Delivery
    <2>1. written + 1 \in MessageIds
      <3>1. Pending \subseteq Workers /\ Cardinality(Pending) \in Nat
        BY PendingFinite DEF Pending
      <3>2. written + Cardinality(Pending) < MaxMessages
        BY <1>1 DEF Write, Room, Pending
      <3> QED BY <3>1, <3>2, Constants DEF MailboxInv, TypeOK, MessageIds
    <2>2. SendMessage(u, v)
      BY <1>1 DEF Write
    <2> QED BY <2>1, <2>2, SendMessageDelivers
  <1>2. ASSUME NEW u \in Users, NEW c \in MessageIds, FindForReply(w, u, c)
        PROVE  FlagsOf(w, u)
    <2>1. req'[w].at = "reply" /\ req'[w].user = u /\ req[w].at = "idle"
      BY <1>2 DEF FindForReply, Enter, Remember, Idle, Free, MailboxInv, TypeOK
    <2> QED BY <1>2, <2>1 DEF FindForReply, FlagsOf
  <1>3. ASSUME NEW u \in Users, NEW c \in MessageIds, NEW n \in Pages,
               OpenConversation(w, u, c, n)
        PROVE  FlagsOf(w, u)
    <2>1. req'[w].at = "render" /\ req'[w].user = u /\ req[w].at = "idle"
      BY <1>3 DEF OpenConversation, Enter, Remember, Idle, Free, MailboxInv, TypeOK
    <2> QED BY <1>3, <2>1 DEF OpenConversation, FlagsOf
  <1>4. ASSUME NEW u \in Users, NEW v \in Users, NEW ids \in SUBSET MessageIds,
               \/ SaveQuestion(w, u, v) \/ TrashAll(w, u, ids) \/ SaveAnswer(w, u)
               \/ DestroyQuestion(w)
        PROVE  Untouched
    BY <1>4 DEF SaveQuestion, TrashAll, SaveAnswer, DestroyQuestion, Untouched, tables
  <1>5. ASSUME DestroyQuestion(w)
        PROVE  Untouched
    BY <1>5 DEF DestroyQuestion, Untouched
  <1> QED BY <1>1, <1>2, <1>3, <1>4, <1>5 DEF Begin

LEMMA ContinueCases ==
  ASSUME MailboxInv, NEW w \in Workers, Continue(w) \/ Fail(w)
  PROVE  \/ Untouched \/ Delivery \/ PostReply(w) \/ SaveOwnCopy(w)
         \/ \E u \in Users : FlagsOf(w, u)
  <1>1. ASSUME MoveToTrash(w)
        PROVE  \E u \in Users : FlagsOf(w, u)
    <2>1. req[w].at = "trash" /\ req[w].user \in Users /\ req[w] \in Request
      BY <1>1 DEF MoveToTrash, MailboxInv, TypeOK, RequestsOK, RequestOK
    <2>2. PICK c \in req[w].ids :
            /\ SetTrashed(CopiesOf(req[w].user, c), TRUE)
            /\ IF req[w].ids = {c} THEN Drop(w)
               ELSE Remember(w, [req[w] EXCEPT !.ids = @ \ {c}])
      BY <1>1 DEF MoveToTrash
    <2>3. CASE req[w].ids = {c}
      <3>1. req'[w].at = "idle"
        BY <2>2, <2>3, IdleRequest DEF Drop, Remember, MailboxInv, TypeOK
      <3> QED BY <1>1, <2>1, <2>2, <3>1 DEF MoveToTrash, FlagsOf
    <2>4. CASE req[w].ids # {c}
      <3>1. req'[w].ids = req[w].ids \ {c}
        BY <2>1, <2>2, <2>4 DEF Remember, MailboxInv, TypeOK, Request
      <3>2. req'[w].ids # req[w].ids
        BY <2>2, <3>1
      <3> QED BY <1>1, <2>1, <2>2, <3>2 DEF MoveToTrash, FlagsOf
    <2> QED BY <2>3, <2>4
  <1>2. ASSUME FileAnswered(w)
        PROVE  \E u \in Users : FlagsOf(w, u)
    <2>1. req[w].at = "answered" /\ req[w].user \in Users
      BY <1>2 DEF FileAnswered, MailboxInv, RequestsOK, RequestOK
    <2>2. req'[w].at = "idle"
      BY <1>2, IdleRequest DEF FileAnswered, Drop, Remember, MailboxInv, TypeOK
    <2> QED BY <1>2, <2>1, <2>2 DEF FileAnswered, FlagsOf
  <1>3. ASSUME PostQuestion(w)
        PROVE  Delivery
    <2>1. /\ req[w].at = "ask" /\ req[w].user \in Users /\ req[w].to \in Users
          /\ SendMessage(req[w].user, req[w].to)
      BY <1>3 DEF PostQuestion, MailboxInv, RequestsOK, RequestOK, AskOK
    <2>2. written + 1 \in MessageIds
      <3>1. w \in Pending /\ Pending \subseteq Workers
        BY <2>1 DEF Pending
      <3>2. IsFiniteSet(Pending) /\ Cardinality(Pending) \in Nat /\ Cardinality(Pending) # 0
        BY <3>1, PendingFinite, FS_EmptySet
      <3> QED BY <3>2, Constants DEF MailboxInv, RoomOK, TypeOK, MessageIds
    <2> QED BY <2>1, <2>2, SendMessageDelivers
  <1>4. ASSUME LoadPage(w) \/ LinkQuestion(w) \/ Finish(w) \/ Fail(w)
        PROVE  Untouched
    BY <1>4 DEF LoadPage, LinkQuestion, Finish, Fail, Untouched, tables
  <1> QED BY <1>1, <1>2, <1>3, <1>4 DEF Continue

LEMMA StepCases ==
  ASSUME MailboxInv, [Next]_vars
  PROVE  \/ RemoveOldReceipts \/ RemoveOldNotifications \/ RemoveOldConversations
         \/ Untouched \/ Delivery
         \/ \E w \in Workers :
              PostReply(w) \/ SaveOwnCopy(w) \/ \E u \in Users : FlagsOf(w, u)
  <1>1. Tick \/ UNCHANGED vars => Untouched
    BY DEF Tick, vars, tables, Untouched
  <1> QED BY <1>1, BeginCases, ContinueCases DEF Next

\* Only copies of u change, and only their flags.
LEMMA FlagsFacts ==
  ASSUME MailboxInv, NEW w, NEW u, FlagsOf(w, u)
  PROVE  /\ SameCopies
         /\ \A s \in receipts' : s \in receipts \/ s.receiver = u
  <1>1. SameCopies
    BY CopiesAreReceipts, TrashedAreSame, ReadAreSame DEF MailboxInv, FlagsOf
  <1>2. PICK c : \/ MarkRead(CopiesOf(u, c))
                 \/ \E b \in BOOLEAN : SetTrashed(CopiesOf(u, c), b)
    BY DEF FlagsOf
  <1>3. \A r \in CopiesOf(u, c) : r \in Receipt /\ r.receiver = u
    BY DEF CopiesOf, MailboxInv, TypeOK
  <1>4. ASSUME MarkRead(CopiesOf(u, c))
        PROVE  \A s \in receipts' : s \in receipts \/ s.receiver = u
    <2> DEFINE F(r) == [r EXCEPT !.read = TRUE]
    <2>1. receipts' = (receipts \ CopiesOf(u, c)) \cup {F(r) : r \in CopiesOf(u, c)}
      BY <1>4 DEF MarkRead
    <2>2. \A r \in CopiesOf(u, c) : F(r).receiver = u
      BY <1>3 DEF Receipt
    <2> HIDE DEF F
    <2> QED BY <2>1, <2>2
  <1>5. ASSUME NEW b \in BOOLEAN, SetTrashed(CopiesOf(u, c), b)
        PROVE  \A s \in receipts' : s \in receipts \/ s.receiver = u
    <2> DEFINE F(r) == [r EXCEPT !.trashed = b]
    <2>1. receipts' = (receipts \ CopiesOf(u, c)) \cup {F(r) : r \in CopiesOf(u, c)}
      BY <1>5 DEF SetTrashed
    <2>2. \A r \in CopiesOf(u, c) : F(r).receiver = u
      BY <1>3 DEF Receipt
    <2> HIDE DEF F
    <2> QED BY <2>1, <2>2
  <1> QED BY <1>1, <1>2, <1>4, <1>5

\* What a delivery adds.
LEMMA DeliverFacts ==
  ASSUME MailboxInv, NEW u, NEW c, NEW to, Deliver(u, c, to)
  PROVE  /\ notifications \subseteq notifications' /\ receipts \subseteq receipts'
         /\ \A m \in notifications' \ notifications : m.to = to /\ m.conversation = c
         /\ \A s \in receipts' \ receipts :
              \A r \in receipts : s.notification # r.notification
  <1> DEFINE new == [id |-> written + 1, conversation |-> c, sender |-> u, to |-> to,
                     created |-> now]
  <1>1. /\ notifications' = notifications \cup {new}
        /\ new.to = to /\ new.conversation = c
    BY DEF Deliver
  <1>2. \A v, box : Copy(written + 1, v, box).notification = written + 1
    BY DEF Copy
  <1>3. \A s \in receipts' \ receipts : s.notification = written + 1
    BY <1>2 DEF Deliver
  <1>4. \A r \in receipts : r.notification # written + 1
    BY DEF MailboxInv, CopiesOK, TypeOK, Receipt, MessageIds
  <1>5. receipts \subseteq receipts'
    BY DEF Deliver
  <1> HIDE DEF new
  <1> QED BY <1>1, <1>3, <1>4, <1>5

LEMMA OwnCopyFacts ==
  ASSUME MailboxInv, NEW w \in Workers, SaveOwnCopy(w)
  PROVE  /\ UNCHANGED <<conversations, notifications>> /\ receipts \subseteq receipts'
         /\ \A s \in receipts' \ receipts : \A r \in receipts :
              s.notification # r.notification \/ s.receiver # r.receiver
  <1>1. PICK m \in notifications :
          /\ m.id \in req[w].ids
          /\ receipts' = receipts \cup {Copy(m.id, req[w].user, "sentbox")}
    BY DEF SaveOwnCopy
  <1>2. \A r \in receipts : r.notification = m.id => r.receiver # req[w].user
    BY <1>1 DEF SaveOwnCopy, MailboxInv, RequestsOK, RequestOK
  <1>3. /\ Copy(m.id, req[w].user, "sentbox").notification = m.id
        /\ Copy(m.id, req[w].user, "sentbox").receiver = req[w].user
    BY DEF Copy
  <1> QED BY <1>1, <1>2, <1>3 DEF SaveOwnCopy

-----------------------------------------------------------------------------
(* The action properties.                                                  *)

\* A copy is marked as read, filed or taken out of the trash only by a request of
\* the user it belongs to.
THEOREM FlagsAreTheReceiversTheorem == Spec => FlagsAreTheReceivers
  <1>1. ASSUME MailboxInv, [Next]_vars, NEW r \in receipts, NEW s \in receipts', r # s,
               <<r.notification, r.receiver, r.box>> = <<s.notification, s.receiver, s.box>>
        PROVE  \E w \in Workers :
                 req'[w] # req[w] /\ r.receiver \in {req[w].user, req'[w].user}
    <2>1. r.notification = s.notification /\ r.receiver = s.receiver
      BY <1>1
    <2>2. s \notin receipts
      BY <1>1, <2>1 DEF MailboxInv, CopiesOK
    <2>3. ~RemoveOldReceipts /\ ~RemoveOldNotifications /\ ~RemoveOldConversations
          /\ ~Untouched
      BY <1>1, <2>2
         DEF RemoveOldReceipts, RemoveOldNotifications, RemoveOldConversations, Untouched
    <2>4. ~Delivery /\ \A w \in Workers : ~PostReply(w)
      BY <1>1, <2>1, <2>2, DeliverFacts DEF Delivery, PostReply
    <2>5. \A w \in Workers : ~SaveOwnCopy(w)
      BY <1>1, <2>1, <2>2, OwnCopyFacts
    <2>6. PICK w \in Workers : \E u \in Users : FlagsOf(w, u)
      BY <1>1, <2>3, <2>4, <2>5, StepCases
    <2>7. PICK u \in Users : FlagsOf(w, u)
      BY <2>6
    <2>8. s.receiver = u
      BY <1>1, <2>2, <2>7, FlagsFacts
    <2> QED BY <2>1, <2>7, <2>8 DEF FlagsOf
  <1>2. MailboxInv /\ [Next]_vars =>
          [\A r \in receipts, s \in receipts' :
             /\ r # s
             /\ <<r.notification, r.receiver, r.box>>
                  = <<s.notification, s.receiver, s.box>>
             => \E w \in Workers :
                  /\ req'[w] # req[w]
                  /\ r.receiver \in {req[w].user, req'[w].user}]_vars
    BY <1>1
  <1> QED BY <1>2, MailboxInvariance, PTL DEF Spec, FlagsAreTheReceivers

\* Copies that stay, whatever their flags, keep a message with its recipients.
LEMMA StaysWith ==
  ASSUME MailboxInv, NEW m \in notifications, ~Old(m),
         \A r \in receipts : ~Old(r) => \E s \in receipts' :
           s.notification = r.notification /\ s.receiver = r.receiver
  PROVE  \A v \in m.to : \E r \in receipts' : r.notification = m.id /\ r.receiver = v
  <1> SUFFICES ASSUME NEW v \in m.to
               PROVE  \E r \in receipts' : r.notification = m.id /\ r.receiver = v
    OBVIOUS
  <1>1. PICK r \in receipts :
          r.notification = m.id /\ r.receiver = v /\ r.created = m.created
    BY DEF MailboxInv, DeliveredOK
  <1>2. ~Old(r)
    BY <1>1 DEF Old
  <1> QED BY <1>1, <1>2

\* No rake task takes away, or hides from those it was sent to, a message that is
\* younger than the retention, however old its conversation is.
THEOREM YoungStaysTheorem == Spec => YoungStays
  <1>1. ASSUME MailboxInv, [Next]_vars, NEW m \in notifications, ~Old(m)
        PROVE  /\ m \in notifications'
               /\ \E c \in conversations' : c.id = m.conversation
               /\ \A v \in m.to : \E r \in receipts' :
                    r.notification = m.id /\ r.receiver = v
    <2>1. m \in notifications'
      BY <1>1, StepCases, DeliverFacts, OwnCopyFacts
         DEF RemoveOldReceipts, RemoveOldNotifications, RemoveOldConversations, Untouched,
             Delivery, PostReply, FlagsOf
    <2>2. \E c \in conversations' : c.id = m.conversation
      <3>1. PICK c \in conversations : c.id = m.conversation
        BY <1>1 DEF MailboxInv, MessagesOK
      <3>2. c \in conversations'
        BY <1>1, <3>1, StepCases, OwnCopyFacts
           DEF RemoveOldReceipts, RemoveOldNotifications, RemoveOldConversations, Untouched,
               Delivery, PostReply, FlagsOf
      <3> QED BY <3>1, <3>2
    <2>3. ASSUME NEW r \in receipts, ~Old(r)
          PROVE  \E s \in receipts' :
                   s.notification = r.notification /\ s.receiver = r.receiver
      <3>1. CASE \E w \in Workers : \E u \in Users : FlagsOf(w, u)
        BY <1>1, <3>1, FlagsFacts DEF SameCopies
      <3>2. CASE r \in receipts'
        BY <3>2
      <3>3. CASE ~\E w \in Workers : \E u \in Users : FlagsOf(w, u)
        <4>1. r \in receipts'
          BY <1>1, <2>3, <3>3, StepCases, DeliverFacts, OwnCopyFacts
             DEF RemoveOldReceipts, RemoveOldNotifications, RemoveOldConversations,
                 Untouched, Delivery, PostReply
        <4> QED BY <4>1
      <3> QED BY <3>1, <3>3
    <2>4. \A v \in m.to : \E r \in receipts' : r.notification = m.id /\ r.receiver = v
      BY <1>1, <2>3, StaysWith
    <2> QED BY <2>1, <2>2, <2>4
  <1>2. MailboxInv /\ [Next]_vars =>
          [\A m \in notifications : ~Old(m) =>
             /\ m \in notifications'
             /\ \E c \in conversations' : c.id = m.conversation
             /\ \A v \in m.to : \E r \in receipts' :
                  r.notification = m.id /\ r.receiver = v]_vars
    BY <1>1
  <1> QED BY <1>2, MailboxInvariance, PTL DEF Spec, YoungStays

\* A reply reaches nobody only if it answers a message that is past the retention,
\* that reached nobody itself, or whose sender has no copy of it yet.
THEOREM NoReplyIsLostTheorem == Spec => NoReplyIsLost
  <1>1. ASSUME MailboxInv, [Next]_vars, NEW m \in notifications' \ notifications, m.to = {}
        PROVE  \E e \in LastMessages(m.conversation) :
                 Old(e) \/ e.to = {} \/ e.sender \notin Receivers(e)
    <2>1. ~Delivery
      BY <1>1, DeliverFacts DEF Delivery
    <2>2. ~UNCHANGED notifications /\ ~RemoveOldNotifications
      BY <1>1 DEF RemoveOldNotifications
    <2>3. PICK w \in Workers : PostReply(w)
      BY <1>1, <2>1, <2>2, StepCases, OwnCopyFacts
         DEF RemoveOldReceipts, RemoveOldConversations, Untouched, FlagsOf
    <2>4. PICK c \in req[w].ids : \E last \in LastMessages(c) :
            Deliver(req[w].user, c, Receivers(last) \ {req[w].user})
      BY <2>3 DEF PostReply
    <2>5. PICK last \in LastMessages(c) :
            Deliver(req[w].user, c, Receivers(last) \ {req[w].user})
      BY <2>4
    <2>6. m.conversation = c /\ Receivers(last) \ {req[w].user} = {}
      BY <1>1, <2>5, DeliverFacts
    <2>7. last \in notifications
      BY DEF LastMessages, MessagesOf
    <2>8. ASSUME ~Old(last), last.to # {}
          PROVE  last.sender \notin Receivers(last)
      <3>1. last.to \subseteq Receivers(last)
        BY <1>1, <2>7, <2>8 DEF MailboxInv, DeliveredOK, Receivers
      <3>2. req[w].user \in last.to
        BY <2>6, <2>8, <3>1
      <3>3. last.sender \notin last.to
        BY <1>1, <2>7 DEF MailboxInv, MessagesOK
      <3> QED BY <2>6, <3>2, <3>3
    <2> QED BY <2>6, <2>8
  <1>2. MailboxInv /\ [Next]_vars =>
          [\A m \in notifications' \ notifications : m.to = {} =>
             \E e \in LastMessages(m.conversation) :
               Old(e) \/ e.to = {} \/ e.sender \notin Receivers(e)]_vars
    BY <1>1
  <1> QED BY <1>2, MailboxInvariance, PTL DEF Spec, NoReplyIsLost

\* Copies of one user are as many as their messages.
LEMMA OneCopyEach ==
  ASSUME MailboxInv, NEW u, NEW c, NEW page \in SUBSET CopiesOf(u, c)
  PROVE  /\ IsFiniteSet(page)
         /\ Cardinality({r.notification : r \in page}) = Cardinality(page)
  <1> DEFINE ids == {r.notification : r \in page}
             f == [r \in page |-> r.notification]
  <1>1. ids \subseteq MessageIds
    BY CopiesAreReceipts DEF MailboxInv, TypeOK, Receipt
  <1>2. IsFiniteSet(ids)
    <2>1. IsFiniteSet(1..MaxMessages)
      BY Constants, FS_Interval
    <2> HIDE DEF ids
    <2> QED BY <1>1, <2>1, FS_Subset DEF MessageIds
  <1>3. f \in Injection(page, ids)
    <2>1. f \in [page -> ids]
      OBVIOUS
    <2>2. \A r, s \in page : f[r] = f[s] => r = s
      BY DEF CopiesOf, MailboxInv, CopiesOK
    <2> HIDE DEF f, ids
    <2> QED BY <2>1, <2>2, Fun_IsInj
  <1>4. f \in Surjection(page, ids)
    <2>1. f \in [page -> ids]
      OBVIOUS
    <2>2. \A k \in ids : \E r \in page : f[r] = k
      OBVIOUS
    <2> HIDE DEF f, ids
    <2> QED BY <2>1, <2>2, Fun_IsSurj
  <1> HIDE DEF f
  <1> QED BY <1>2, <1>3, <1>4, FS_Injection

\* Only the loading of the page leads from the rendering to the page.
LEMMA PageIsLoaded ==
  ASSUME MailboxInv, [Next]_vars, NEW w \in Workers,
         req[w].at = "render", req'[w].at = "page"
  PROVE  LoadPage(w)
  <1>1. req' # req
    OBVIOUS
  <1>2. PICK x \in Workers : Begin(x) \/ Continue(x) \/ Fail(x)
    BY <1>1 DEF Next, vars, tables, RemoveOldReceipts, RemoveOldNotifications,
                RemoveOldConversations, Tick
  <1>3. \E mem : req' = [req EXCEPT ![x] = mem]
    <2>1. CASE DestroyQuestion(x)
      BY <1>1, <2>1 DEF DestroyQuestion
    <2>2. CASE Begin(x) /\ ~DestroyQuestion(x)
      BY <2>2 DEF Begin, Write, SaveQuestion, FindForReply, OpenConversation, TrashAll,
                  SaveAnswer, Enter, Remember
    <2>3. CASE Continue(x) \/ Fail(x)
      BY <2>3 DEF Continue, SaveOwnCopy, PostReply, LoadPage, MoveToTrash, PostQuestion,
                  LinkQuestion, FileAnswered, Finish, Fail, Drop, Go, Enter, Remember
    <2> QED BY <1>2, <2>1, <2>2, <2>3
  <1>4. x = w
    BY <1>3 DEF MailboxInv, TypeOK
  <1>5. ~Fail(w) /\ ~Finish(w)
    BY IdleRequest DEF Fail, Finish, Drop, Remember, MailboxInv, TypeOK
  <1>6. ~Begin(w)
    BY DEF Begin, Write, SaveQuestion, FindForReply, OpenConversation, TrashAll, SaveAnswer,
           DestroyQuestion, Free
  <1> QED BY <1>2, <1>4, <1>5, <1>6
        DEF Continue, SaveOwnCopy, PostReply, MoveToTrash, PostQuestion, LinkQuestion,
            FileAnswered

\* What OFFSET and LIMIT leave out is on the pages before, unless the page is full.
LEMMA LeftForOtherPages ==
  ASSUME MailboxInv, NEW copies, IsFiniteSet(copies), NEW n \in Pages,
         NEW page \in PagesOf(copies, n), Cardinality(page) # PerPage
  PROVE  Cardinality(copies \ page) <= Skipped(n)
  <1>1. Skipped(n) \in Nat
    BY MailboxAssumption DEF Skipped, Pages
  <1>2. IsFiniteSet(page) /\ IsFiniteSet(copies \ page)
    BY FS_Subset DEF PagesOf
  <1>3. /\ Cardinality(copies) \in Nat /\ Cardinality(page) \in Nat
        /\ Cardinality(copies \ page) = Cardinality(copies) - Cardinality(page)
    <2>1. copies \cap page = page
      BY DEF PagesOf
    <2>2. /\ Cardinality(copies) \in Nat /\ Cardinality(page) \in Nat
          /\ Cardinality(copies \ page) = Cardinality(copies) - Cardinality(copies \cap page)
      BY <1>2, FS_Difference, FS_CardinalityType
    <2> QED BY <2>1, <2>2
  <1>4. Cardinality(copies) <= Skipped(n) + Cardinality(page)
    BY DEF PagesOf
  <1> QED BY <1>1, <1>3, <1>4

\* A page that is not full shows whatever is marked as read, but for as many copies
\* as fit on the pages before it, for every size of the pages and every page.
THEOREM PageShowsWhatItMarksTheorem == Spec => PageShowsWhatItMarks
  <1> DEFINE Unseen(w, c) == {r \in CopiesOf(req[w].user, c) :
                                r.read /\ r.notification \notin req'[w].ids}
  <1>1. ASSUME MailboxInv, [Next]_vars, NEW w \in Workers,
               req[w].at = "render", req'[w].at = "page", NEW c \in req[w].ids
        PROVE  \/ Cardinality(Unseen(w, c)) <= Skipped(req[w].page)
               \/ Cardinality(req'[w].ids) = PerPage
    <2>1. LoadPage(w)
      BY <1>1, PageIsLoaded
    <2>2. req[w].ids = {c}
      BY <1>1 DEF MailboxInv, RequestsOK, RequestOK
    <2> DEFINE copies == CopiesOf(req[w].user, c)
    <2>3. PICK page \in PagesOf(copies, req[w].page) :
            Enter(w, req[w].user, "page", {s.notification : s \in page})
      BY <2>1, <2>2 DEF LoadPage
    <2>4. req'[w].ids = {s.notification : s \in page}
      BY <1>1, <2>3 DEF Enter, Remember, Idle, MailboxInv, TypeOK
    <2>5. page \subseteq copies /\ req[w].page \in Pages
      BY <1>1 DEF PagesOf, MailboxInv, TypeOK, Request
    <2>6. Cardinality(req'[w].ids) = Cardinality(page)
      BY <1>1, <2>4, <2>5, OneCopyEach
    <2>7. CASE Cardinality(page) = PerPage
      BY <2>6, <2>7
    <2>8. CASE Cardinality(page) # PerPage
      <3>1. IsFiniteSet(copies)
        BY <1>1, OneCopyEach
      <3>2. Cardinality(copies \ page) <= Skipped(req[w].page)
        BY <1>1, <2>5, <2>8, <3>1, LeftForOtherPages
      <3>3. Unseen(w, c) \subseteq copies \ page
        BY <2>4
      <3>4. /\ IsFiniteSet(copies \ page)
            /\ Cardinality(Unseen(w, c)) <= Cardinality(copies \ page)
        BY <3>1, <3>3, FS_Subset
      <3>5. /\ Cardinality(Unseen(w, c)) \in Nat
            /\ Cardinality(copies \ page) \in Nat /\ Skipped(req[w].page) \in Nat
        <4>1. Skipped(req[w].page) \in Nat
          BY <2>5, MailboxAssumption DEF Skipped, Pages
        <4> HIDE DEF copies, Unseen
        <4>2. IsFiniteSet(Unseen(w, c))
          BY <3>3, <3>4, FS_Subset
        <4> QED BY <3>4, <4>1, <4>2, FS_CardinalityType
      <3> HIDE DEF copies, Unseen
      <3> QED BY <3>2, <3>4, <3>5
    <2> QED BY <2>7, <2>8
  <1>2. MailboxInv /\ [Next]_vars =>
          [\A w \in Workers : req[w].at = "render" /\ req'[w].at = "page" =>
             \A c \in req[w].ids :
               \/ Cardinality(Unseen(w, c)) <= Skipped(req[w].page)
               \/ Cardinality(req'[w].ids) = PerPage]_vars
    BY <1>1
  <1> QED BY <1>2, MailboxInvariance, PTL DEF Spec, PageShowsWhatItMarks

-----------------------------------------------------------------------------
(* Questions on their way to a conversation.                               *)

\* The request of w asks question k, which it has saved.
Asks(w, k) == req[w].at \in {"ask", "sent", "link"} /\ req[w].question = k
Pursued(k) == \E w \in Workers : Asks(w, k)

\* What a step of w does to the question w asks.
LEMMA AsksOn ==
  ASSUME MailboxInv, NEW w \in Workers, NEW k \in QuestionIds, Asks(w, k),
         Begin(w) \/ Continue(w) \/ Fail(w)
  PROVE  Asks(w, k)' \/ LinkQuestion(w) \/ Finish(w) \/ Fail(w)
  <1>1. req \in [Workers -> Request] /\ req[w] \in Request /\ ~Free(w) /\ k # None
    BY Constants DEF MailboxInv, TypeOK, Asks, Free, QuestionIds
  <1>2. CASE Begin(w)
    <2>1. \A u, v : ~Write(w, u, v) /\ ~SaveQuestion(w, u, v)
      BY <1>1 DEF Write, SaveQuestion
    <2>2. \A u, c, n : ~FindForReply(w, u, c) /\ ~OpenConversation(w, u, c, n)
      BY <1>1 DEF FindForReply, OpenConversation
    <2>3. \A u, ids : ~TrashAll(w, u, ids) /\ ~SaveAnswer(w, u)
      BY <1>1 DEF TrashAll, SaveAnswer
    <2>4. DestroyQuestion(w)
      BY <1>2, <2>1, <2>2, <2>3 DEF Begin
    <2> QED BY <1>1, <2>4 DEF DestroyQuestion
  <1>3. CASE SaveOwnCopy(w)
    <2>1. req' = [req EXCEPT ![w] = [req[w] EXCEPT !.at = "link"]]
      BY <1>1, <1>3 DEF SaveOwnCopy, Go, Remember, Asks
    <2>2. req'[w].at = "link" /\ req'[w].question = req[w].question
      BY <1>1, <2>1 DEF Request
    <2> QED BY <2>2 DEF Asks
  <1>4. CASE PostQuestion(w)
    <2>1. req' = [req EXCEPT ![w] = [req[w] EXCEPT !.at = "sent", !.ids = {written + 1}]]
      BY <1>4 DEF PostQuestion, Remember
    <2>2. req'[w].at = "sent" /\ req'[w].question = req[w].question
      BY <1>1, <2>1 DEF Request
    <2> QED BY <2>2 DEF Asks
  <1>5. ~PostReply(w) /\ ~LoadPage(w) /\ ~MoveToTrash(w) /\ ~FileAnswered(w)
    BY DEF Asks, PostReply, LoadPage, MoveToTrash, FileAnswered
  <1> QED BY <1>2, <1>3, <1>4, <1>5 DEF Continue

\* A step of one request leaves the memory of the others alone.
LEMMA OthersAskOn ==
  ASSUME MailboxInv, NEW w \in Workers, NEW x \in Workers, x # w,
         Begin(w) \/ Continue(w) \/ Fail(w)
  PROVE  req'[x] = req[x]
  <1>1. \A memory : Remember(w, memory) => req'[x] = req[x]
    BY DEF MailboxInv, TypeOK, Remember
  <1>2. \A u, step, ids : Enter(w, u, step, ids) => req'[x] = req[x]
    BY <1>1 DEF Enter
  <1>3. \A step : Drop(w) \/ Go(w, step) => req'[x] = req[x]
    BY <1>1 DEF Drop, Go
  <1>4. ASSUME NEW u, NEW v, Write(w, u, v) \/ SaveQuestion(w, u, v)
        PROVE  req'[x] = req[x]
    BY <1>1, <1>2, <1>4 DEF Write, SaveQuestion
  <1>5. ASSUME NEW u, NEW c, NEW n, FindForReply(w, u, c) \/ OpenConversation(w, u, c, n)
        PROVE  req'[x] = req[x]
    BY <1>1, <1>2, <1>5 DEF FindForReply, OpenConversation
  <1>6. ASSUME NEW u, NEW ids, TrashAll(w, u, ids) \/ SaveAnswer(w, u) \/ DestroyQuestion(w)
        PROVE  req'[x] = req[x]
    BY <1>2, <1>6 DEF TrashAll, SaveAnswer, DestroyQuestion
  <1>7. CASE Begin(w)
    BY <1>4, <1>5, <1>6, <1>7 DEF Begin
  <1>8. CASE SaveOwnCopy(w) \/ PostReply(w) \/ LoadPage(w)
    BY <1>2, <1>3, <1>8 DEF SaveOwnCopy, PostReply, LoadPage
  <1>9. CASE MoveToTrash(w) \/ PostQuestion(w) \/ LinkQuestion(w)
    BY <1>1, <1>3, <1>9 DEF MoveToTrash, PostQuestion, LinkQuestion
  <1>10. CASE FileAnswered(w) \/ Finish(w) \/ Fail(w)
    BY <1>3, <1>10 DEF FileAnswered, Finish, Fail
  <1> QED BY <1>7, <1>8, <1>9, <1>10 DEF Continue

\* A question that is linked is no longer without a conversation.
LEMMA LinkedAfter ==
  ASSUME MailboxInv, NEW w \in Workers, LinkQuestion(w), NEW k, k = req[w].question
  PROVE  ~Unlinked(k)'
  <1>1. PICK m \in MessageIds : req[w].ids = {m}
    BY DEF LinkQuestion, MailboxInv, RequestsOK, RequestOK
  <1>2. (CHOOSE c \in req[w].ids : TRUE) \in Nat
    BY <1>1 DEF MessageIds
  <1> DEFINE L(q) == IF q.id = req[w].question
                       THEN [q EXCEPT !.conversation = CHOOSE c \in req[w].ids : TRUE]
                       ELSE q
  <1>3. \A q \in questions : L(q).id = req[w].question => L(q).conversation # None
    BY <1>2, Constants DEF MailboxInv, TypeOK, Question
  <1>4. questions' = {L(q) : q \in questions}
    BY DEF LinkQuestion
  <1> HIDE DEF L
  <1> QED BY <1>3, <1>4 DEF Unlinked

\* A question without a conversation was so before, or is being asked.
LEMMA UnlinkedBefore ==
  ASSUME MailboxInv, [Next]_vars, NEW k \in QuestionIds, Unlinked(k)'
  PROVE  Unlinked(k) \/ Pursued(k)'
  <1>1. PICK q \in questions' : q.id = k /\ q.conversation = None
    BY DEF Unlinked
  <1>2. CASE q \in questions
    BY <1>1, <1>2 DEF Unlinked
  <1>3. ASSUME NEW w \in Workers, NEW u \in Users, NEW v \in Users, SaveQuestion(w, u, v),
               q \notin questions
        PROVE  Asks(w, k)'
    <2>1. q.id = asked + 1 /\ req'[w].at = "ask" /\ req'[w].question = asked + 1
      BY <1>3, <1>1 DEF SaveQuestion, Remember, Idle, MailboxInv, TypeOK
    <2> QED BY <1>1, <2>1 DEF Asks
  <1>4. ASSUME NEW w \in Workers, NEW u \in Users, SaveAnswer(w, u)
        PROVE  q \in questions
    <2>1. PICK p \in questions : p.conversation # None
                                 /\ questions' = (questions \ {p}) \cup {[p EXCEPT !.answered = TRUE]}
      BY <1>4 DEF SaveAnswer
    <2>2. [p EXCEPT !.answered = TRUE].conversation = p.conversation
      BY DEF MailboxInv, TypeOK, Question
    <2> QED BY <1>1, <2>1, <2>2
  <1>5. ASSUME NEW w \in Workers, LinkQuestion(w), q \notin questions
        PROVE  FALSE
    <2> DEFINE c == CHOOSE d \in req[w].ids : TRUE
    <2>1. PICK p \in questions :
            q = IF p.id = req[w].question THEN [p EXCEPT !.conversation = c] ELSE p
      BY <1>1, <1>5 DEF LinkQuestion
    <2>2. [p EXCEPT !.conversation = c].id = p.id
      BY DEF MailboxInv, TypeOK, Question
    <2> HIDE DEF c
    <2>3. q.id = req[w].question
      BY <1>5, <2>1, <2>2
    <2> QED BY <1>1, <1>5, <2>3, LinkedAfter
  <1>6. ASSUME NEW w \in Workers, DestroyQuestion(w)
        PROVE  q \in questions
    BY <1>1, <1>6 DEF DestroyQuestion
  <1>7. CASE UNCHANGED questions
    BY <1>1, <1>7, <1>2
  <1>8. ASSUME NEW w \in Workers, Begin(w) PROVE Unlinked(k) \/ Pursued(k)'
    BY <1>2, <1>3, <1>4, <1>6, <1>7, <1>8
       DEF Begin, Pursued, Write, FindForReply, OpenConversation, TrashAll, tables
  <1>9. ASSUME NEW w \in Workers, Continue(w) \/ Fail(w) PROVE Unlinked(k) \/ Pursued(k)'
    BY <1>2, <1>5, <1>7, <1>9
       DEF Continue, SaveOwnCopy, PostReply, LoadPage, MoveToTrash, PostQuestion, FileAnswered,
           Finish, Fail, tables
  <1> QED BY <1>7, <1>8, <1>9
        DEF Next, RemoveOldReceipts, RemoveOldNotifications, RemoveOldConversations, Tick, vars,
            tables

LEMMA LosesItsRequest ==
  ASSUME MailboxInv, [Next]_vars, NEW k \in QuestionIds, Unlinked(k)', ~Pursued(k)',
         ~(Unlinked(k) /\ ~Pursued(k))
  PROVE  \E w \in Workers : Asks(w, k) /\ (Fail(w) \/ Finish(w))
  <1>1. Unlinked(k)
    BY UnlinkedBefore
  <1>2. PICK w \in Workers : Asks(w, k)
    BY <1>1 DEF Pursued
  <1>3. ~Asks(w, k)'
    BY DEF Pursued
  <1>4. req'[w] # req[w]
    BY <1>2, <1>3 DEF Asks
  <1>5. Begin(w) \/ Continue(w) \/ Fail(w)
    BY <1>4, OthersAskOn
       DEF Next, RemoveOldReceipts, RemoveOldNotifications, RemoveOldConversations, Tick, vars
  <1>6. ~LinkQuestion(w)
    BY <1>2, LinkedAfter DEF Asks
  <1> QED BY <1>2, <1>3, <1>5, <1>6, AsksOn

\* A question that waits for its conversation while no request pursues it any more
\* lost that request by its death, or by the removal of its message before the
\* sender had a copy: nothing else leaves a question unlinked for ever.
THEOREM UnlinkedByDeath ==
  Spec => [][\A k \in QuestionIds : Unlinked(k)' /\ ~Pursued(k)' =>
               \/ Unlinked(k) /\ ~Pursued(k)
               \/ \E w \in Workers : Asks(w, k) /\ (Fail(w) \/ Finish(w))]_vars
  <1>1. ASSUME MailboxInv, [Next]_vars, NEW k \in QuestionIds, Unlinked(k)', ~Pursued(k)',
               ~(Unlinked(k) /\ ~Pursued(k))
        PROVE  \E w \in Workers : Asks(w, k) /\ (Fail(w) \/ Finish(w))
    BY <1>1, LosesItsRequest
  <1>2. MailboxInv /\ [Next]_vars =>
          [\A k \in QuestionIds : Unlinked(k)' /\ ~Pursued(k)' =>
             \/ Unlinked(k) /\ ~Pursued(k)
             \/ \E w \in Workers : Asks(w, k) /\ (Fail(w) \/ Finish(w))]_vars
    BY <1>1
  <1> QED BY <1>2, MailboxInvariance, PTL DEF Spec

\* Every question without a conversation has its request, and no request has lost
\* its message.
UnlinkedInv ==
  /\ \A k \in QuestionIds : Unlinked(k) => Pursued(k)
  /\ \A w \in Workers : req[w].at = "sent" => \E m \in notifications : m.id \in req[w].ids

\* As long as no row is old enough to be removed, the message of a request stays.
LEMMA MessageStays ==
  ASSUME MailboxInv, UnlinkedInv, [Next]_vars, MaxTime <= Retention
  PROVE  \A w \in Workers : req'[w].at = "sent" => \E m \in notifications' : m.id \in req'[w].ids
  <1>1. notifications \subseteq notifications'
    <2>1. \A m \in notifications : ~Old(m)
      BY Constants DEF Old, MailboxInv, TypeOK, Message, Time
    <2>2. RemoveOldNotifications => notifications \subseteq notifications'
      BY <2>1 DEF RemoveOldNotifications
    <2>3. \A w : SaveOwnCopy(w) => notifications \subseteq notifications'
      BY DEF SaveOwnCopy
    <2>4. \A w : PostReply(w) => notifications \subseteq notifications'
      BY DEF PostReply, Deliver
    <2> QED BY <2>2, <2>3, <2>4, StepCases
          DEF RemoveOldReceipts, RemoveOldConversations, Untouched, Delivery, Deliver, FlagsOf
  <1>2. req \in [Workers -> Request]
    BY DEF MailboxInv, TypeOK
  <1> SUFFICES ASSUME NEW w \in Workers, req'[w].at = "sent"
               PROVE  \E m \in notifications' : m.id \in req'[w].ids
    OBVIOUS
  <1>3. CASE req'[w] = req[w]
    BY <1>1, <1>3 DEF UnlinkedInv
  <1>4. CASE req'[w] # req[w]
    <2>1. Begin(w) \/ Continue(w) \/ Fail(w)
      BY <1>4, OthersAskOn
         DEF Next, RemoveOldReceipts, RemoveOldNotifications, RemoveOldConversations, Tick, vars
    <2>2. \A u, c, to : Deliver(u, c, to) => \E m \in notifications' : m.id = written + 1
      <3> SUFFICES ASSUME NEW u, NEW c, NEW to, Deliver(u, c, to)
                   PROVE  \E m \in notifications' : m.id = written + 1
        OBVIOUS
      <3> DEFINE new == [id |-> written + 1, conversation |-> c, sender |-> u, to |-> to,
                         created |-> now]
      <3>1. new \in notifications' /\ new.id = written + 1
        BY DEF Deliver
      <3> QED BY <3>1
    <2>3. \A u, step, ids : Enter(w, u, step, ids) => req'[w].at = step /\ req'[w].ids = ids
      BY <1>2 DEF Enter, Remember, Idle
    <2>4. ~Drop(w)
      BY <1>2, IdleRequest DEF Drop, Remember
    <2>5. ASSUME NEW u, NEW v, Write(w, u, v)
          PROVE  \E m \in notifications' : m.id \in req'[w].ids
      BY <2>2, <2>3, <2>5 DEF Write, SendMessage
    <2>6. ASSUME NEW u, NEW v, SaveQuestion(w, u, v)
          PROVE  FALSE
      BY <1>2, <2>6 DEF SaveQuestion, Remember, Idle
    <2>7. ASSUME NEW u, NEW c, NEW n, FindForReply(w, u, c) \/ OpenConversation(w, u, c, n)
          PROVE  FALSE
      <3>1. CASE FindForReply(w, u, c)
        <4>1. Enter(w, u, "reply", {c})
          BY <3>1 DEF FindForReply
        <4> QED BY <2>3, <4>1
      <3>2. CASE OpenConversation(w, u, c, n)
        BY <1>2, <3>2 DEF OpenConversation, Remember, Idle
      <3> QED BY <2>7, <3>1, <3>2
    <2>8. ASSUME NEW u, NEW ids, TrashAll(w, u, ids) \/ SaveAnswer(w, u) \/ DestroyQuestion(w)
          PROVE  FALSE
      <3>1. ~DestroyQuestion(w)
        BY <1>4 DEF DestroyQuestion
      <3>2. ~TrashAll(w, u, ids)
        BY <2>3 DEF TrashAll
      <3>3. ~SaveAnswer(w, u)
        BY <2>3 DEF SaveAnswer
      <3> QED BY <2>8, <3>1, <3>2, <3>3
    <2>9. CASE Begin(w)
      BY <2>5, <2>6, <2>7, <2>8, <2>9 DEF Begin
    <2>10. CASE SaveOwnCopy(w)
      BY <1>2, <2>4, <2>10 DEF SaveOwnCopy, Go, Remember, Request
    <2>11. CASE PostReply(w)
      BY <2>2, <2>3, <2>4, <2>11 DEF PostReply
    <2>12. CASE PostQuestion(w)
      <3>1. req'[w].ids = {written + 1}
        BY <1>2, <2>12 DEF PostQuestion, Remember, Request
      <3> QED BY <2>2, <2>12, <3>1 DEF PostQuestion, SendMessage
    <2>13. CASE MoveToTrash(w)
      BY <1>2, <2>4, <2>13 DEF MoveToTrash, Remember, Request
    <2>14. CASE LoadPage(w) \/ LinkQuestion(w) \/ FileAnswered(w) \/ Finish(w) \/ Fail(w)
      BY <2>3, <2>4, <2>14 DEF LoadPage, LinkQuestion, FileAnswered, Finish, Fail
    <2> QED BY <2>1, <2>9, <2>10, <2>11, <2>12, <2>13, <2>14 DEF Continue
  <1> QED BY <1>3, <1>4

\* Where no process dies and nothing gets as old as the retention, every question
\* that waits for its conversation has a request that is about to give it one: what
\* SavedQuestionIsLinked still needs is that requests go on.
THEOREM UnlinkedIsPursued ==
  ASSUME MayFail = FALSE, MaxTime <= Retention
  PROVE  Spec => [](\A k \in QuestionIds : Unlinked(k) => Pursued(k))
  <1>1. Init => UnlinkedInv
    BY IdleRequest DEF Init, UnlinkedInv, Unlinked
  <1>2. ASSUME MailboxInv, UnlinkedInv, [Next]_vars
        PROVE  UnlinkedInv'
    <2>1. \A w \in Workers : req'[w].at = "sent" => \E m \in notifications' : m.id \in req'[w].ids
      BY <1>2, MessageStays
    <2>2. ASSUME NEW k \in QuestionIds, Unlinked(k)', ~Pursued(k)'
          PROVE  FALSE
      <3>1. PICK w \in Workers : Asks(w, k) /\ (Fail(w) \/ Finish(w))
        BY <1>2, <2>2, LosesItsRequest DEF UnlinkedInv
      <3>2. req[w].at = "sent" /\ Finish(w)
        BY <3>1 DEF Fail, Finish, Asks
      <3> QED BY <1>2, <3>2 DEF Finish, UnlinkedInv
    <2> QED BY <2>1, <2>2 DEF UnlinkedInv
  <1>3. UnlinkedInv => \A k \in QuestionIds : Unlinked(k) => Pursued(k)
    BY DEF UnlinkedInv
  <1> QED BY <1>1, <1>2, <1>3, MailboxInvariance, PTL DEF Spec
=============================================================================
