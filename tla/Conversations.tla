----------------------------- MODULE Conversations -----------------------------
(***************************************************************************)
(* One conversation: its status, the messages that its tasks add, the        *)
(* attachments on the way to them, and a reader who pages through the        *)
(* messages (services/conversation_service.py, attachment_service.py and the *)
(* transactions of task_service.py and stage_five_result_service.py that add *)
(* a message).                                                               *)
(*                                                                           *)
(* Several requests are under way at once.  Each is a database transaction   *)
(* at the isolation of MySQL: an unlocked read sees what was committed when   *)
(* the transaction first read, a locking read sees and keeps the newest row.  *)
(***************************************************************************)
EXTENDS Naturals, FiniteSetsExt, SequencesExt

CONSTANTS Attachments,  \* identifiers of uploads, never used twice
          Slots,        \* requests that may be under way at once
          PageSize,     \* limit of list_messages
          MaxMessages   \* bound: messages of the conversation

ASSUME PageSizeAssumption == PageSize \in Nat \ {0}

VARIABLES status,    \* of the conversation's row
          messages,  \* the rows of messages, in the order of their insertion
          row,       \* of each attachment: "new", "pending", "free", "bound" or "gone"
          files,     \* the attachments that have a file on disk
          answered,  \* the attachments whose upload the client was told of
          request,   \* what each slot is doing
          reader     \* a client that reads page after page

vars == <<status, messages, row, files, answered, request, reader>>

Idle == [op |-> "idle"]

Init == /\ status = "draft"
        /\ messages = <<>>
        /\ row = [a \in Attachments |-> "new"]
        /\ files = {}
        /\ answered = {}
        /\ request = [s \in Slots |-> Idle]
        /\ reader = [pc |-> "start", got |-> <<>>, from |-> 0]

Numbers == {messages[i].seq_no : i \in DOMAIN messages}

Newest == Max(Numbers \cup {0})

(* lock_conversation_owned, kept until the new message is committed *)
(* Mutant: the conversation is read without a lock. *)
ConversationLocked_Never == FALSE

ConversationLocked == \E s \in Slots : request[s].op = "create"

(* the FOR UPDATE of a deletion *)
(* Mutant: an attachment is deleted without one. *)
RowLocked_Never(a) == FALSE

RowLocked(a) == \E s \in Slots : request[s].op = "remove" /\ request[s].attachment = a

Start(s, r) == /\ request[s] = Idle
               /\ request' = [request EXCEPT ![s] = r]
               /\ UNCHANGED reader

End(s, op) == /\ request[s].op = op
              /\ request' = [request EXCEPT ![s] = Idle]
              /\ UNCHANGED reader

Insert(number, attachments) ==
  messages' = Append(messages, [seq_no |-> number, attachments |-> attachments])

------------------------------------------------------------------------------
(* create_from_message: the conversation is locked before anything is read *)
BeginCreate(s, attachments) ==
  /\ Len(messages) < MaxMessages
  /\ ~ConversationLocked
  /\ status # "deleted"
  /\ \A a \in attachments : row[a] \in {"free", "bound"}
  /\ Start(s, [op |-> "create", attachments |-> attachments, newest |-> Newest])
  /\ UNCHANGED <<status, messages, row, files, answered>>

(* The rows of the attachments are updated when the session is flushed: the   *)
(* update waits for a deletion that holds one, and then finds no row.         *)
CommitCreate(s) ==
  /\ End(s, "create")
  /\ LET r == request[s] IN
     /\ \A a \in r.attachments : ~RowLocked(a)
     /\ \/ /\ r.newest < Newest \/ \E a \in r.attachments : row[a] = "gone"
           /\ UNCHANGED <<status, messages, row>>
        \/ /\ \A a \in r.attachments : row[a] # "gone"
           /\ r.newest = Newest
           /\ Insert(r.newest + 1, r.attachments)
           /\ row' = [a \in Attachments |-> IF a \in r.attachments THEN "bound" ELSE row[a]]
           /\ status' = "active"
  /\ UNCHANGED <<files, answered>>

(* The answer to a question and the result of a task: the transaction has     *)
(* read before it locks the conversation.                                     *)
BeginAdd(s) ==
  /\ Len(messages) < MaxMessages
  /\ Start(s, [op |-> "add", newest |-> Newest])
  /\ UNCHANGED <<status, messages, row, files, answered>>

(* Mutant: the result is stored in a conversation that has been deleted. *)
CommitAdd_Anyway(s) ==
  /\ End(s, "add")
  /\ ~ConversationLocked
  /\ IF request[s].newest < Newest
     THEN UNCHANGED messages
     ELSE Insert(request[s].newest + 1, {})
  /\ UNCHANGED <<status, row, files, answered>>

CommitAdd(s) ==
  /\ End(s, "add")
  /\ ~ConversationLocked
  /\ \/ /\ status = "deleted"
        /\ UNCHANGED messages
     \/ /\ request[s].newest < Newest      \* uq_messages_conversation_seq
        /\ UNCHANGED messages
     \/ /\ status # "deleted"
        /\ request[s].newest = Newest
        /\ Insert(Newest + 1, {})
  /\ UNCHANGED <<status, row, files, answered>>

------------------------------------------------------------------------------
(* update and delete_many: read, then written at the commit.  A column is     *)
(* written only if it differs from what was read.                             *)
BeginUpdate(s, target) ==
  /\ status # "deleted"
  /\ Start(s, [op |-> "update", read |-> status, target |-> target])
  /\ UNCHANGED <<status, messages, row, files, answered>>

CommitUpdate(s) ==
  /\ End(s, "update")
  /\ ~ConversationLocked
  /\ status' = IF request[s].target # request[s].read THEN request[s].target ELSE status
  /\ UNCHANGED <<messages, row, files, answered>>

------------------------------------------------------------------------------
(* AttachmentService.upload: the file first, then the row *)
BeginUpload(s, a) ==
  /\ status # "deleted"
  /\ row[a] = "new"
  /\ Start(s, [op |-> "upload", attachment |-> a])
  /\ row' = [row EXCEPT ![a] = "pending"]
  /\ files' = files \cup {a}
  /\ UNCHANGED <<status, messages, answered>>

EndUpload(s) ==
  /\ End(s, "upload")
  /\ LET a == request[s].attachment IN
     \/ /\ row' = [row EXCEPT ![a] = "free"]
        /\ answered' = answered \cup {a}
        /\ UNCHANGED files
     \/ /\ row' = [row EXCEPT ![a] = "gone"]     \* too large, empty, or not committed
        /\ files' = files \ {a}
        /\ UNCHANGED answered
     \/ /\ row' = [row EXCEPT ![a] = "free"]     \* committed, but the answer is lost
        /\ files' = files \ {a}
        /\ UNCHANGED answered
     \/ /\ row' = [row EXCEPT ![a] = "gone"]     \* the process ends before the commit
        /\ UNCHANGED <<files, answered>>
  /\ UNCHANGED <<status, messages>>

(* AttachmentService.delete *)
BeginRemove(s, a) ==
  /\ row[a] = "free"
  /\ ~RowLocked(a)
  /\ Start(s, [op |-> "remove", attachment |-> a])
  /\ UNCHANGED <<status, messages, row, files, answered>>

CommitRemove(s) ==
  /\ request[s].op = "remove"
  /\ request' = [request EXCEPT ![s].op = "unlink"]
  /\ row' = [row EXCEPT ![request[s].attachment] = "gone"]
  /\ UNCHANGED <<status, messages, files, answered, reader>>

(* or the file cannot be removed, or the process ends first *)
Unlink(s) ==
  /\ End(s, "unlink")
  /\ \/ files' = files \ {request[s].attachment}
     \/ UNCHANGED files
  /\ UNCHANGED <<status, messages, row, answered>>

------------------------------------------------------------------------------
(* list_messages: one row more than the page tells whether there are more.   *)
(* The rows come newest first, so the i-th follows i - 1 newer ones.          *)
Below(cursor, limit) ==
  LET older == {n \in Numbers : n < cursor}
      newer(n) == Cardinality({k \in older : k > n})
      newest == {n \in older : newer(n) < limit}
  IN  [i \in 1..Cardinality(newest) |-> CHOOSE n \in newest : newer(n) = i - 1]

(* Mutant: no row more than the page is read. *)
Page_Exact(cursor) ==
  LET rows == Below(cursor, PageSize)
  IN  [items |-> rows, has_more |-> Len(rows) > PageSize]

Page(cursor) ==
  LET rows == Below(cursor, PageSize + 1)
  IN  [items |-> SubSeq(rows, 1, IF Len(rows) > PageSize THEN PageSize ELSE Len(rows)),
       has_more |-> Len(rows) > PageSize]

ListMessages ==
  /\ status # "deleted"
  /\ reader.pc \in {"start", "more"}
  /\ LET cursor == IF reader.pc = "start" THEN Newest + 1 ELSE Last(reader.got)
         page == Page(cursor)
     IN  reader' = [pc |-> IF page.has_more THEN "more" ELSE "done",
                    got |-> reader.got \o page.items,
                    from |-> IF reader.pc = "start" THEN Newest ELSE reader.from]
  /\ UNCHANGED <<status, messages, row, files, answered, request>>

(* a client knows the attachments whose upload was answered *)
Next ==
  \/ \E s \in Slots :
       \/ \E attachments \in SUBSET answered : BeginCreate(s, attachments)
       \/ CommitCreate(s)
       \/ BeginAdd(s)
       \/ CommitAdd(s)
       \/ \E target \in {"active", "archived", "deleted"} : BeginUpdate(s, target)
       \/ CommitUpdate(s)
       \/ \E a \in Attachments : BeginUpload(s, a)
       \/ EndUpload(s)
       \/ \E a \in answered : BeginRemove(s, a)
       \/ CommitRemove(s)
       \/ Unlink(s)
  \/ ListMessages

Spec == Init /\ [][Next]_vars

------------------------------------------------------------------------------
(* Properties *)

(* An attachment a message refers to keeps its row and its file, whatever     *)
(* deletions were under way when the message was committed                    *)
(* (attachment_service.py:137-165, task_service.py:95-160).                   *)
BoundAttachmentsKept == \A i \in DOMAIN messages : \A a \in messages[i].attachments :
  row[a] = "bound" /\ a \in files

(* A new message of the user is never refused because its number was taken    *)
(* since it was read (task_service.py:53-57, 113).  The answer to a question  *)
(* and the result of a task have no such promise: they read before they lock. *)
NewNumberIsFree == \A s \in Slots :
  request[s].op = "create" => request[s].newest = Newest

(* A conversation gets no message while it is deleted                         *)
(* (task_repository.py:18-32).                                                *)
NothingInDeleted == [][status = "deleted" => messages' = messages]_vars

(* A reader who goes back page by page sees every message there was when he   *)
(* began, once and in order, whatever is added in the meantime                *)
(* (conversation_service.py:114-180).                                         *)
PagesComplete ==
  /\ reader.got = [i \in 1..Len(reader.got) |-> reader.from - i + 1]
  /\ reader.pc = "done" => Len(reader.got) = reader.from

===============================================================================
