-------------------------- MODULE ConversationsProofs --------------------------
(***************************************************************************)
(* The messages of a conversation and the attachments they refer to          *)
(* (Conversations), for any number of requests, attachments and messages.    *)
(*                                                                           *)
(* IndInv has the reasons: messages are numbered without a gap; one request  *)
(* at a time holds the conversation, which does not change under it; and the *)
(* row of an attachment is bound only while no deletion holds it.            *)
(***************************************************************************)
EXTENDS Conversations, FiniteSetTheorems, TLAPS

Message == [seq_no : Nat, attachments : SUBSET Attachments]

Rows == {"new", "pending", "free", "bound", "gone"}

Types == /\ messages \in Seq(Message)
         /\ row \in [Attachments -> Rows]
         /\ answered \subseteq Attachments
         /\ files \subseteq Attachments
         /\ request = [s \in Slots |-> request[s]]

Consecutive == \A i \in 1..Len(messages) : messages[i].seq_no = i

(* what holds while a message of the user is being added *)
CreateInv ==
  /\ \A s \in Slots : request[s].op = "create" =>
       /\ request[s].attachments \subseteq answered
       /\ request[s].newest = Len(messages)
       /\ status # "deleted"
  /\ \A s, t \in Slots : request[s].op = "create" /\ request[t].op = "create" => s = t

(* an upload, a deletion and the removal of a file have the attachment to themselves *)
Holds == {"upload", "remove", "unlink"}

Held == [op : Holds, attachment : Attachments]

HoldInv ==
  /\ \A s \in Slots : request[s].op \in Holds =>
       /\ request[s] \in Held
       /\ request[s].attachment \in Attachments
       /\ request[s].op = "upload" => /\ row[request[s].attachment] = "pending"
                                      /\ request[s].attachment \in files
       /\ request[s].op = "remove" => row[request[s].attachment] = "free"
       /\ request[s].op = "unlink" => row[request[s].attachment] = "gone"
  /\ \A s, t \in Slots : request[s].op \in Holds /\ request[t].op \in Holds
                           /\ request[s].attachment = request[t].attachment => s = t

AttachmentInv ==
  /\ \A a \in answered : /\ row[a] \in {"free", "bound", "gone"}
                         /\ row[a] \in {"free", "bound"} => a \in files
  /\ \A a \in Attachments : row[a] = "bound" => a \in answered
  /\ \A i \in 1..Len(messages) : \A a \in messages[i].attachments : row[a] = "bound"

IndInv == Types /\ Consecutive /\ CreateInv /\ HoldInv /\ AttachmentInv

------------------------------------------------------------------------------
(* The newest number is the number of messages. *)
LEMMA NewestIsLen ==
  ASSUME Types, Consecutive
  PROVE  Newest = Len(messages)
<1> DEFINE n == Len(messages)
           S == Numbers \cup {0}
<1>1. n \in Nat /\ DOMAIN messages = 1..n
  BY DEF Types
<1>2. S = 0..n
  <2>1. Numbers = {messages[i].seq_no : i \in 1..n}
    BY <1>1 DEF Numbers
  <2>2. \A i \in 1..n : messages[i].seq_no = i
    BY DEF Consecutive
  <2>3. Numbers = 1..n
    BY <2>1, <2>2
  <2> QED
    BY <1>1, <2>3
<1> HIDE DEF n, S
<1>3. n \in S /\ \A y \in S : n >= y
  BY <1>1, <1>2
<1>4. \A x \in S : (\A y \in S : x >= y) => x = n
  BY <1>1, <1>2, <1>3
<1>5. Max(S) \in S /\ \A y \in S : Max(S) >= y
  BY <1>3 DEF Max
<1> QED
  BY <1>4, <1>5 DEF Newest, S, n

LEMMA IndInvInit == Init => IndInv
<1> SUFFICES ASSUME Init PROVE IndInv
  OBVIOUS
<1> USE DEF Init
<1>1. Types
  BY DEF Types, Rows, Idle
<1>2. Consecutive
  BY DEF Consecutive
<1>3. CreateInv /\ HoldInv
  BY DEF CreateInv, HoldInv, Holds, Idle
<1>4. AttachmentInv
  BY DEF AttachmentInv
<1> QED
  BY <1>1, <1>2, <1>3, <1>4 DEF IndInv

(* What a slot's own step does to the requests. *)
LEMMA Others ==
  ASSUME Types, NEW s \in Slots, NEW r, request' = [request EXCEPT ![s] = r]
  PROVE  /\ request'[s] = r
         /\ \A t \in Slots \ {s} : request'[t] = request[t]
         /\ request' = [t \in Slots |-> request'[t]]
<1>1. DOMAIN request = Slots
  BY DEF Types
<1> QED
  BY <1>1

(* A request that ends, or one that neither adds a message of the user nor    *)
(* holds a row, leaves the invariant to the other variables.                   *)
LEMMA QuietRequest ==
  ASSUME IndInv, NEW s \in Slots, NEW r, r.op \notin {"create", "upload", "remove", "unlink"},
         request' = [request EXCEPT ![s] = r],
         UNCHANGED <<messages, row, files, answered>>,
         status' = status \/ ~ConversationLocked
  PROVE  IndInv'
<1>1. /\ request'[s] = r
      /\ \A t \in Slots \ {s} : request'[t] = request[t]
      /\ request' = [t \in Slots |-> request'[t]]
  BY Others DEF IndInv
<1>2. Types' /\ Consecutive' /\ AttachmentInv'
  BY <1>1 DEF IndInv, Types, Consecutive, AttachmentInv
<1>3. CreateInv'
  BY <1>1 DEF IndInv, CreateInv, ConversationLocked
<1>4. HoldInv'
  BY <1>1 DEF IndInv, HoldInv, Holds
<1> QED
  BY <1>2, <1>3, <1>4 DEF IndInv

LEMMA BeginCreateStep ==
  ASSUME IndInv, NEW s \in Slots, NEW attachments \in SUBSET answered,
         BeginCreate(s, attachments)
  PROVE  IndInv'
<1> DEFINE r == [op |-> "create", attachments |-> attachments, newest |-> Newest]
<1>1. /\ ~ConversationLocked
      /\ status # "deleted"
      /\ request' = [request EXCEPT ![s] = r]
      /\ UNCHANGED <<status, messages, row, files, answered>>
  BY DEF BeginCreate, Start
<1>2. /\ request'[s] = r
      /\ \A t \in Slots \ {s} : request'[t] = request[t]
      /\ request' = [t \in Slots |-> request'[t]]
  BY <1>1, Others DEF IndInv
<1>3. r.newest = Len(messages)
  BY NewestIsLen DEF IndInv
<1>4. Types' /\ Consecutive' /\ AttachmentInv'
  BY <1>1, <1>2 DEF IndInv, Types, Consecutive, AttachmentInv
<1>5. CreateInv'
  BY <1>1, <1>2, <1>3 DEF IndInv, CreateInv, ConversationLocked
<1>6. HoldInv'
  BY <1>1, <1>2 DEF IndInv, HoldInv, Holds
<1> QED
  BY <1>4, <1>5, <1>6 DEF IndInv

(* One more message. *)
LEMMA Inserted ==
  ASSUME Types, Consecutive, NEW attachments \in SUBSET Attachments,
         Insert(Newest + 1, attachments)
  PROVE  /\ messages' \in Seq(Message)
         /\ Consecutive'
         /\ \A i \in 1..Len(messages') :
              \/ i \in 1..Len(messages) /\ messages'[i] = messages[i]
              \/ messages'[i].attachments = attachments
<1> DEFINE m == [seq_no |-> Newest + 1, attachments |-> attachments]
           n == Len(messages)
<1>1. messages' = Append(messages, m)
  BY DEF Insert
<1>2. Newest = n /\ n \in Nat
  BY NewestIsLen DEF Types
<1>3. m \in Message /\ m.seq_no = n + 1 /\ m.attachments = attachments
  BY <1>2 DEF Message
<1> HIDE DEF m
<1>4. /\ messages' \in Seq(Message)
      /\ Len(messages') = n + 1
      /\ messages'[n + 1] = m
      /\ \A i \in 1..n : messages'[i] = messages[i]
  BY <1>1, <1>3 DEF Types
<1>5. \A i \in 1..Len(messages') : i \in 1..n \/ i = n + 1
  BY <1>2, <1>4
<1>6. \A i \in 1..n : messages[i].seq_no = i
  BY DEF Consecutive
<1>7. ASSUME NEW i \in 1..Len(messages') PROVE messages'[i].seq_no = i
  BY <1>3, <1>4, <1>5, <1>6
<1>8. Consecutive'
  BY <1>7 DEF Consecutive
<1> QED
  BY <1>3, <1>4, <1>5, <1>8

LEMMA MessageAttachments ==
  ASSUME Types
  PROVE  \A i \in 1..Len(messages) : messages[i].attachments \subseteq Attachments
<1>1. \A i \in 1..Len(messages) : messages[i] \in Message
  BY DEF Types
<1> QED
  BY <1>1 DEF Message

LEMMA CommitCreateStep ==
  ASSUME IndInv, NEW s \in Slots, CommitCreate(s)
  PROVE  IndInv'
<1> DEFINE r == request[s]
<1>1. /\ r.op = "create"
      /\ request' = [request EXCEPT ![s] = Idle]
      /\ \A a \in r.attachments : ~RowLocked(a)
      /\ UNCHANGED <<files, answered>>
  BY DEF CommitCreate, End
<1>2. /\ request'[s] = Idle
      /\ \A t \in Slots \ {s} : request'[t] = request[t]
      /\ request' = [t \in Slots |-> request'[t]]
  BY <1>1, Others DEF IndInv
<1>3. Idle.op = "idle"
  BY DEF Idle
<1>4. \A t \in Slots : request'[t].op # "create"
  BY <1>1, <1>2, <1>3 DEF IndInv, CreateInv
<1>5. CreateInv'
  BY <1>4 DEF CreateInv
<1>6. CASE UNCHANGED <<status, messages, row>>
  BY <1>1, <1>3, <1>6, QuietRequest
<1>7. CASE /\ \A a \in r.attachments : row[a] # "gone"
           /\ r.newest = Newest
           /\ Insert(r.newest + 1, r.attachments)
           /\ row' = [a \in Attachments |-> IF a \in r.attachments THEN "bound" ELSE row[a]]
  <2>1. r.attachments \subseteq answered /\ r.attachments \in SUBSET Attachments
    BY <1>1 DEF IndInv, CreateInv, Types
  <2>2. /\ messages' \in Seq(Message)
        /\ Consecutive'
        /\ \A i \in 1..Len(messages') :
             \/ i \in 1..Len(messages) /\ messages'[i] = messages[i]
             \/ messages'[i].attachments = r.attachments
    BY <1>7, <2>1, Inserted DEF IndInv
  <2>3. Types'
    BY <1>1, <1>2, <1>7, <2>2 DEF IndInv, Types, Rows
  <2>4. \A a \in Attachments : row'[a] = IF a \in r.attachments THEN "bound" ELSE row[a]
    BY <1>7
  <2>5. HoldInv'
    <3>1. \A t \in Slots : request'[t].op \in Holds => request[t] = request'[t]
      BY <1>2, <1>3 DEF Holds
    <3>2. \A t \in Slots : request[t].op = "remove" => request[t].attachment \notin r.attachments
      BY <1>1 DEF RowLocked
    <3>3. \A a \in r.attachments : row[a] \in {"free", "bound"}
      BY <1>7, <2>1 DEF IndInv, AttachmentInv
    <3>4. \A t \in Slots : request[t].op \in Holds => request[t].attachment \notin r.attachments
      BY <3>2, <3>3 DEF IndInv, HoldInv, Holds
    <3> QED
      BY <1>1, <2>4, <3>1, <3>4 DEF IndInv, HoldInv
  <2>6. AttachmentInv'
    <3>1. \A a \in answered : /\ row'[a] \in {"free", "bound", "gone"}
                              /\ row'[a] \in {"free", "bound"} => a \in files
      BY <1>7, <2>1, <2>4 DEF IndInv, AttachmentInv, Types
    <3>2. \A a \in Attachments : row'[a] = "bound" => a \in answered
      BY <2>1, <2>4 DEF IndInv, AttachmentInv
    <3>3. \A i \in 1..Len(messages) : messages[i].attachments \subseteq Attachments
      BY MessageAttachments DEF IndInv
    <3>4. ASSUME NEW i \in 1..Len(messages'), NEW a \in messages'[i].attachments
          PROVE  row'[a] = "bound"
      <4>1. CASE i \in 1..Len(messages) /\ messages'[i] = messages[i]
        BY <2>4, <3>3, <3>4, <4>1 DEF IndInv, AttachmentInv
      <4>2. CASE messages'[i].attachments = r.attachments
        BY <2>1, <2>4, <3>4, <4>2
      <4> QED
        BY <2>2, <4>1, <4>2
    <3> QED
      BY <1>1, <3>1, <3>2, <3>4 DEF AttachmentInv
  <2> QED
    BY <1>5, <2>2, <2>3, <2>5, <2>6 DEF IndInv
<1> QED
  BY <1>6, <1>7 DEF CommitCreate

LEMMA CommitAddStep ==
  ASSUME IndInv, NEW s \in Slots, CommitAdd(s)
  PROVE  IndInv'
<1>1. /\ request[s].op = "add"
      /\ ~ConversationLocked
      /\ request' = [request EXCEPT ![s] = Idle]
      /\ UNCHANGED <<status, row, files, answered>>
  BY DEF CommitAdd, End
<1>2. /\ request'[s] = Idle
      /\ \A t \in Slots \ {s} : request'[t] = request[t]
      /\ request' = [t \in Slots |-> request'[t]]
  BY <1>1, Others DEF IndInv
<1>3. Idle.op = "idle"
  BY DEF Idle
<1>4. CASE UNCHANGED messages
  BY <1>1, <1>3, <1>4, QuietRequest
<1>5. CASE Insert(Newest + 1, {})
  <2>1. /\ messages' \in Seq(Message)
        /\ Consecutive'
        /\ \A i \in 1..Len(messages') :
             \/ i \in 1..Len(messages) /\ messages'[i] = messages[i]
             \/ messages'[i].attachments = {}
    BY <1>5, Inserted DEF IndInv
  <2>2. Types'
    BY <1>1, <1>2, <2>1 DEF IndInv, Types
  <2>3. CreateInv'
    BY <1>1, <1>2, <1>3 DEF CreateInv, ConversationLocked
  <2>4. HoldInv'
    BY <1>1, <1>2, <1>3 DEF IndInv, HoldInv, Holds
  <2>5. AttachmentInv'
    BY <1>1, <2>1 DEF IndInv, AttachmentInv
  <2> QED
    BY <2>1, <2>2, <2>3, <2>4, <2>5 DEF IndInv
<1> QED
  BY <1>4, <1>5 DEF CommitAdd

(* A file is written before its row, and removed when the row is not kept.    *)
LEMMA UploadStep ==
  ASSUME IndInv, NEW s \in Slots,
         (\E a \in Attachments : BeginUpload(s, a)) \/ EndUpload(s)
  PROVE  IndInv'
<1>1. CASE \E a \in Attachments : BeginUpload(s, a)
  <2>1. PICK a \in Attachments : BeginUpload(s, a)
    BY <1>1
  <2> DEFINE r == [op |-> "upload", attachment |-> a]
  <2>2. /\ row[a] = "new"
        /\ request' = [request EXCEPT ![s] = r]
        /\ row' = [row EXCEPT ![a] = "pending"]
        /\ files' = files \cup {a}
        /\ UNCHANGED <<status, messages, answered>>
    BY <2>1 DEF BeginUpload, Start
  <2>3. /\ request'[s] = r
        /\ \A t \in Slots \ {s} : request'[t] = request[t]
        /\ request' = [t \in Slots |-> request'[t]]
    BY <2>2, Others DEF IndInv
  <2>4. row'[a] = "pending" /\ \A b \in Attachments \ {a} : row'[b] = row[b]
    BY <2>2 DEF IndInv, Types
  <2>5. a \notin answered
    BY <2>2 DEF IndInv, AttachmentInv
  <2>6. \A t \in Slots : request[t].op \in Holds => request[t].attachment # a
    BY <2>2 DEF IndInv, HoldInv, Holds
  <2>7. Types' /\ Consecutive'
    BY <2>2, <2>3 DEF IndInv, Types, Rows, Consecutive
  <2>8. CreateInv'
    BY <2>2, <2>3 DEF IndInv, CreateInv
  <2>9. HoldInv'
    BY <2>2, <2>3, <2>4, <2>6 DEF IndInv, HoldInv, Holds, Held
  <2>10. AttachmentInv'
    BY <2>2, <2>4, <2>5, MessageAttachments DEF IndInv, AttachmentInv, Types
  <2> QED
    BY <2>7, <2>8, <2>9, <2>10 DEF IndInv
<1>2. CASE EndUpload(s)
  <2> DEFINE a == request[s].attachment
  <2>1. /\ request[s].op = "upload"
        /\ request' = [request EXCEPT ![s] = Idle]
        /\ UNCHANGED <<status, messages>>
    BY <1>2 DEF EndUpload, End
  <2>2. a \in Attachments /\ row[a] = "pending" /\ a \in files
    BY <2>1 DEF IndInv, HoldInv, Holds
  <2>3. /\ request'[s] = Idle
        /\ Idle.op = "idle"
        /\ \A t \in Slots \ {s} : request'[t] = request[t]
        /\ request' = [t \in Slots |-> request'[t]]
    BY <2>1, Others DEF IndInv, Idle
  <2>4. /\ \/ row' = [row EXCEPT ![a] = "free"]
           \/ row' = [row EXCEPT ![a] = "gone"]
        /\ files \ {a} \subseteq files' /\ files' \subseteq files
        /\ \/ answered' = answered
           \/ answered' = answered \cup {a} /\ row' = [row EXCEPT ![a] = "free"] /\ files' = files
    BY <1>2 DEF EndUpload
  <2> HIDE DEF a
  <2>5. row'[a] \in {"free", "gone"} /\ \A b \in Attachments \ {a} : row'[b] = row[b]
    BY <2>2, <2>4 DEF IndInv, Types
  <2>6. a \notin answered
    BY <2>2 DEF IndInv, AttachmentInv
  <2>7. \A t \in Slots \ {s} : request[t].op \in Holds => request[t].attachment # a
    BY <2>1 DEF IndInv, HoldInv, Holds, a
  <2>8. Types' /\ Consecutive'
    BY <2>1, <2>2, <2>3, <2>4 DEF IndInv, Types, Rows, Consecutive
  <2>9. CreateInv'
    BY <2>1, <2>3, <2>4 DEF IndInv, CreateInv
  <2>10. HoldInv'
    BY <2>3, <2>4, <2>5, <2>7 DEF IndInv, HoldInv, Holds
  <2>11. AttachmentInv'
    BY <2>1, <2>2, <2>4, <2>5, <2>6, MessageAttachments
       DEF IndInv, AttachmentInv, Types
  <2> QED
    BY <2>8, <2>9, <2>10, <2>11 DEF IndInv
<1> QED
  BY <1>1, <1>2

(* A deletion keeps the row locked until it is gone, and the file outlives it. *)
LEMMA RemoveStep ==
  ASSUME IndInv, NEW s \in Slots,
         (\E a \in answered : BeginRemove(s, a)) \/ CommitRemove(s) \/ Unlink(s)
  PROVE  IndInv'
<1>1. CASE \E a \in answered : BeginRemove(s, a)
  <2>1. PICK a \in answered : BeginRemove(s, a)
    BY <1>1
  <2> DEFINE r == [op |-> "remove", attachment |-> a]
  <2>2. /\ row[a] = "free"
        /\ ~RowLocked(a)
        /\ request' = [request EXCEPT ![s] = r]
        /\ UNCHANGED <<status, messages, row, files, answered>>
    BY <2>1 DEF BeginRemove, Start
  <2>3. /\ request'[s] = r
        /\ \A t \in Slots \ {s} : request'[t] = request[t]
        /\ request' = [t \in Slots |-> request'[t]]
    BY <2>2, Others DEF IndInv
  <2>4. a \in Attachments
    BY DEF IndInv, Types
  <2>5. \A t \in Slots : request[t].op \in Holds => request[t].attachment # a
    BY <2>2 DEF IndInv, HoldInv, Holds, RowLocked
  <2>6. Types' /\ Consecutive' /\ AttachmentInv'
    BY <2>2, <2>3 DEF IndInv, Types, Consecutive, AttachmentInv
  <2>7. CreateInv'
    BY <2>2, <2>3 DEF IndInv, CreateInv
  <2>8. HoldInv'
    BY <2>2, <2>3, <2>4, <2>5 DEF IndInv, HoldInv, Holds, Held
  <2> QED
    BY <2>6, <2>7, <2>8 DEF IndInv
<1>2. CASE CommitRemove(s)
  <2> DEFINE a == request[s].attachment
  <2>1. /\ request[s].op = "remove"
        /\ request' = [request EXCEPT ![s].op = "unlink"]
        /\ row' = [row EXCEPT ![a] = "gone"]
        /\ UNCHANGED <<status, messages, files, answered>>
    BY <1>2 DEF CommitRemove
  <2>2. a \in Attachments /\ row[a] = "free"
    BY <2>1 DEF IndInv, HoldInv, Holds
  <2>3. /\ request'[s].op = "unlink"
        /\ request'[s].attachment = a
        /\ request'[s] \in Held
        /\ \A t \in Slots \ {s} : request'[t] = request[t]
        /\ request' = [t \in Slots |-> request'[t]]
    <3> DEFINE r == [request[s] EXCEPT !.op = "unlink"]
    <3>1. request' = [request EXCEPT ![s] = r]
      BY <2>1
    <3>2. request[s] \in Held
      BY <2>1 DEF IndInv, HoldInv, Holds
    <3>3. r.attachment = a /\ r.op = "unlink" /\ r \in Held
      BY <3>2 DEF Held, Holds
    <3> HIDE DEF r
    <3> QED
      BY <3>1, <3>3, Others DEF IndInv
  <2> HIDE DEF a
  <2>4. row'[a] = "gone" /\ \A b \in Attachments \ {a} : row'[b] = row[b]
    BY <2>1, <2>2 DEF IndInv, Types
  <2>5. \A t \in Slots \ {s} : request[t].op \in Holds => request[t].attachment # a
    BY <2>1 DEF IndInv, HoldInv, Holds, a
  <2>6. Types' /\ Consecutive'
    BY <2>1, <2>2, <2>3 DEF IndInv, Types, Rows, Consecutive
  <2>7. CreateInv'
    BY <2>1, <2>3 DEF IndInv, CreateInv
  <2>8. HoldInv'
    BY <2>1, <2>2, <2>3, <2>4, <2>5 DEF IndInv, HoldInv, Holds, a
  <2>9. AttachmentInv'
    BY <2>1, <2>2, <2>4, MessageAttachments DEF IndInv, AttachmentInv, Types
  <2> QED
    BY <2>6, <2>7, <2>8, <2>9 DEF IndInv
<1>3. CASE Unlink(s)
  <2> DEFINE a == request[s].attachment
  <2>1. /\ request[s].op = "unlink"
        /\ request' = [request EXCEPT ![s] = Idle]
        /\ files \ {a} \subseteq files' /\ files' \subseteq files
        /\ UNCHANGED <<status, messages, row, answered>>
    BY <1>3 DEF Unlink, End
  <2>2. a \in Attachments /\ row[a] = "gone"
    BY <2>1 DEF IndInv, HoldInv, Holds
  <2>3. /\ request'[s] = Idle
        /\ Idle.op = "idle"
        /\ \A t \in Slots \ {s} : request'[t] = request[t]
        /\ request' = [t \in Slots |-> request'[t]]
    BY <2>1, Others DEF IndInv, Idle
  <2>4. \A t \in Slots \ {s} : request[t].op \in Holds => request[t].attachment # a
    BY <2>1 DEF IndInv, HoldInv, Holds
  <2> HIDE DEF a
  <2>5. Types' /\ Consecutive'
    BY <2>1, <2>3 DEF IndInv, Types, Consecutive
  <2>6. CreateInv'
    BY <2>1, <2>3 DEF IndInv, CreateInv
  <2>7. HoldInv'
    BY <2>1, <2>3, <2>4 DEF IndInv, HoldInv, Holds
  <2>8. AttachmentInv'
    BY <2>1, <2>2 DEF IndInv, AttachmentInv
  <2> QED
    BY <2>5, <2>6, <2>7, <2>8 DEF IndInv
<1> QED
  BY <1>1, <1>2, <1>3

------------------------------------------------------------------------------
LEMMA IndInvStep == IndInv /\ [Next]_vars => IndInv'
<1> SUFFICES ASSUME IndInv, [Next]_vars PROVE IndInv'
  OBVIOUS
<1>1. ASSUME NEW s \in Slots, BeginAdd(s)
      PROVE  IndInv'
  <2> DEFINE r == [op |-> "add", newest |-> Newest]
  <2>1. /\ request' = [request EXCEPT ![s] = r]
        /\ UNCHANGED <<status, messages, row, files, answered>>
    BY <1>1 DEF BeginAdd, Start
  <2> QED
    BY <2>1, QuietRequest
<1>2. ASSUME NEW s \in Slots, NEW target, BeginUpdate(s, target)
      PROVE  IndInv'
  <2> DEFINE r == [op |-> "update", read |-> status, target |-> target]
  <2>1. /\ request' = [request EXCEPT ![s] = r]
        /\ UNCHANGED <<status, messages, row, files, answered>>
    BY <1>2 DEF BeginUpdate, Start
  <2> QED
    BY <2>1, QuietRequest
<1>3. ASSUME NEW s \in Slots, CommitUpdate(s)
      PROVE  IndInv'
  <2>1. /\ request' = [request EXCEPT ![s] = Idle]
        /\ ~ConversationLocked
        /\ UNCHANGED <<messages, row, files, answered>>
    BY <1>3 DEF CommitUpdate, End
  <2>2. Idle.op = "idle"
    BY DEF Idle
  <2> QED
    BY <2>1, <2>2, QuietRequest
<1>4. CASE ListMessages
  BY <1>4 DEF ListMessages, IndInv, Types, Consecutive, CreateInv, HoldInv, AttachmentInv
<1>5. CASE UNCHANGED vars
  BY <1>5 DEF vars, IndInv, Types, Consecutive, CreateInv, HoldInv, AttachmentInv
<1>6. ASSUME NEW s \in Slots,
             \/ \E attachments \in SUBSET answered : BeginCreate(s, attachments)
             \/ CommitCreate(s)
             \/ CommitAdd(s)
             \/ \E a \in Attachments : BeginUpload(s, a)
             \/ EndUpload(s)
             \/ \E a \in answered : BeginRemove(s, a)
             \/ CommitRemove(s)
             \/ Unlink(s)
      PROVE  IndInv'
  BY <1>6, BeginCreateStep, CommitCreateStep, CommitAddStep, UploadStep, RemoveStep
<1> QED
  BY <1>1, <1>2, <1>3, <1>4, <1>5, <1>6 DEF Next

THEOREM ConversationIndInv == Spec => []IndInv
<1> QED
  BY IndInvInit, IndInvStep, PTL DEF Spec

(* An attachment a message refers to keeps its row and its file, whatever     *)
(* uploads and deletions are under way                                        *)
(* (attachment_service.py:137-165, task_service.py:95-160).                   *)
THEOREM AttachmentsAreKept == Spec => []BoundAttachmentsKept
<1>1. IndInv => BoundAttachmentsKept
  <2> SUFFICES ASSUME IndInv, NEW i \in DOMAIN messages, NEW a \in messages[i].attachments
               PROVE  row[a] = "bound" /\ a \in files
    BY DEF BoundAttachmentsKept
  <2>1. i \in 1..Len(messages)
    BY DEF IndInv, Types
  <2>2. a \in Attachments /\ row[a] = "bound"
    BY <2>1, MessageAttachments DEF IndInv, AttachmentInv
  <2> QED
    BY <2>2 DEF IndInv, AttachmentInv
<1> QED
  BY <1>1, ConversationIndInv, PTL

(* The number a message of the user is given is still the next one when the   *)
(* message is committed (task_service.py:53-57, 113).                          *)
THEOREM NumberIsFree == Spec => []NewNumberIsFree
<1>1. IndInv => NewNumberIsFree
  BY NewestIsLen DEF IndInv, CreateInv, NewNumberIsFree
<1> QED
  BY <1>1, ConversationIndInv, PTL

(* A conversation gets no message while it is deleted, although the request   *)
(* that adds it read the conversation before (task_repository.py:18-32).      *)
THEOREM DeletedIsClosed == Spec => NothingInDeleted
<1>1. IndInv /\ [Next]_vars => (status = "deleted" => messages' = messages)
  <2> SUFFICES ASSUME IndInv, [Next]_vars, status = "deleted"
               PROVE  messages' = messages
    OBVIOUS
  <2>1. ASSUME NEW s \in Slots PROVE ~CommitCreate(s)
    BY DEF CommitCreate, End, IndInv, CreateInv
  <2>2. ASSUME NEW s \in Slots, CommitAdd(s) PROVE messages' = messages
    BY <2>2 DEF CommitAdd
  <2> QED
    BY <2>1, <2>2 DEF Next, vars, BeginCreate, BeginAdd, BeginUpdate, CommitUpdate, BeginUpload,
       EndUpload, BeginRemove, CommitRemove, Unlink, ListMessages
<1> QED
  BY <1>1, ConversationIndInv, PTL DEF Spec, NothingInDeleted

------------------------------------------------------------------------------
(* The reader.  What it has seen is the stretch of the numbers from the newest  *)
(* of its first page down to its cursor; a page takes the next of them.          *)

ReaderInv ==
  LET got == reader.got
      from == reader.from
  IN  /\ reader.pc \in {"start", "more", "done"}
      /\ from \in Nat /\ from <= Len(messages)
      /\ got \in Seq(Nat)
      /\ \A i \in 1..Len(got) : got[i] = from - i + 1
      /\ reader.pc = "start" => got = <<>>
      /\ reader.pc = "more" => Len(got) \in 1..(from - 1)
      /\ reader.pc = "done" => Len(got) = from

Smaller(m, n) == IF m < n THEN m ELSE n

(* The messages before a cursor, newest first and no more than the limit.      *)
LEMMA RowsBelow ==
  ASSUME Types, Consecutive, NEW m \in Nat, m <= Len(messages), NEW limit \in Nat
  PROVE  Below(m + 1, limit) = [i \in 1..Smaller(m, limit) |-> m + 1 - i]
<1> DEFINE older == {n \in Numbers : n < m + 1}
           newer(n) == Cardinality({k \in older : k > n})
           newest == {n \in older : newer(n) < limit}
           first == m + 1 - Smaller(m, limit)
<1>1. older = 1..m
  <2>1. DOMAIN messages = 1..Len(messages) /\ Len(messages) \in Nat
    BY DEF Types
  <2>2. \A i \in 1..Len(messages) : messages[i].seq_no = i
    BY DEF Consecutive
  <2>3. Numbers = 1..Len(messages)
    BY <2>1, <2>2 DEF Numbers
  <2> QED
    BY <2>1, <2>3
<1> HIDE DEF older
<1>2. \A n \in 1..m : newer(n) = m - n
  <2> SUFFICES ASSUME NEW n \in 1..m PROVE newer(n) = m - n
    OBVIOUS
  <2>1. {k \in older : k > n} = (n + 1)..m
    BY <1>1
  <2>2. Cardinality((n + 1)..m) = m - n
    BY FS_Interval
  <2> QED
    BY <2>1, <2>2
<1> HIDE DEF newer
<1>3. newest = first..m
  <2>1. newest = {n \in 1..m : m - n < limit}
    BY <1>1, <1>2
  <2>2. first \in 1..(m + 1) /\ \A n \in 1..m : m - n < limit <=> n >= first
    BY DEF Smaller
  <2> HIDE DEF newest, first
  <2>3. first..m = {n \in 1..m : n >= first}
    BY <2>2
  <2>4. {n \in 1..m : m - n < limit} = {n \in 1..m : n >= first}
    BY <2>2
  <2> QED
    BY <2>1, <2>3, <2>4
<1>4. first \in Int /\ Cardinality(first..m) = Smaller(m, limit)
  <2>1. Smaller(m, limit) \in Nat /\ Smaller(m, limit) <= m
    BY DEF Smaller
  <2>2. \A k \in Nat : k <= m => Cardinality((m + 1 - k)..m) = k
    BY FS_Interval
  <2> QED
    BY <2>1, <2>2
<1> HIDE DEF newest
<1>5. ASSUME NEW i \in 1..Smaller(m, limit)
      PROVE  (CHOOSE n \in newest : newer(n) = i - 1) = m + 1 - i
  <2>1. m + 1 - i \in newest /\ newer(m + 1 - i) = i - 1
    BY <1>2, <1>3, <1>5 DEF Smaller
  <2>2. \A n \in newest : newer(n) = i - 1 => n = m + 1 - i
    BY <1>2, <1>3, <1>5 DEF Smaller
  <2> QED
    BY <2>1, <2>2
<1>6. Below(m + 1, limit)
        = [i \in 1..Cardinality(newest) |-> CHOOSE n \in newest : newer(n) = i - 1]
  BY DEF Below, older, newer, newest
<1> QED
  BY <1>3, <1>4, <1>5, <1>6

LEMMA PageBelow ==
  ASSUME Types, Consecutive, NEW m \in Nat, m <= Len(messages)
  PROVE  LET page == Page(m + 1)
         IN  /\ page.items \in Seq(Nat)
             /\ Len(page.items) = Smaller(m, PageSize)
             /\ \A j \in 1..Len(page.items) : page.items[j] = m + 1 - j
             /\ page.has_more <=> m > PageSize
<1> DEFINE n == Smaller(m, PageSize + 1)
           rows == [i \in 1..n |-> m + 1 - i]
<1>1. Below(m + 1, PageSize + 1) = rows /\ n \in Nat
  BY RowsBelow, PageSizeAssumption DEF Smaller
<1>2. rows \in Seq(Nat) /\ Len(rows) = n /\ \A i \in 1..n : rows[i] = m + 1 - i
  BY <1>1 DEF Smaller
<1>3. n > PageSize <=> m > PageSize
  BY PageSizeAssumption DEF Smaller
<1>4. (IF n > PageSize THEN PageSize ELSE n) = Smaller(m, PageSize)
  BY PageSizeAssumption DEF Smaller
<1> HIDE DEF rows, n
<1>5. /\ Page(m + 1).items = SubSeq(rows, 1, Smaller(m, PageSize))
      /\ Page(m + 1).has_more <=> n > PageSize
  <2> DEFINE more == n > PageSize
  <2>1. Page(m + 1) = [items |-> SubSeq(rows, 1, Smaller(m, PageSize)), has_more |-> more]
    BY <1>1, <1>2, <1>4 DEF Page
  <2> HIDE DEF more
  <2>2. Page(m + 1).items = SubSeq(rows, 1, Smaller(m, PageSize)) /\ Page(m + 1).has_more = more
    BY <2>1
  <2> QED
    BY <2>2 DEF more
<1>6. Smaller(m, PageSize) \in 0..n
  BY <1>1, PageSizeAssumption DEF Smaller, n
<1>7. /\ SubSeq(rows, 1, Smaller(m, PageSize)) \in Seq(Nat)
      /\ Len(SubSeq(rows, 1, Smaller(m, PageSize))) = Smaller(m, PageSize)
      /\ \A j \in 1..Smaller(m, PageSize) : SubSeq(rows, 1, Smaller(m, PageSize))[j] = rows[j]
  BY <1>1, <1>2, <1>6
<1>8. \A j \in 1..Smaller(m, PageSize) : j \in 1..n
  BY <1>1, <1>6
<1> QED
  BY <1>2, <1>3, <1>5, <1>7, <1>8

LEMMA MessagesGrow ==
  ASSUME IndInv, [Next]_vars
  PROVE  Len(messages') \in Nat /\ Len(messages') >= Len(messages)
<1>1. messages \in Seq(Message)
  BY DEF IndInv, Types
<1>2. ASSUME NEW n, NEW A, Insert(n, A)
      PROVE  Len(messages') = Len(messages) + 1
  BY <1>1, <1>2 DEF Insert
<1>3. UNCHANGED messages \/ \E n, A : Insert(n, A)
  BY DEF Next, vars, BeginCreate, CommitCreate, BeginAdd, CommitAdd, BeginUpdate, CommitUpdate,
     BeginUpload, EndUpload, BeginRemove, CommitRemove, Unlink, ListMessages
<1> QED
  BY <1>1, <1>2, <1>3

LEMMA ReaderStep ==
  ASSUME IndInv, ReaderInv, [Next]_vars
  PROVE  ReaderInv'
<1>1. CASE UNCHANGED reader
  BY <1>1, MessagesGrow DEF ReaderInv, IndInv, Types
<1>2. CASE ListMessages
  <2> DEFINE got == reader.got
             F == IF reader.pc = "start" THEN Newest ELSE reader.from
             m == F - Len(got)
             page == Page(m + 1)
  <2>1. Newest = Len(messages) /\ Len(messages) \in Nat
    BY NewestIsLen DEF IndInv, Types
  <2>2. /\ F \in Nat /\ F <= Len(messages)
        /\ got \in Seq(Nat) /\ Len(got) \in Nat
        /\ m \in Nat /\ m <= Len(messages)
        /\ \A i \in 1..Len(got) : got[i] = F - i + 1
        /\ (IF reader.pc = "start" THEN Newest + 1 ELSE Last(got)) = m + 1
    <3>1. CASE reader.pc = "start"
      <4>1. got = <<>> /\ F = Len(messages)
        BY <2>1, <3>1 DEF ReaderInv
      <4> HIDE DEF got, F
      <4> QED
        BY <2>1, <3>1, <4>1
    <3>2. CASE reader.pc = "more"
      <4>1. /\ F = reader.from /\ F \in Nat /\ F <= Len(messages)
            /\ got \in Seq(Nat) /\ Len(got) \in 1..(F - 1)
            /\ \A i \in 1..Len(got) : got[i] = F - i + 1
        BY <3>2 DEF ReaderInv
      <4> HIDE DEF got, F
      <4> QED
        BY <2>1, <3>2, <4>1 DEF Last
    <3> QED
      BY <1>2, <3>1, <3>2 DEF ListMessages
  <2>3. /\ reader' = [pc |-> IF page.has_more THEN "more" ELSE "done",
                     got |-> got \o page.items, from |-> F]
        /\ UNCHANGED messages
    BY <1>2, <2>2 DEF ListMessages
  <2>4. /\ page.items \in Seq(Nat)
        /\ Len(page.items) = Smaller(m, PageSize)
        /\ \A j \in 1..Len(page.items) : page.items[j] = m + 1 - j
        /\ page.has_more <=> m > PageSize
    BY <2>2, PageBelow DEF IndInv
  <2> DEFINE items == page.items
             new == got \o items
  <2> HIDE DEF got, page, items, m, F
  <2>5. /\ new \in Seq(Nat)
        /\ Smaller(m, PageSize) \in Nat
        /\ Len(new) = Len(got) + Smaller(m, PageSize)
    <3>1. Smaller(m, PageSize) \in Nat
      BY <2>2, PageSizeAssumption DEF Smaller
    <3>2. items \in Seq(Nat) /\ Len(items) = Smaller(m, PageSize)
      BY <2>4 DEF items
    <3>3. got \in Seq(Nat)
      BY <2>2
    <3> QED
      BY <3>1, <3>2, <3>3
  <2>6. ASSUME NEW i \in 1..Len(new) PROVE new[i] = F - i + 1
    <3>1. CASE i \in 1..Len(got)
      BY <2>2, <2>4, <3>1 DEF items
    <3>2. CASE i \notin 1..Len(got)
      <4>1. i - Len(got) \in 1..Len(items) /\ new[i] = items[i - Len(got)]
        BY <2>2, <2>4, <2>5, <2>6, <3>2 DEF Smaller, items
      <4>2. items[i - Len(got)] = m + 1 - (i - Len(got))
        BY <2>4, <4>1 DEF items
      <4> QED
        BY <2>2, <4>1, <4>2, <2>5, <2>6 DEF m
    <3> QED
      BY <3>1, <3>2
  <2>7. /\ m > PageSize => Len(new) \in 1..(F - 1)
        /\ ~(m > PageSize) => Len(new) = F
    <3>1. F = m + Len(got)
      BY <2>2 DEF m
    <3>2. m > PageSize => Smaller(m, PageSize) = PageSize
      BY <2>2, PageSizeAssumption DEF Smaller
    <3>3. ~(m > PageSize) => Smaller(m, PageSize) = m
      BY <2>2, PageSizeAssumption DEF Smaller
    <3> HIDE DEF new
    <3> QED
      BY <2>2, <2>5, <3>1, <3>2, <3>3, PageSizeAssumption
  <2>8. /\ reader'.pc = IF m > PageSize THEN "more" ELSE "done"
        /\ reader'.got = new
        /\ reader'.from = F
    BY <2>3, <2>4 DEF items
  <2> HIDE DEF new
  <2> QED
    BY <2>2, <2>3, <2>5, <2>6, <2>7, <2>8 DEF ReaderInv
<1> QED
  BY <1>1, <1>2 DEF Next, vars, BeginCreate, CommitCreate, BeginAdd, CommitAdd, BeginUpdate,
     CommitUpdate, BeginUpload, EndUpload, BeginRemove, CommitRemove, Unlink, Start, End

LEMMA ReaderInit == Init => ReaderInv
BY DEF Init, ReaderInv

(* A reader who goes back page by page sees every message there was when he   *)
(* began, once and in order, for any size of the pages and whatever is added   *)
(* in the meantime (conversation_service.py:114-180).                          *)
THEOREM PagesAreComplete == Spec => []PagesComplete
<1>1. ReaderInv => PagesComplete
  <2> SUFFICES ASSUME ReaderInv PROVE PagesComplete
    OBVIOUS
  <2> DEFINE got == reader.got
  <2>1. got \in Seq(Nat) /\ \A i \in 1..Len(got) : got[i] = reader.from - i + 1
    BY DEF ReaderInv
  <2> HIDE DEF got
  <2>2. got = [i \in 1..Len(got) |-> reader.from - i + 1]
    BY <2>1
  <2> QED
    BY <2>2 DEF ReaderInv, PagesComplete, got
<1> QED
  BY <1>1, ReaderInit, ReaderStep, ConversationIndInv, PTL DEF Spec

===============================================================================
