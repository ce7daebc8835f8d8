---------------------------- MODULE ContextSummary ----------------------------
(***************************************************************************)
(* The memory of one conversation: its messages, the factual summaries that *)
(* compress the older ones after a successful task                          *)
(* (services/context_summary_service.py), and the context a task is given   *)
(* (agent/nodes/load_context.py).  A run is one task execution; several may *)
(* be under way at once (a retried task next to a newer one).  compress     *)
(* reads and inserts without a lock, so another run's may come in between.  *)
(*                                                                          *)
(* A message is its length; message i has seq_no i, because seq_no is taken *)
(* under the conversation's row lock.                                       *)
(***************************************************************************)
EXTENDS Integers, Sequences, SequencesExt

CONSTANTS Runs,              \* task executions that may be under way
          MessageLimit,      \* agent_context_message_limit
          ContentLimit,      \* the characters of a message that load_context keeps
          MessageThreshold,  \* context_summary_message_threshold
          CharThreshold,     \* context_summary_char_threshold
          Retain,            \* context_summary_retain_messages
          SummaryMax,        \* SUMMARY_MAX_CHARS
          PreviousMax,       \* PREVIOUS_SUMMARY_MAX_CHARS
          PrefixLen,         \* length of a line's prefix ("user[3]: ")
          MarkerLen,         \* length of the marker for left-out text
          Lengths,           \* the lengths of messages
          MaxMessages        \* bound: messages of the conversation

ASSUME LimitsAssumption ==
  /\ {MessageLimit, Retain, SummaryMax, MarkerLen, PrefixLen, MessageThreshold} \subseteq Nat \ {0}
  /\ {ContentLimit, CharThreshold, PreviousMax, MaxMessages} \subseteq Nat
  /\ Lengths \subseteq Nat

VARIABLES messages,   \* the length of each message, by seq_no
          summaries,  \* context_summaries rows in the order of their commits
          phase,      \* the step each run is at
          context,    \* what load_context gave each run
          view        \* what compress_if_needed has read in each run

vars == <<messages, summaries, phase, context, view>>

NoSummary == [start |-> 0, end |-> 0, version |-> 0, length |-> 0]

Seqs == 1..MaxMessages

SummaryRows == [start : Seqs, end : Seqs, version : Seqs, length : Nat]

(* The summary of the first "end" messages, and the length of what is given  *)
(* of each newer one, up to the last.                                         *)
Given == UNION {[S -> Nat] : S \in SUBSET Seqs}

Contexts == [end : 0..MaxMessages, last : 0..MaxMessages, given : Given]

NoContext == [end |-> 0, last |-> 0, given |-> [i \in {} |-> 0]]

Init == /\ messages = <<>>
        /\ summaries = <<>>
        /\ phase = [r \in Runs |-> "idle"]
        /\ context = [r \in Runs |-> NoContext]
        /\ view = [r \in Runs |-> [latest |-> NoSummary, count |-> 0]]

GoTo(r, p) == phase' = [phase EXCEPT ![r] = p]

(* Mutant: the summary committed last. *)
Latest_Committed == IF summaries = <<>> THEN {NoSummary} ELSE {summaries[Len(summaries)]}

(* ORDER BY end_seq_no DESC LIMIT 1; among equals, whichever comes first *)
Latest == IF summaries = <<>> THEN {NoSummary}
          ELSE {s \in ToSet(summaries) : \A u \in ToSet(summaries) : u.end <= s.end}

------------------------------------------------------------------------------
(* compact_text, by the length of what it returns *)
CompactLength(length, budget) ==
  IF budget <= 0 THEN 0
  ELSE IF length <= budget THEN length
  ELSE IF budget <= MarkerLen THEN budget
  ELSE LET remaining == budget - MarkerLen
           head == (remaining + 1) \div 2
           tail == remaining - head
       IN  head + MarkerLen + tail

AtLeast0(n) == IF n > 0 THEN n ELSE 0

Lesser(m, n) == IF m < n THEN m ELSE n

(* Characters of separators and prefixes: all that is not message text. *)
Overhead(previous, count) ==
  LET lines == count + (IF previous = NoSummary THEN 0 ELSE 1)
  IN  lines * PrefixLen + AtLeast0(lines - 1)

(* Mutant: the previous summary's share is not taken from the budget. *)
SummaryLength_FullBudget(previous, lengths) ==
  LET count == Len(lengths)
      budget == AtLeast0(SummaryMax - Overhead(previous, count))
      previousLength == CompactLength(previous.length, Lesser(PreviousMax, budget \div 3))
      item(i) == CompactLength(lengths[i], budget \div count)
  IN  Overhead(previous, count) + previousLength + FoldFunction(+, 0, [i \in 1..count |-> item(i)])

(* build_factual_summary, by the length of its text *)
SummaryLength(previous, lengths) ==
  LET count == Len(lengths)
      budget == AtLeast0(SummaryMax - Overhead(previous, count))
      previousLength == CompactLength(previous.length, Lesser(PreviousMax, budget \div 3))
      rest == budget - previousLength
      item(i) == CompactLength(lengths[i],
                               rest \div count + (IF i <= rest % count THEN 1 ELSE 0))
  IN  Overhead(previous, count) + previousLength + FoldFunction(+, 0, [i \in 1..count |-> item(i)])

------------------------------------------------------------------------------
(* create_from_message or submit_clarification: the user's message *)
Submit(r) ==
  /\ phase[r] = "idle"
  /\ Len(messages) < MaxMessages
  /\ \E n \in Lengths : messages' = Append(messages, n)
  /\ GoTo(r, "queued")
  /\ UNCHANGED <<summaries, context, view>>

(* LoadContextNode: the latest summary and the newest uncovered messages,    *)
(* each cut to ContentLimit characters                                       *)
Loaded(s) ==
  LET n == Len(messages)
      count == Lesser(n - s.end, MessageLimit)
  IN  [end |-> s.end, last |-> n,
       given |-> [i \in n - count + 1 .. n |-> Lesser(messages[i], ContentLimit)]]

LoadContext(r) ==
  /\ phase[r] = "queued"
  /\ \E s \in Latest : context' = [context EXCEPT ![r] = Loaded(s)]
  /\ GoTo(r, "running")
  /\ UNCHANGED <<messages, summaries, view>>

(* A failed, cancelled or waiting task persists nothing and compresses nothing. *)
Abandon(r) ==
  /\ phase[r] = "running"
  /\ GoTo(r, "idle")
  /\ UNCHANGED <<messages, summaries, context, view>>

(* persist: the assistant's message *)
Persist(r) ==
  /\ phase[r] = "running"
  /\ Len(messages) < MaxMessages
  /\ \E n \in Lengths : messages' = Append(messages, n)
  /\ GoTo(r, "persisted")
  /\ UNCHANGED <<summaries, context, view>>

(* compress_if_needed up to its insert.  An exception ends it silently. *)
ReadForSummary(r) ==
  /\ phase[r] = "persisted"
  /\ \/ /\ \E s \in Latest : view' = [view EXCEPT ![r] = [latest |-> s, count |-> Len(messages)]]
        /\ GoTo(r, "compress")
     \/ GoTo(r, "idle") /\ UNCHANGED view
  /\ UNCHANGED <<messages, summaries, context>>

Uncovered(v) == [i \in 1..(v.count - v.latest.end) |-> messages[v.latest.end + i]]

Due(v) == \/ v.count - v.latest.end >= MessageThreshold
          \/ FoldFunction(+, 0, Uncovered(v)) >= CharThreshold

(* Mutant: the newest messages are summarised as well. *)
Compressible_All(v) == Uncovered(v)

(* messages[:-retain] *)
Compressible(v) ==
  LET u == Uncovered(v) IN SubSeq(u, 1, AtLeast0(Len(u) - Retain))

Summary(v) ==
  LET first == v.latest.end + 1
      last == v.latest.end + Len(Compressible(v))
  IN  [start |-> first, end |-> last, version |-> v.latest.version + 1,
       length |-> SummaryLength(v.latest, Compressible(v))]

InsertSummary(r) ==
  /\ phase[r] = "compress"
  /\ summaries' = IF Due(view[r]) /\ Compressible(view[r]) # <<>>
                  THEN Append(summaries, Summary(view[r])) ELSE summaries
  /\ view' = [view EXCEPT ![r] = [latest |-> NoSummary, count |-> 0]]
  /\ GoTo(r, "idle")
  /\ UNCHANGED <<messages, context>>

Next == \E r \in Runs : \/ Submit(r) \/ LoadContext(r) \/ Abandon(r) \/ Persist(r)
                        \/ ReadForSummary(r) \/ InsertSummary(r)

Spec == Init /\ [][Next]_vars

------------------------------------------------------------------------------
(* Two runs may compress at once and insert in either order: the summary of   *)
(* fewer messages may be the younger row.  Still no context starts from a     *)
(* summary of fewer messages than an earlier context did.                     *)
ContextsGoForward ==
  [][\A q, r \in Runs : context'[r] # context[r] => context[q].end <= context'[r].end]_vars

(* A summary's text stays within SUMMARY_MAX_CHARS, unless the prefixes of   *)
(* its lines alone are longer.                                               *)
SummaryFits == \A i \in 1..Len(summaries) :
  LET s == summaries[i] IN
    \/ s.length <= SummaryMax
    \/ (s.end - s.start + 2) * (PrefixLen + 1) > SummaryMax

(* No summary, however old the state it was made from, takes the newest       *)
(* messages out of a context: they are given, and whole unless they are        *)
(* longer than ContentLimit.  This is less than README.md:235 promises, the    *)
(* latest summary and the messages it does not cover: of these a context has   *)
(* the newest MessageLimit, and the older ones are in neither until            *)
(* MessageThreshold makes a summary of them (load_context.py:39).              *)
RecentGiven == \A r \in Runs : phase[r] = "running" =>
  \A i \in Seqs : context[r].last - Lesser(Retain, MessageLimit) < i /\ i <= context[r].last =>
    /\ i \in DOMAIN context[r].given
    /\ messages[i] <= ContentLimit => context[r].given[i] = messages[i]

===============================================================================
