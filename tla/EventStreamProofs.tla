-------------------------- MODULE EventStreamProofs ---------------------------
(***************************************************************************)
(* CaughtUp and TextAtMostTwice for any number of emitters, events,         *)
(* failures and visits.  CaughtUp rests on where an event can be: while the *)
(* connection is served and nothing was missed, an event the client has not *)
(* reached is in an outbox, in the subscription, in the replay or on the    *)
(* wire.                                                                    *)
(***************************************************************************)
EXTENDS EventStream, TLAPS

In(n, s) == \E i \in 1..Len(s) : s[i] = n

Types == /\ log \in Seq({"step", "delta", "done"})
         /\ Len(log) <= MaxEvents
         /\ outbox \in [Emitters -> Seq(Seqs)]
         /\ sub \in Seq(Seqs) /\ replay \in Seq(Seqs) /\ wire \in Seq(Seqs)
         /\ resume \in 0..MaxEvents \cup {None}
         /\ lastSeq \in 0..MaxEvents

(* Only committed events are anywhere. *)
Committed == /\ \A e \in Emitters : \A i \in 1..Len(outbox[e]) : outbox[e][i] <= Len(log)
             /\ \A i \in 1..Len(sub) : sub[i] <= Len(log)
             /\ \A i \in 1..Len(replay) : replay[i] <= Len(log)
             /\ \A i \in 1..Len(wire) : wire[i] <= Len(log)
             /\ lastSeq <= Len(log)

OnItsWay(n) == \/ In(n, wire) \/ In(n, sub) \/ In(n, replay)
               \/ \E e \in Emitters : In(n, outbox[e])

NoneLost == conn = "serving" /\ ~missed => \A n \in 1..Len(log) : n <= lastSeq \/ OnItsWay(n)

IInv == Types /\ Committed /\ NoneLost

------------------------------------------------------------------------------
LEMMA AppendIn ==
  ASSUME NEW S, NEW s \in Seq(S), NEW x \in S, NEW n
  PROVE  In(n, Append(s, x)) <=> In(n, s) \/ n = x
  BY DEF In

LEMMA TailIn ==
  ASSUME NEW S, NEW s \in Seq(S), s # <<>>, NEW n
  PROVE  /\ In(n, s) <=> n = Head(s) \/ In(n, Tail(s))
         /\ Tail(s) \in Seq(S) /\ Head(s) \in S
  <1>1. Len(s) \in Nat \ {0} /\ Head(s) = s[1] /\ Tail(s) \in Seq(S) /\ Len(Tail(s)) = Len(s) - 1
    OBVIOUS
  <1>2. \A i \in 1..(Len(s) - 1) : Tail(s)[i] = s[i + 1]
    OBVIOUS
  <1>3. ASSUME In(n, s) PROVE n = Head(s) \/ In(n, Tail(s))
    <2>1. PICK i \in 1..Len(s) : s[i] = n
      BY <1>3 DEF In
    <2>2. CASE i = 1
      BY <1>1, <2>1, <2>2
    <2>3. CASE i # 1
      <3>1. i - 1 \in 1..(Len(s) - 1) /\ Tail(s)[i - 1] = n
        BY <1>1, <1>2, <2>1, <2>3
      <3> QED
        BY <1>1, <3>1 DEF In
    <2> QED
      BY <2>2, <2>3
  <1>4. ASSUME n = Head(s) \/ In(n, Tail(s)) PROVE In(n, s)
    <2>1. CASE n = Head(s)
      BY <1>1, <2>1 DEF In
    <2>2. CASE In(n, Tail(s))
      <3>1. PICK i \in 1..(Len(s) - 1) : Tail(s)[i] = n
        BY <1>1, <2>2 DEF In
      <3>2. i + 1 \in 1..Len(s) /\ s[i + 1] = n
        BY <1>1, <1>2, <3>1
      <3> QED
        BY <3>2 DEF In
    <2> QED
      BY <1>4, <2>1, <2>2
  <1> QED
    BY <1>1, <1>3, <1>4

(* A bound on the elements survives the two operations on a queue. *)
LEMMA TailBound ==
  ASSUME NEW S, NEW s \in Seq(S), s # <<>>, NEW b, \A i \in 1..Len(s) : s[i] <= b
  PROVE  Head(s) <= b /\ \A i \in 1..Len(Tail(s)) : Tail(s)[i] <= b
  <1>1. Len(s) \in Nat \ {0} /\ Head(s) = s[1] /\ Len(Tail(s)) = Len(s) - 1
    OBVIOUS
  <1>2. \A i \in 1..(Len(s) - 1) : Tail(s)[i] = s[i + 1] /\ i + 1 \in 1..Len(s)
    OBVIOUS
  <1> QED
    BY <1>1, <1>2

LEMMA AppendBound ==
  ASSUME NEW S, NEW s \in Seq(S), NEW b, \A i \in 1..Len(s) : s[i] <= b, NEW x \in S, x <= b
  PROVE  \A i \in 1..Len(Append(s, x)) : Append(s, x)[i] <= b
  <1>1. Len(Append(s, x)) = Len(s) + 1 /\ Len(s) \in Nat
    OBVIOUS
  <1>2. \A i \in 1..(Len(s) + 1) : Append(s, x)[i] = IF i <= Len(s) THEN s[i] ELSE x
    OBVIOUS
  <1> QED
    BY <1>1, <1>2

LEMMA EventsAfterIs ==
  ASSUME Types, NEW n \in 0..MaxEvents
  PROVE  /\ EventsAfter(n) \in Seq(Seqs)
         /\ \A i \in 1..Len(EventsAfter(n)) : EventsAfter(n)[i] <= Len(log)
         /\ n = 0 /\ Len(log) <= ReplayLimit => \A m \in 1..Len(log) : In(m, EventsAfter(n))
  <1> DEFINE count == IF Len(log) < n THEN 0 ELSE Len(log) - n
             size == IF count < ReplayLimit THEN count ELSE ReplayLimit
  <1>1. Len(log) \in Nat /\ MaxEvents \in Nat /\ ReplayLimit \in Nat
    BY EventBoundsAssumption DEF Types
  <1>2. count \in Nat /\ size \in Nat /\ size <= count /\ (size > 0 => n + size <= Len(log))
    BY <1>1
  <1>3. EventsAfter(n) = [i \in 1..size |-> n + i]
    BY DEF EventsAfter
  <1> HIDE DEF size, count
  <1>4. \A i \in 1..size : n + i \in Seqs /\ n + i <= Len(log)
    BY <1>1, <1>2 DEF Types, Seqs
  <1>5. EventsAfter(n) \in Seq(Seqs) /\ Len(EventsAfter(n)) = size
    BY <1>2, <1>3, <1>4
  <1>6. ASSUME n = 0, Len(log) <= ReplayLimit, NEW m \in 1..Len(log) PROVE In(m, EventsAfter(n))
    <2>1. size = Len(log)
      BY <1>1, <1>6 DEF size, count
    <2> QED
      BY <1>1, <1>3, <1>5, <1>6, <2>1 DEF In
  <1> QED
    BY <1>3, <1>4, <1>5, <1>6

------------------------------------------------------------------------------
LEMMA InitIInv == Init => IInv
  <1> SUFFICES ASSUME Init PROVE IInv
    OBVIOUS
  <1>1. Types
    BY EventBoundsAssumption DEF Init, Types
  <1>2. Committed /\ NoneLost
    BY DEF Init, Committed, NoneLost
  <1> QED
    BY <1>1, <1>2 DEF IInv

LEMMA EmitKeeps ==
  ASSUME IInv, NEW e \in Emitters, Emit(e)
  PROVE  IInv'
  <1>1. PICK batch \in {<<"step">>, <<"delta">>, <<"step", "done">>} :
          /\ outbox[e] = <<>>
          /\ Len(log) + Len(batch) <= MaxEvents
          /\ log' = log \o batch
          /\ outbox' = [outbox EXCEPT ![e] = [i \in 1..Len(batch) |-> Len(log) + i]]
    BY DEF Emit
  <1> DEFINE new == [i \in 1..Len(batch) |-> Len(log) + i]
  <1>2. UNCHANGED <<conn, sub, replay, resume, wire, lastSeq, missed>>
    BY DEF Emit, clientVars
  <1>3. batch \in Seq({"step", "delta", "done"}) /\ Len(batch) \in 1..2
    BY <1>1
  <1>4. log \in Seq({"step", "delta", "done"}) /\ Len(log) \in Nat /\ MaxEvents \in Nat
    BY EventBoundsAssumption DEF IInv, Types
  <1>5. log' \in Seq({"step", "delta", "done"}) /\ Len(log') = Len(log) + Len(batch) /\ Len(log') <= MaxEvents
    BY <1>1, <1>3, <1>4
  <1>6. new \in Seq(Seqs) /\ Len(new) = Len(batch) /\ \A i \in 1..Len(new) : new[i] = Len(log) + i
    <2>1. \A i \in 1..Len(batch) : Len(log) + i \in Seqs
      BY <1>1, <1>3, <1>4 DEF Seqs
    <2> QED
      BY <2>1, <1>3
  <1> HIDE DEF new
  <1>7. outbox' = [outbox EXCEPT ![e] = new]
    BY <1>1 DEF new
  <1>8. Types'
    BY <1>2, <1>5, <1>6, <1>7 DEF IInv, Types, None, Seqs
  <1>9. lastSeq' = lastSeq
    BY <1>2
  <1>10. Committed'
    <2>1. lastSeq <= Len(log)
      BY DEF IInv, Committed
    <2>2. lastSeq \in Nat
      BY EventBoundsAssumption DEF IInv, Types
    <2>3. lastSeq' <= Len(log')
      BY <1>3, <1>4, <1>5, <1>9, <2>1, <2>2
    <2>4. ASSUME NEW f \in Emitters, NEW i \in 1..Len(outbox'[f]) PROVE outbox'[f][i] <= Len(log')
      <3>1. CASE f = e
        <4>1. outbox'[f] = new
          BY <1>7, <3>1 DEF IInv, Types
        <4> QED
          BY <1>3, <1>4, <1>5, <1>6, <4>1
      <3>2. CASE f # e
        <4>1. outbox'[f] = outbox[f] /\ outbox[f] \in Seq(Seqs)
          BY <1>7, <3>2 DEF IInv, Types
        <4>2. outbox[f][i] \in Seqs /\ outbox[f][i] <= Len(log)
          BY <4>1 DEF IInv, Committed
        <4> QED
          BY <1>3, <1>4, <1>5, <4>1, <4>2 DEF Seqs
      <3> QED
        BY <3>1, <3>2
    <2>5. /\ \A i \in 1..Len(sub) : sub[i] <= Len(log')
          /\ \A i \in 1..Len(replay) : replay[i] <= Len(log')
          /\ \A i \in 1..Len(wire) : wire[i] <= Len(log')
      <3>1. \A k \in Seqs : k <= Len(log) => k <= Len(log')
        BY <1>3, <1>4, <1>5 DEF Seqs
      <3>2. /\ \A i \in 1..Len(sub) : sub[i] \in Seqs /\ sub[i] <= Len(log)
            /\ \A i \in 1..Len(replay) : replay[i] \in Seqs /\ replay[i] <= Len(log)
            /\ \A i \in 1..Len(wire) : wire[i] \in Seqs /\ wire[i] <= Len(log)
        BY DEF IInv, Types, Committed
      <3> QED
        BY <3>1, <3>2
    <2> QED
      BY <1>2, <2>3, <2>4, <2>5 DEF Committed
  <1>11. NoneLost'
    <2> SUFFICES ASSUME conn = "serving", ~missed, NEW n \in 1..Len(log')
                 PROVE  n <= lastSeq \/ OnItsWay(n)'
      BY <1>2, <1>9 DEF NoneLost
    <2>1. CASE n <= Len(log)
      <3>1. n <= lastSeq \/ OnItsWay(n)
        BY <1>4, <2>1 DEF IInv, NoneLost
      <3>2. ASSUME NEW f \in Emitters, In(n, outbox[f]) PROVE In(n, outbox'[f])
        BY <1>1, <1>7, <3>2 DEF In, IInv, Types
      <3> QED
        BY <1>2, <3>1, <3>2 DEF OnItsWay
    <2>2. CASE n > Len(log)
      <3>1. n - Len(log) \in 1..Len(new) /\ new[n - Len(log)] = n
        <4>1. n \in Nat /\ n <= Len(log) + Len(new) /\ Len(log) \in Nat /\ Len(new) \in Nat
          BY <1>3, <1>4, <1>5, <1>6
        <4>2. n - Len(log) \in 1..Len(new)
          BY <2>2, <4>1
        <4> QED
          BY <1>6, <4>1, <4>2
      <3>2. In(n, outbox'[e])
        BY <1>7, <3>1 DEF In, IInv, Types
      <3> QED
        BY <3>2 DEF OnItsWay
    <2> QED
      BY <1>4, <1>5, <2>1, <2>2
  <1> QED
    BY <1>8, <1>10, <1>11 DEF IInv

(* Steps that move no event and may only end the serving of the connection. *)
LEMMA QuietKeeps ==
  ASSUME IInv, UNCHANGED <<log, outbox, sub, replay, wire, lastSeq>>,
         resume' \in 0..MaxEvents \cup {None},
         conn' = "serving" => conn = "serving" /\ missed' = missed
  PROVE  IInv'
  <1>1. lastSeq' = lastSeq
    OBVIOUS
  <1>2. Types'
    BY DEF IInv, Types, None, Seqs
  <1>3. Committed'
    BY <1>1 DEF IInv, Committed
  <1>4. NoneLost'
    BY <1>1 DEF IInv, NoneLost, OnItsWay
  <1> QED
    BY <1>2, <1>3, <1>4 DEF IInv

LEMMA DisconnectKeeps == IInv /\ Disconnect => IInv'
  <1> SUFFICES ASSUME IInv, Disconnect PROVE IInv'
    OBVIOUS
  <1>1. lastSeq' = lastSeq
    BY DEF Disconnect, clientVars
  <1>2. Types'
    BY DEF Disconnect, clientVars, IInv, Types, None, Seqs
  <1>3. Committed'
    BY <1>1 DEF Disconnect, IInv, Committed
  <1>4. NoneLost'
    BY DEF Disconnect, NoneLost
  <1> QED
    BY <1>2, <1>3, <1>4 DEF IInv

(* Opening the conversation again forgets the numbers and drops the connection. *)
LEMMA ActivateKeeps == IInv /\ Activate => IInv'
  <1> SUFFICES ASSUME IInv, Activate PROVE IInv'
    OBVIOUS
  <1>1. Types'
    BY EventBoundsAssumption DEF Activate, IInv, Types, None, Seqs
  <1>2. Committed'
    BY EventBoundsAssumption DEF Activate, IInv, Types, Committed
  <1>3. NoneLost'
    BY DEF Activate, NoneLost
  <1> QED
    BY <1>1, <1>2, <1>3 DEF IInv

(* The outbox of e loses its head, which goes to the subscription if there is one. *)
LEMMA PublishKeeps ==
  ASSUME IInv, NEW e \in Emitters, Publish(e)
  PROVE  IInv'
  <1> DEFINE q == outbox[e]
  <1>1. q \in Seq(Seqs) /\ q # <<>> /\ \A i \in 1..Len(q) : q[i] <= Len(log)
    BY DEF Publish, IInv, Types, Committed
  <1>2. Head(q) \in Seqs /\ Head(q) <= Len(log) /\ Tail(q) \in Seq(Seqs)
        /\ \A i \in 1..Len(Tail(q)) : Tail(q)[i] <= Len(log)
    BY <1>1, TailIn, TailBound
  <1>3. /\ UNCHANGED <<log, conn, replay, resume, wire, lastSeq, missed>>
        /\ outbox' = [outbox EXCEPT ![e] = Tail(q)]
        /\ sub' = IF Listening THEN Append(sub, Head(q)) ELSE sub
    BY DEF Publish, clientVars
  <1>4. sub \in Seq(Seqs) /\ \A i \in 1..Len(sub) : sub[i] <= Len(log)
    BY DEF IInv, Types, Committed
  <1>5. sub' \in Seq(Seqs) /\ \A i \in 1..Len(sub') : sub'[i] <= Len(log)
    <2>1. CASE Listening
      <3>1. sub' = Append(sub, Head(q))
        BY <1>3, <2>1
      <3> QED
        BY <1>2, <1>4, <3>1, AppendBound
    <2>2. CASE ~Listening
      BY <1>3, <1>4, <2>2
    <2> QED
      BY <2>1, <2>2
  <1>6. lastSeq' = lastSeq
    BY <1>3
  <1>7. outbox \in [Emitters -> Seq(Seqs)]
    BY DEF IInv, Types
  <1>8. outbox'[e] = Tail(q) /\ \A f \in Emitters : f # e => outbox'[f] = outbox[f]
    BY <1>3, <1>7
  <1>9. Types'
    BY <1>2, <1>3, <1>5 DEF IInv, Types, None, Seqs
  <1>10. Committed'
    <2>1. \A f \in Emitters : \A i \in 1..Len(outbox'[f]) : outbox'[f][i] <= Len(log')
      BY <1>2, <1>3, <1>8 DEF IInv, Committed
    <2> QED
      BY <1>3, <1>5, <1>6, <2>1 DEF IInv, Committed
  <1>11. NoneLost'
    <2> SUFFICES ASSUME conn = "serving", ~missed, NEW n \in 1..Len(log), ~(n <= lastSeq)
                 PROVE  OnItsWay(n)'
      BY <1>3, <1>6 DEF NoneLost
    <2>1. OnItsWay(n)
      BY DEF IInv, NoneLost
    <2>2. sub' = Append(sub, Head(q))
      BY <1>3 DEF Listening
    <2>3. In(n, sub') <=> In(n, sub) \/ n = Head(q)
      BY <1>2, <1>4, <2>2, AppendIn
    <2>4. In(n, q) <=> n = Head(q) \/ In(n, Tail(q))
      BY <1>1, TailIn
    <2>5. CASE \E f \in Emitters : In(n, outbox[f])
      <3>1. PICK f \in Emitters : In(n, outbox[f])
        BY <2>5
      <3>2. CASE f = e
        BY <1>8, <2>3, <2>4, <3>1, <3>2 DEF OnItsWay
      <3>3. CASE f # e
        BY <1>8, <3>1, <3>3 DEF OnItsWay
      <3> QED
        BY <3>2, <3>3
    <2> QED
      BY <1>3, <2>1, <2>3, <2>5 DEF OnItsWay
  <1> QED
    BY <1>9, <1>10, <1>11 DEF IInv

LEMMA PublishFailsKeeps ==
  ASSUME IInv, NEW e \in Emitters, PublishFails(e)
  PROVE  IInv'
  <1>1. PICK rest \in {<<>>, Tail(outbox[e])} : outbox' = [outbox EXCEPT ![e] = rest]
    BY DEF PublishFails
  <1>2. /\ UNCHANGED <<log, conn, sub, replay, resume, wire, lastSeq>>
        /\ outbox[e] # <<>> /\ missed'
    BY DEF PublishFails, clientVars
  <1>3. outbox \in [Emitters -> Seq(Seqs)] /\ \A i \in 1..Len(outbox[e]) : outbox[e][i] <= Len(log)
    BY DEF IInv, Types, Committed
  <1>4. rest \in Seq(Seqs) /\ \A i \in 1..Len(rest) : rest[i] <= Len(log)
    <2>1. CASE rest = <<>>
      BY <2>1
    <2>2. CASE rest = Tail(outbox[e])
      BY <1>2, <1>3, <2>2, TailIn, TailBound
    <2> QED
      BY <1>1, <2>1, <2>2
  <1>5. Types'
    BY <1>1, <1>2, <1>4 DEF IInv, Types, None, Seqs
  <1>6. Committed'
    <2>1. lastSeq' = lastSeq
      BY <1>2
    <2>2. \A f \in Emitters : \A i \in 1..Len(outbox'[f]) : outbox'[f][i] <= Len(log)
      BY <1>1, <1>3, <1>4 DEF IInv, Committed
    <2> QED
      BY <1>2, <2>1, <2>2 DEF IInv, Committed
  <1>7. NoneLost'
    BY <1>2 DEF NoneLost
  <1> QED
    BY <1>5, <1>6, <1>7 DEF IInv

(* The first replay covers the log, or missed says that it was cut off. *)
LEMMA ReplayLatestKeeps == IInv /\ ReplayLatest => IInv'
  <1> SUFFICES ASSUME IInv, ReplayLatest PROVE IInv'
    OBVIOUS
  <1>1. /\ UNCHANGED <<log, outbox, sub, resume, wire, lastSeq>>
        /\ replay' = EventsAfter(0) /\ missed' = (Len(log) > ReplayLimit)
    BY DEF ReplayLatest, clientVars
  <1>2. 0 \in 0..MaxEvents /\ Types
    BY EventBoundsAssumption DEF IInv
  <1>3. lastSeq' = lastSeq
    BY <1>1
  <1>4. replay' \in Seq(Seqs) /\ \A i \in 1..Len(replay') : replay'[i] <= Len(log)
    BY <1>1, <1>2, EventsAfterIs
  <1>5. Types'
    BY <1>1, <1>4 DEF IInv, Types, None, Seqs
  <1>6. Committed'
    BY <1>1, <1>3, <1>4 DEF IInv, Committed
  <1>7. NoneLost'
    <2> SUFFICES ASSUME ~missed', NEW n \in 1..Len(log) PROVE In(n, replay')
      BY <1>1 DEF NoneLost, OnItsWay
    <2>1. Len(log) <= ReplayLimit
      <3>1. ~(Len(log) > ReplayLimit)
        BY <1>1, Zenon
      <3>2. Len(log) \in Nat /\ ReplayLimit \in Nat
        BY <1>2, EventBoundsAssumption DEF Types
      <3> QED
        BY <3>1, <3>2
    <2> QED
      BY <1>1, <1>2, <2>1, EventsAfterIs
  <1> QED
    BY <1>5, <1>6, <1>7 DEF IInv

LEMMA ReplayResumedKeeps == IInv /\ ReplayResumed => IInv'
  <1> SUFFICES ASSUME IInv, ReplayResumed PROVE IInv'
    OBVIOUS
  <1>1. /\ UNCHANGED <<log, outbox, conn, sub, wire, lastSeq, missed>>
        /\ replay = <<>> /\ replay' = EventsAfter(resume) /\ resume' = None
    BY DEF ReplayResumed, clientVars
  <1>2. resume \in 0..MaxEvents /\ Types
    BY DEF ReplayResumed, IInv, Types
  <1>3. lastSeq' = lastSeq
    BY <1>1
  <1>4. replay' \in Seq(Seqs) /\ \A i \in 1..Len(replay') : replay'[i] <= Len(log)
    BY <1>1, <1>2, EventsAfterIs
  <1>5. Types'
    BY <1>1, <1>4 DEF IInv, Types, None, Seqs
  <1>6. Committed'
    BY <1>1, <1>3, <1>4 DEF IInv, Committed
  <1>7. NoneLost'
    <2>1. \A n : ~In(n, replay)
      BY <1>1 DEF In
    <2> QED
      BY <1>1, <1>3, <2>1 DEF IInv, NoneLost, OnItsWay
  <1> QED
    BY <1>5, <1>6, <1>7 DEF IInv

LEMMA SendReplayedKeeps == IInv /\ SendReplayed => IInv'
  <1> SUFFICES ASSUME IInv, SendReplayed PROVE IInv'
    OBVIOUS
  <1>1. /\ UNCHANGED <<log, outbox, conn, sub, resume, lastSeq, missed>>
        /\ replay # <<>> /\ replay' = Tail(replay) /\ wire' = Append(wire, Head(replay))
    BY DEF SendReplayed, clientVars
  <1>2. /\ replay \in Seq(Seqs) /\ \A i \in 1..Len(replay) : replay[i] <= Len(log)
        /\ wire \in Seq(Seqs) /\ \A i \in 1..Len(wire) : wire[i] <= Len(log)
    BY DEF IInv, Types, Committed
  <1>3. /\ Head(replay) \in Seqs /\ Head(replay) <= Len(log) /\ replay' \in Seq(Seqs)
        /\ \A i \in 1..Len(replay') : replay'[i] <= Len(log)
    BY <1>1, <1>2, TailIn, TailBound
  <1>4. wire' \in Seq(Seqs) /\ \A i \in 1..Len(wire') : wire'[i] <= Len(log)
    BY <1>1, <1>2, <1>3, AppendBound
  <1>5. lastSeq' = lastSeq
    BY <1>1
  <1>6. Types'
    BY <1>1, <1>3, <1>4 DEF IInv, Types, None, Seqs
  <1>7. Committed'
    BY <1>1, <1>3, <1>4, <1>5 DEF IInv, Committed
  <1>8. \A n : In(n, replay) \/ In(n, wire) => In(n, replay') \/ In(n, wire')
    BY <1>1, <1>2, <1>3, TailIn, AppendIn
  <1>9. NoneLost'
    BY <1>1, <1>5, <1>8 DEF IInv, NoneLost, OnItsWay
  <1> QED
    BY <1>6, <1>7, <1>9 DEF IInv

LEMMA ForwardKeeps == IInv /\ Forward => IInv'
  <1> SUFFICES ASSUME IInv, Forward PROVE IInv'
    OBVIOUS
  <1>1. /\ UNCHANGED <<log, outbox, conn, replay, resume, lastSeq, missed>>
        /\ sub # <<>> /\ sub' = Tail(sub) /\ wire' = Append(wire, Head(sub))
    BY DEF Forward, clientVars
  <1>2. /\ sub \in Seq(Seqs) /\ \A i \in 1..Len(sub) : sub[i] <= Len(log)
        /\ wire \in Seq(Seqs) /\ \A i \in 1..Len(wire) : wire[i] <= Len(log)
    BY DEF IInv, Types, Committed
  <1>3. /\ Head(sub) \in Seqs /\ Head(sub) <= Len(log) /\ sub' \in Seq(Seqs)
        /\ \A i \in 1..Len(sub') : sub'[i] <= Len(log)
    BY <1>1, <1>2, TailIn, TailBound
  <1>4. wire' \in Seq(Seqs) /\ \A i \in 1..Len(wire') : wire'[i] <= Len(log)
    BY <1>1, <1>2, <1>3, AppendBound
  <1>5. lastSeq' = lastSeq
    BY <1>1
  <1>6. Types'
    BY <1>1, <1>3, <1>4 DEF IInv, Types, None, Seqs
  <1>7. Committed'
    BY <1>1, <1>3, <1>4, <1>5 DEF IInv, Committed
  <1>8. \A n : In(n, sub) \/ In(n, wire) => In(n, sub') \/ In(n, wire')
    BY <1>1, <1>2, <1>3, TailIn, AppendIn
  <1>9. NoneLost'
    BY <1>1, <1>5, <1>8 DEF IInv, NoneLost, OnItsWay
  <1> QED
    BY <1>6, <1>7, <1>9 DEF IInv

(* The client applies the head of the wire, or has reached it already. *)
LEMMA ReceiveKeeps == IInv /\ Receive => IInv'
  <1> SUFFICES ASSUME IInv, Receive PROVE IInv'
    OBVIOUS
  <1> DEFINE seq == Head(wire)
  <1>1. /\ UNCHANGED <<log, outbox, conn, sub, replay, resume, missed>>
        /\ wire # <<>> /\ wire' = Tail(wire)
        /\ lastSeq' = IF Newer(seq) THEN seq ELSE lastSeq
    BY DEF Receive
  <1>2. /\ wire \in Seq(Seqs) /\ \A i \in 1..Len(wire) : wire[i] <= Len(log)
        /\ lastSeq \in 0..MaxEvents /\ lastSeq <= Len(log)
        /\ Len(log) \in Nat /\ MaxEvents \in Nat
    BY EventBoundsAssumption DEF IInv, Types, Committed
  <1>3. /\ seq \in Seqs /\ seq <= Len(log) /\ wire' \in Seq(Seqs)
        /\ \A i \in 1..Len(wire') : wire'[i] <= Len(log)
    BY <1>1, <1>2, TailIn, TailBound
  <1> HIDE DEF seq
  <1>6. lastSeq' \in 0..MaxEvents /\ lastSeq <= lastSeq' /\ seq <= lastSeq' /\ lastSeq' <= Len(log)
    BY <1>1, <1>2, <1>3 DEF Newer, Seqs
  <1>7. Types'
    BY <1>1, <1>3, <1>6 DEF IInv, Types, None, Seqs
  <1>8. Committed'
    BY <1>1, <1>3, <1>6 DEF IInv, Committed
  <1>9. NoneLost'
    <2> SUFFICES ASSUME conn = "serving", ~missed, NEW n \in 1..Len(log), ~(n <= lastSeq')
                 PROVE  OnItsWay(n)'
      BY <1>1 DEF NoneLost
    <2>1. n # seq /\ ~(n <= lastSeq)
      BY <1>2, <1>3, <1>6 DEF Seqs
    <2>2. OnItsWay(n)
      BY <2>1 DEF IInv, NoneLost
    <2>3. In(n, wire) => In(n, wire')
      BY <1>1, <1>2, <2>1, TailIn DEF seq
    <2> QED
      BY <1>1, <2>2, <2>3 DEF OnItsWay
  <1> QED
    BY <1>6, <1>7, <1>8, <1>9 DEF IInv

LEMMA StepKeepsIInv == IInv /\ [Next]_vars => IInv'
  <1> SUFFICES ASSUME IInv, [Next]_vars PROVE IInv'
    OBVIOUS
  <1>1. resume \in 0..MaxEvents \cup {None} /\ lastSeq \in 0..MaxEvents
    BY DEF IInv, Types
  <1>2. CASE \E e \in Emitters : Emit(e) \/ Publish(e) \/ PublishFails(e)
    BY <1>2, EmitKeeps, PublishKeeps, PublishFailsKeeps
  <1>10. CASE Activate
    BY <1>10, ActivateKeeps
  <1>3. CASE LoadHistory
    BY <1>1, <1>3, QuietKeeps DEF LoadHistory
  <1>4. CASE Open
    BY <1>1, <1>4, QuietKeeps DEF Open, clientVars
  <1>5. CASE Subscribe
    BY <1>1, <1>5, QuietKeeps DEF Subscribe, clientVars
  <1>6. CASE ReplayLatest \/ ReplayResumed \/ SendReplayed \/ Forward \/ Disconnect \/ Receive
    BY <1>6, ReplayLatestKeeps, ReplayResumedKeeps, SendReplayedKeeps, ForwardKeeps,
       DisconnectKeeps, ReceiveKeeps
  <1>8. CASE ApplyLoad
    BY <1>1, <1>8, QuietKeeps DEF ApplyLoad, serverVars
  <1>9. CASE UNCHANGED vars
    BY <1>1, <1>9, QuietKeeps DEF vars, serverVars, clientVars
  <1> QED
    BY <1>2, <1>3, <1>4, <1>5, <1>6, <1>8, <1>9, <1>10 DEF Next

LEMMA SpecIInv == Spec => []IInv
  BY InitIInv, StepKeepsIInv, PTL DEF Spec

------------------------------------------------------------------------------
(* When nothing is under way to a served client, it has the newest event,     *)
(* for any number of emitters and events and any task_event_replay_limit,     *)
(* unless a publication failed or the first replay was cut off (CaughtUp).    *)
THEOREM ClientCaughtUp == Spec => []CaughtUp
  <1>1. IInv => CaughtUp
    <2> SUFFICES ASSUME IInv, AllDelivered PROVE lastSeq = Len(log)
      BY DEF CaughtUp
    <2>1. lastSeq \in 0..MaxEvents /\ lastSeq <= Len(log) /\ Len(log) \in Nat
      BY EventBoundsAssumption DEF IInv, Types, Committed
    <2>2. ASSUME lastSeq < Len(log) PROVE FALSE
      <3>1. Len(log) \in 1..Len(log) /\ ~(Len(log) <= lastSeq)
        BY <2>1, <2>2
      <3>2. OnItsWay(Len(log))
        BY <3>1 DEF IInv, NoneLost, AllDelivered
      <3>3. \A n : ~In(n, <<>>)
        BY DEF In
      <3> QED
        BY <3>2, <3>3 DEF OnItsWay, AllDelivered
    <2> QED
      BY <2>1, <2>2
  <1> QED
    BY SpecIInv, <1>1, PTL

------------------------------------------------------------------------------
(* A task has one delta, and only its event adds the text to what was stored. *)
OneDelta == \A i, j \in 1..Len(log) : log[i] = "delta" /\ log[j] = "delta" => i = j

Received == \E i \in 1..Len(log) : i <= lastSeq /\ log[i] = "delta"

TextInv == OneDelta /\ text \in 0..2 /\ (text = 2 => Received)

LEMMA EmitKeepsText ==
  ASSUME IInv, TextInv, NEW e \in Emitters, Emit(e)
  PROVE  TextInv'
  <1>1. PICK batch \in {<<"step">>, <<"delta">>, <<"step", "done">>} :
          /\ batch = <<"delta">> => ~Stored
          /\ log' = log \o batch
    BY DEF Emit
  <1>2. UNCHANGED <<lastSeq, text>>
    BY DEF Emit, clientVars
  <1>3. log \in Seq({"step", "delta", "done"})
    BY DEF IInv, Types
  <1>4. /\ Len(log) \in Nat /\ Len(log') \in Nat /\ Len(log) <= Len(log')
        /\ \A i \in 1..Len(log) : log'[i] = log[i]
        /\ batch = <<"delta">> => Len(log') = Len(log) + 1
        /\ batch # <<"delta">> => \A i \in 1..Len(log') : i > Len(log) => log'[i] # "delta"
    <2>1. CASE batch = <<"step">>
      BY <1>1, <1>3, <2>1
    <2>2. CASE batch = <<"delta">>
      BY <1>1, <1>3, <2>2
    <2>3. CASE batch = <<"step", "done">>
      BY <1>1, <1>3, <2>3
    <2> QED
      BY <1>1, <2>1, <2>2, <2>3
  <1>5. OneDelta'
    <2> SUFFICES ASSUME NEW i \in 1..Len(log'), NEW j \in 1..Len(log'),
                        log'[i] = "delta", log'[j] = "delta"
                 PROVE  i = j
      BY DEF OneDelta
    <2>1. CASE batch = <<"delta">>
      <3>1. \A k \in 1..Len(log) : log[k] # "delta"
        BY <1>1, <2>1 DEF Stored
      <3>2. i = Len(log) + 1 /\ j = Len(log) + 1
        BY <1>4, <2>1, <3>1
      <3> QED
        BY <3>2
    <2>2. CASE batch # <<"delta">>
      <3>1. i \in 1..Len(log) /\ j \in 1..Len(log)
        BY <1>4, <2>2
      <3> QED
        BY <1>4, <3>1 DEF TextInv, OneDelta
    <2> QED
      BY <2>1, <2>2
  <1>6. Received => Received'
    BY <1>2, <1>4 DEF Received
  <1> QED
    BY <1>2, <1>5, <1>6 DEF TextInv

LEMMA ReceiveKeepsText ==
  ASSUME IInv, TextInv, Receive
  PROVE  TextInv'
  <1> DEFINE seq == Head(wire)
  <1>1. /\ UNCHANGED log
        /\ Newer(seq) => /\ lastSeq' = seq
                         /\ text' = IF log[seq] = "delta" THEN text + 1 ELSE text
        /\ ~Newer(seq) => UNCHANGED <<lastSeq, text>>
    BY DEF Receive
  <1>2. seq \in 1..Len(log)
    <2>1. wire \in Seq(Seqs) /\ wire # <<>> /\ \A i \in 1..Len(wire) : wire[i] <= Len(log)
      BY DEF IInv, Types, Committed, Receive
    <2>2. seq \in Seqs /\ seq <= Len(log)
      BY <2>1, TailIn, TailBound
    <2> QED
      BY <2>2, EventBoundsAssumption DEF Seqs, IInv, Types
  <1>3. lastSeq \in Nat /\ Len(log) \in Nat
    BY EventBoundsAssumption DEF IInv, Types
  <1> HIDE DEF seq
  <1>4. CASE Newer(seq) /\ log[seq] = "delta"
    <2>1. ~Received
      BY <1>2, <1>3, <1>4 DEF Received, Newer, TextInv, OneDelta
    <2>2. text \in 0..1 /\ text' = text + 1
      BY <1>1, <1>4, <2>1 DEF TextInv
    <2>3. Received'
      BY <1>1, <1>2, <1>3, <1>4 DEF Received
    <2> QED
      BY <1>1, <2>2, <2>3 DEF TextInv, OneDelta
  <1>5. CASE Newer(seq) /\ log[seq] # "delta"
    <2>1. text' = text /\ lastSeq' = seq
      BY <1>1, <1>5
    <2>2. Received => Received'
      BY <1>1, <1>2, <1>3, <1>5, <2>1 DEF Received, Newer
    <2> QED
      BY <1>1, <2>1, <2>2 DEF TextInv, OneDelta
  <1>6. CASE ~Newer(seq)
    BY <1>1, <1>6 DEF TextInv, OneDelta, Received
  <1> QED
    BY <1>4, <1>5, <1>6

LEMMA StepKeepsText == IInv /\ TextInv /\ [Next]_vars => TextInv'
  <1> SUFFICES ASSUME IInv, TextInv, [Next]_vars PROVE TextInv'
    OBVIOUS
  <1>1. UNCHANGED <<log, lastSeq, text>> => TextInv'
    BY DEF TextInv, OneDelta, Received
  <1>2. UNCHANGED log /\ text' \in 0..1 => TextInv'
    BY DEF TextInv, OneDelta
  <1>3. CASE \E e \in Emitters : Emit(e) \/ Publish(e) \/ PublishFails(e)
    BY <1>1, <1>3, EmitKeepsText DEF Publish, PublishFails, clientVars
  <1>4. CASE Activate \/ LoadHistory
    BY <1>2, <1>4 DEF Activate, LoadHistory
  <1>5. CASE Open \/ Subscribe \/ ReplayLatest \/ ReplayResumed
    BY <1>1, <1>5 DEF Open, Subscribe, ReplayLatest, ReplayResumed, clientVars
  <1>6. CASE SendReplayed \/ Forward \/ Disconnect
    BY <1>1, <1>6 DEF SendReplayed, Forward, Disconnect, clientVars
  <1>7. CASE Receive
    BY <1>7, ReceiveKeepsText
  <1>8. CASE ApplyLoad
    BY <1>1, <1>8 DEF ApplyLoad, serverVars
  <1>9. CASE UNCHANGED vars
    BY <1>1, <1>9 DEF vars, serverVars, clientVars
  <1> QED
    BY <1>3, <1>4, <1>5, <1>6, <1>7, <1>8, <1>9 DEF Next

(* However replays, reconnects and live events overlap, and whatever was      *)
(* stored when the conversation was opened, the page adds the text of the      *)
(* task's message once (chat.ts:93-97, 134).                                  *)
THEOREM TextAddedOnce == Spec => []TextAtMostTwice
  <1>1. Init => TextInv
    BY DEF Init, TextInv, OneDelta
  <1>2. TextInv => TextAtMostTwice
    BY DEF TextInv, TextAtMostTwice
  <1> QED
    BY SpecIInv, StepKeepsText, <1>1, <1>2, PTL DEF Spec

===============================================================================
