--------------------------- MODULE StartupProofs ----------------------------
(***************************************************************************)
(* Proofs about the process from its start to its exit and about its audit *)
(* logger, for every set of configurations, any number of requests,        *)
(* signals and Close callers and any channel capacity.  IInv of            *)
(* AsyncLogger is inductive; the logger's safety properties and the        *)
(* refinement of AuditLog follow from it.  LInv of Lifecycle, whose first  *)
(* conjunct is IInv, is preserved from Run on.  SInv of Startup is         *)
(* inductive: before Run nothing is served and each step of Build finds    *)
(* what the earlier ones have made; from Run on LInv holds.                *)
(***************************************************************************)
EXTENDS Startup, SequenceTheorems, FiniteSetTheorems, TLAPS

-----------------------------------------------------------------------------
(* Sequences.                                                              *)

\* Appending to the last part of a concatenation appends to the whole: what
\* a send on the channel does to the hand-over order.
LEMMA AppendToLast ==
  ASSUME NEW s \in Seq(Events), NEW u \in Seq(Events), NEW e \in Events
  PROVE  Append(s \o u, e) = s \o Append(u, e)
<1>1. s \o u \in Seq(Events) /\ <<e>> \in Seq(Events)
  BY ConcatProperties
<1>2. Append(s \o u, e) = (s \o u) \o <<e>>
  BY <1>1, AppendIsConcat
<1>3. Append(u, e) = u \o <<e>>
  BY AppendIsConcat
<1>4. (s \o u) \o <<e>> = s \o (u \o <<e>>)
  BY <1>1, ConcatAssociative
<1> QED
  BY <1>2, <1>3, <1>4

\* A receive moves the head of the channel into the worker's hands.
LEMMA HeadThenTail ==
  ASSUME NEW s \in Seq(Events), NEW u \in Seq(Events), u # <<>>
  PROVE  s \o <<>> \o u = s \o <<Head(u)>> \o Tail(u)
<1>1. Head(u) \in Events /\ Tail(u) \in Seq(Events)
  BY HeadTailProperties
<1>2. u = <<Head(u)>> \o Tail(u)
  <2>1. <<Head(u)>> \in Seq(Events) /\ Len(<<Head(u)>>) = 1 /\ <<Head(u)>>[1] = Head(u)
    BY <1>1
  <2>2. Len(u) \in Nat \ {0} /\ Len(Tail(u)) = Len(u) - 1
    BY EmptySeq, HeadTailProperties
  <2>3. <<Head(u)>> \o Tail(u) \in Seq(Events) /\ Len(<<Head(u)>> \o Tail(u)) = Len(u)
    BY <1>1, <2>1, <2>2, ConcatProperties
  <2>4. \A i \in 1..Len(u) : u[i] = (<<Head(u)>> \o Tail(u))[i]
    BY <1>1, <2>1, <2>2, HeadTailProperties, ConcatProperties
  <2> QED
    BY <2>3, <2>4, SeqEqual
<1>3. s \o <<>> = s
  BY ConcatEmptySeq
<1>4. (s \o <<Head(u)>>) \o Tail(u) = s \o (<<Head(u)>> \o Tail(u))
  BY <1>1, ConcatAssociative
<1> QED
  BY <1>2, <1>3, <1>4

\* The end of a write settles what the worker held.
LEMMA SettleHeld ==
  ASSUME NEW s \in Seq(Events), NEW u \in Seq(Events), NEW e \in Events
  PROVE  s \o <<e>> \o u = Append(s, e) \o <<>> \o u
<1>1. Append(s, e) = s \o <<e>>
  BY AppendIsConcat
<1>2. Append(s, e) \in Seq(Events)
  BY AppendProperties
<1> QED
  BY <1>1, <1>2, ConcatEmptySeq

-----------------------------------------------------------------------------
(* Each part of IInv is kept by every step.                                *)

\* Types are kept; the worker holds an event exactly while it writes, so that
\* what Write appends is an event.
LEMMA TypeStep ==
  TypeOK /\ WorkerHolds /\ [Next]_vars => TypeOK' /\ WorkerHolds'
<1> SUFFICES ASSUME TypeOK, WorkerHolds, [Next]_vars
             PROVE  TypeOK' /\ WorkerHolds'
  OBVIOUS
<1> USE AsyncAssumption DEF LogStates, WorkerStates, CloseStates, histVars
<1>1. ASSUME NEW e \in Events, Enqueue(e)
      PROVE  TypeOK' /\ WorkerHolds'
  <2>1. ch' \in Seq(Events) /\ accepted' \in Seq(Events) /\ Len(ch') = Len(ch) + 1
    BY <1>1, AppendProperties DEF Enqueue, TypeOK
  <2>2. Len(ch') <= BufferSize
    BY <1>1, <2>1, LenProperties DEF Enqueue, TypeOK
  <2> QED
    BY <1>1, <2>1, <2>2 DEF Enqueue, TypeOK, WorkerHolds
<1>2. ASSUME NEW e \in Events, BufferFull(e)
      PROVE  TypeOK' /\ WorkerHolds'
  BY <1>2 DEF BufferFull, TypeOK, WorkerHolds
<1>3. ASSUME NEW e \in Events, CountDrop(e)
      PROVE  TypeOK' /\ WorkerHolds'
  BY <1>3 DEF CountDrop, TypeOK, WorkerHolds
<1>4. CASE Receive
  <2>1. /\ Head(ch) \in Events /\ Tail(ch) \in Seq(Events)
        /\ Len(ch) \in Nat /\ Len(Tail(ch)) = Len(ch) - 1
    BY <1>4, HeadTailProperties, LenProperties DEF Receive, TypeOK
  <2> QED
    BY <1>4, <2>1 DEF Receive, TypeOK, WorkerHolds
<1>5. CASE SeeStop
  BY <1>5 DEF SeeStop, TypeOK, WorkerHolds
<1>6. CASE Drained
  BY <1>6 DEF Drained, TypeOK, WorkerHolds
<1>7. CASE Write
  <2>1. inflight \in Events
    BY <1>7 DEF Write, TypeOK, WorkerHolds
  <2>2. store' \in Seq(Events) /\ settled' \in Seq(Events)
    <3>1. store \in Seq(Events) /\ settled \in Seq(Events)
      BY DEF TypeOK
    <3>2. Append(store, inflight) \in Seq(Events) /\ Append(settled, inflight) \in Seq(Events)
      BY <2>1, <3>1, AppendProperties
    <3> QED
      BY <1>7, <3>1, <3>2 DEF Write
  <2> QED
    BY <1>7, <2>2 DEF Write, TypeOK, WorkerHolds
<1>8. ASSUME NEW c \in Closers, CallClose(c)
      PROVE  TypeOK' /\ WorkerHolds'
  BY <1>8, LenProperties DEF CallClose, TypeOK, WorkerHolds
<1>9. ASSUME NEW c \in Closers, ReturnFromClose(c)
      PROVE  TypeOK' /\ WorkerHolds'
  BY <1>9 DEF ReturnFromClose, TypeOK, WorkerHolds
<1>10. CASE UNCHANGED vars
  BY <1>10 DEF vars, TypeOK, WorkerHolds
<1> QED
  BY <1>1, <1>2, <1>3, <1>4, <1>5, <1>6, <1>7, <1>8, <1>9, <1>10
     DEF Next, LogStep, WorkerStep, CloseStep

\* The hand-over order survives a send, a receive and the end of a write.
LEMMA OrderStep ==
  TypeOK /\ WorkerHolds /\ HandedOverInOrder /\ [Next]_vars => HandedOverInOrder'
<1> SUFFICES ASSUME TypeOK, WorkerHolds, HandedOverInOrder, [Next]_vars
             PROVE  HandedOverInOrder'
  OBVIOUS
<1> USE AsyncAssumption
<1>0. InFlight \in Seq(Events)
  BY DEF InFlight, TypeOK
<1>1. ASSUME NEW e \in Events, Enqueue(e)
      PROVE  HandedOverInOrder'
  <2>1. Append(settled \o InFlight \o ch, e) = settled \o InFlight \o Append(ch, e)
    <3>1. settled \o InFlight \in Seq(Events) /\ ch \in Seq(Events)
      BY <1>0, ConcatProperties DEF TypeOK
    <3> QED
      BY <1>1, <3>1, AppendToLast, Zenon
  <2>2. InFlight' = InFlight
    BY <1>1 DEF Enqueue, InFlight
  <2> QED
    BY <1>1, <2>1, <2>2 DEF Enqueue, HandedOverInOrder
<1>2. CASE Receive
  <2>1. InFlight = <<>> /\ ch # <<>>
    BY <1>2 DEF Receive, InFlight, WorkerHolds
  <2>2. InFlight' = <<Head(ch)>>
    <3>1. Head(ch) \in Events
      BY <1>2, HeadTailProperties DEF Receive, TypeOK
    <3> QED
      BY <1>2, <3>1 DEF Receive, InFlight
  <2>3. settled \o <<>> \o ch = settled \o <<Head(ch)>> \o Tail(ch)
    BY <2>1, HeadThenTail DEF TypeOK
  <2> QED
    BY <1>2, <2>1, <2>2, <2>3 DEF Receive, HandedOverInOrder, histVars
<1>3. CASE Write
  <2>1. inflight \in Events /\ InFlight = <<inflight>>
    BY <1>3 DEF Write, TypeOK, WorkerHolds, InFlight
  <2>2. InFlight' = <<>>
    BY <1>3 DEF Write, InFlight
  <2>3. settled \o <<inflight>> \o ch = Append(settled, inflight) \o <<>> \o ch
    <3>1. settled \in Seq(Events) /\ ch \in Seq(Events)
      BY DEF TypeOK
    <3> QED
      BY <2>1, <3>1, SettleHeld, Zenon
  <2> QED
    BY <1>3, <2>1, <2>2, <2>3 DEF Write, HandedOverInOrder
<1>4. ASSUME UNCHANGED <<accepted, settled, inflight, ch>>
      PROVE  HandedOverInOrder'
  BY <1>4 DEF HandedOverInOrder, InFlight
<1>5. ASSUME NEW e \in Events, BufferFull(e) \/ CountDrop(e)
      PROVE  HandedOverInOrder'
  BY <1>4, <1>5 DEF BufferFull, CountDrop, histVars
<1>6. ASSUME SeeStop \/ Drained
      PROVE  HandedOverInOrder'
  BY <1>4, <1>6 DEF SeeStop, Drained, histVars
<1>7. ASSUME NEW c \in Closers, CallClose(c) \/ ReturnFromClose(c)
      PROVE  HandedOverInOrder'
  BY <1>4, <1>7 DEF CallClose, ReturnFromClose, histVars
<1>8. CASE UNCHANGED vars
  BY <1>4, <1>8 DEF vars
<1> QED
  BY <1>1, <1>2, <1>3, <1>5, <1>6, <1>7, <1>8
     DEF Next, LogStep, WorkerStep, CloseStep

\* No Log call is accepted twice: only a new call enters the channel, and it
\* is no longer new when it has.
LEMMA AcceptedOnceStep ==
  TypeOK /\ AcceptedOnce /\ [Next]_vars => AcceptedOnce'
<1> SUFFICES ASSUME TypeOK, AcceptedOnce, [Next]_vars
             PROVE  AcceptedOnce'
  OBVIOUS
<1>0. DOMAIN accepted = 1..Len(accepted) /\ Len(accepted) \in Nat
      /\ \A i \in DOMAIN accepted : accepted[i] \in Events
  BY LenProperties, ElementOfSeq DEF TypeOK
<1>1. ASSUME NEW e \in Events, Enqueue(e)
      PROVE  AcceptedOnce'
  <2>1. /\ DOMAIN accepted' = 1..(Len(accepted) + 1)
        /\ \A i \in DOMAIN accepted : accepted'[i] = accepted[i]
        /\ accepted'[Len(accepted) + 1] = e
    <3>1. accepted \in Seq(Events)
      BY DEF TypeOK
    <3>2. accepted' = Append(accepted, e)
      BY <1>1 DEF Enqueue
    <3> QED
      BY <1>0, <3>1, <3>2, AppendProperties, LenProperties
  <2>2. logger' = [logger EXCEPT ![e] = "returned"] /\ logger[e] = "new"
    BY <1>1 DEF Enqueue
  <2>3. \A i \in DOMAIN accepted : accepted[i] # e
    BY <2>2 DEF AcceptedOnce
  <2>4. \A i \in DOMAIN accepted' : logger'[accepted'[i]] = "returned"
    BY <1>0, <2>1, <2>2, <2>3 DEF AcceptedOnce, TypeOK
  <2>5. \A i, j \in DOMAIN accepted' : accepted'[i] = accepted'[j] => i = j
    BY <1>0, <2>1, <2>3 DEF AcceptedOnce
  <2> QED
    BY <2>4, <2>5 DEF AcceptedOnce
<1>2. ASSUME NEW e \in Events, BufferFull(e) \/ CountDrop(e)
      PROVE  AcceptedOnce'
  <2>1. accepted' = accepted /\ logger[e] # "returned"
    BY <1>2 DEF BufferFull, CountDrop, histVars
  <2>2. \A f \in Events : f # e => logger'[f] = logger[f]
    BY <1>2 DEF BufferFull, CountDrop, TypeOK
  <2> QED
    BY <1>0, <2>1, <2>2 DEF AcceptedOnce
<1>3. ASSUME UNCHANGED <<logger, accepted>>
      PROVE  AcceptedOnce'
  BY <1>3 DEF AcceptedOnce
<1>4. CASE WorkerStep
  BY <1>3, <1>4 DEF WorkerStep, Receive, SeeStop, Drained, Write, histVars
<1>5. CASE CloseStep
  BY <1>3, <1>5 DEF CloseStep, CallClose, ReturnFromClose, histVars
<1>6. CASE UNCHANGED vars
  BY <1>3, <1>6 DEF vars
<1> QED
  BY <1>1, <1>2, <1>4, <1>5, <1>6 DEF Next, LogStep

\* A Log call that returns adds one to the accepted events or one to the drop
\* counter; no other step returns from Log or touches either.
LEMMA DropsStep ==
  TypeOK /\ DropsAreCounted /\ [Next]_vars => DropsAreCounted'
<1> SUFFICES ASSUME TypeOK, DropsAreCounted, [Next]_vars
             PROVE  DropsAreCounted'
  OBVIOUS
<1>0. IsFiniteSet(Returned)
  BY AsyncAssumption, FS_Subset DEF Returned
<1>1. ASSUME NEW e \in Events, e \notin Returned,
             logger' = [logger EXCEPT ![e] = "returned"]
      PROVE  Cardinality(Returned') = Cardinality(Returned) + 1
  <2>1. Returned' = Returned \cup {e}
    BY <1>1 DEF Returned, TypeOK
  <2> QED
    BY <1>0, <1>1, <2>1, FS_AddElement
<1>2. Len(accepted) \in Nat /\ dropped \in Nat /\ Cardinality(Returned) \in Nat
  BY <1>0, LenProperties, FS_CardinalityType DEF TypeOK
<1>3. ASSUME NEW e \in Events, Enqueue(e)
      PROVE  DropsAreCounted'
  <2>1. e \notin Returned /\ logger' = [logger EXCEPT ![e] = "returned"]
    BY <1>3 DEF Enqueue, Returned
  <2>2. Len(accepted') = Len(accepted) + 1 /\ dropped' = dropped
    BY <1>3, AppendProperties DEF Enqueue, TypeOK
  <2>3. Cardinality(Returned') = Cardinality(Returned) + 1
    BY <1>1, <2>1
  <2> QED
    BY <1>2, <2>2, <2>3 DEF DropsAreCounted
<1>4. ASSUME NEW e \in Events, CountDrop(e)
      PROVE  DropsAreCounted'
  <2>1. e \notin Returned /\ logger' = [logger EXCEPT ![e] = "returned"]
    BY <1>4 DEF CountDrop, Returned
  <2>2. accepted' = accepted /\ dropped' = dropped + 1
    BY <1>4 DEF CountDrop, histVars
  <2>3. Cardinality(Returned') = Cardinality(Returned) + 1
    BY <1>1, <2>1
  <2> QED
    BY <1>2, <2>2, <2>3 DEF DropsAreCounted
<1>5. ASSUME NEW e \in Events, BufferFull(e)
      PROVE  DropsAreCounted'
  <2>1. Returned' = Returned
    BY <1>5 DEF BufferFull, Returned, TypeOK
  <2> QED
    BY <1>5, <2>1 DEF BufferFull, histVars, DropsAreCounted
<1>6. ASSUME UNCHANGED <<logger, accepted, dropped>>
      PROVE  DropsAreCounted'
  BY <1>6 DEF DropsAreCounted, Returned
<1>7. CASE WorkerStep
  BY <1>6, <1>7 DEF WorkerStep, Receive, SeeStop, Drained, Write, histVars
<1>8. CASE CloseStep
  BY <1>6, <1>8 DEF CloseStep, CallClose, ReturnFromClose, histVars
<1>9. CASE UNCHANGED vars
  BY <1>6, <1>9 DEF vars
<1> QED
  BY <1>3, <1>4, <1>5, <1>7, <1>8, <1>9 DEF Next, LogStep

\* The first part of a concatenation is its prefix.
LEMMA FirstIsPrefix ==
  ASSUME NEW s \in Seq(Events), NEW t \in Seq(Events), NEW u \in Seq(Events)
  PROVE  /\ s \o t \o u \in Seq(Events)
         /\ Len(s \o t \o u) = Len(s) + Len(t) + Len(u)
         /\ \A k \in 1..Len(s) : (s \o t \o u)[k] = s[k]
<1>1. s \o t \in Seq(Events) /\ Len(s \o t) = Len(s) + Len(t)
  BY ConcatProperties
<1>2. Len(s) \in Nat /\ Len(t) \in Nat /\ Len(u) \in Nat
  BY LenProperties
<1>3. \A k \in 1..Len(s) : (s \o t)[k] = s[k]
  BY <1>2, ConcatProperties
<1>4. \A k \in 1..Len(s \o t) : (s \o t \o u)[k] = (s \o t)[k]
  BY <1>1, <1>2, ConcatProperties
<1> QED
  BY <1>1, <1>2, <1>3, <1>4, ConcatProperties

\* What is settled is a prefix of what was accepted, without repetitions.
LEMMA SettledIsPrefix ==
  TypeOK /\ HandedOverInOrder /\ AcceptedOnce =>
    /\ Len(settled) \in Nat /\ DOMAIN settled = 1..Len(settled)
    /\ Len(settled) <= Len(accepted)
    /\ \A k \in DOMAIN settled : settled[k] = accepted[k]
    /\ \A k, l \in DOMAIN settled : settled[k] = settled[l] => k = l
<1> SUFFICES ASSUME TypeOK, HandedOverInOrder, AcceptedOnce
             PROVE  /\ Len(settled) \in Nat /\ DOMAIN settled = 1..Len(settled)
                    /\ Len(settled) <= Len(accepted)
                    /\ \A k \in DOMAIN settled : settled[k] = accepted[k]
                    /\ \A k, l \in DOMAIN settled : settled[k] = settled[l] => k = l
  OBVIOUS
<1>1. settled \in Seq(Events) /\ ch \in Seq(Events) /\ InFlight \in Seq(Events)
  BY DEF TypeOK, InFlight
<1>2. /\ Len(settled) \in Nat /\ DOMAIN settled = 1..Len(settled)
      /\ Len(ch) \in Nat /\ Len(InFlight) \in Nat
  BY <1>1, LenProperties
<1>3. /\ Len(accepted) = Len(settled) + Len(InFlight) + Len(ch)
      /\ \A k \in 1..Len(settled) : accepted[k] = settled[k]
  BY <1>1, FirstIsPrefix DEF HandedOverInOrder
<1>4. DOMAIN accepted = 1..Len(accepted)
  BY LenProperties DEF TypeOK
<1> QED
  BY <1>2, <1>3, <1>4 DEF AcceptedOnce

\* A write adds the newest settled event, or nothing, to the store.
LEMMA StoreStep ==
  ASSUME TypeOK, WorkerHolds, HandedOverInOrder, AcceptedOnce,
         StoredIsSettled, WrittenInOrder, [Next]_vars
  PROVE  StoredIsSettled' /\ WrittenInOrder'
<1>1. CASE Write
  <2>1. TypeOK' /\ HandedOverInOrder' /\ AcceptedOnce'
    BY TypeStep, OrderStep, AcceptedOnceStep
  <2>2. /\ DOMAIN settled' = 1..Len(settled')
        /\ \A k, l \in DOMAIN settled' : settled'[k] = settled'[l] => k = l
    <3>1. (TypeOK /\ HandedOverInOrder /\ AcceptedOnce)' =>
            (/\ DOMAIN settled = 1..Len(settled)
             /\ \A k, l \in DOMAIN settled : settled[k] = settled[l] => k = l)'
      BY SettledIsPrefix, PTL
    <3> QED
      BY <2>1, <3>1
  <2>3. inflight \in Events /\ settled \in Seq(Events) /\ store \in Seq(Events)
    BY <1>1 DEF Write, TypeOK, WorkerHolds
  <2> DEFINE n == Len(settled)
             m == Len(store)
  <2>4. /\ n \in Nat /\ DOMAIN settled = 1..n /\ DOMAIN settled' = 1..(n + 1)
        /\ settled'[n + 1] = inflight
        /\ \A k \in 1..n : settled'[k] = settled[k]
    BY <1>1, <2>2, <2>3, AppendProperties, LenProperties DEF Write
  <2>5. m \in Nat /\ DOMAIN store = 1..m
    BY <2>3, LenProperties
  <2> HIDE DEF n, m
  <2>6. CASE store' = store
    <3>1. ASSUME NEW i \in DOMAIN store'
          PROVE  \E k \in DOMAIN settled' : settled'[k] = store'[i]
      <4>1. PICK k \in 1..n : settled[k] = store[i]
        BY <2>4, <2>6 DEF StoredIsSettled
      <4>2. k \in DOMAIN settled' /\ settled'[k] = store'[i]
        BY <2>4, <2>6, <4>1
      <4> QED
        BY <4>2
    <3>2. ASSUME NEW i \in DOMAIN store', NEW j \in DOMAIN store', i < j
          PROVE  \E k, l \in DOMAIN settled' :
                   /\ k < l
                   /\ settled'[k] = store'[i] /\ settled'[l] = store'[j]
                   /\ settled'[k] # settled'[l]
      <4>1. PICK k \in 1..n, l \in 1..n :
               /\ k < l
               /\ settled[k] = store[i] /\ settled[l] = store[j]
               /\ settled[k] # settled[l]
        BY <2>4, <2>6, <3>2 DEF WrittenInOrder
      <4>2. /\ k \in DOMAIN settled' /\ settled'[k] = settled[k]
            /\ l \in DOMAIN settled' /\ settled'[l] = settled[l]
        BY <2>4, <4>1
      <4> QED
        BY <2>6, <4>1, <4>2
    <3> QED
      BY <3>1, <3>2 DEF StoredIsSettled, WrittenInOrder
  <2>7. CASE store' = Append(store, inflight)
    <3>1. /\ DOMAIN store' = 1..(m + 1) /\ store'[m + 1] = inflight
          /\ \A i \in 1..m : store'[i] = store[i]
      BY <2>3, <2>5, <2>7, AppendProperties, LenProperties DEF m
    <3>2. StoredIsSettled'
      <4>1. \A i \in 1..m : \E k \in 1..n : settled[k] = store[i]
        BY <2>4, <2>5 DEF StoredIsSettled
      <4>2. ASSUME NEW i \in DOMAIN store'
            PROVE  \E k \in DOMAIN settled' : settled'[k] = store'[i]
        <5>1. CASE i = m + 1
          BY <2>4, <3>1, <5>1
        <5>2. CASE i \in 1..m
          BY <2>4, <3>1, <4>1, <5>2
        <5> QED
          BY <2>5, <3>1, <5>1, <5>2
      <4> QED
        BY <4>2 DEF StoredIsSettled
    <3>3. ASSUME NEW i \in DOMAIN store', NEW j \in DOMAIN store', i < j
          PROVE  \E k, l \in DOMAIN settled' :
                   /\ k < l
                   /\ settled'[k] = store'[i] /\ settled'[l] = store'[j]
                   /\ settled'[k] # settled'[l]
      <4>1. i \in 1..m
        BY <2>5, <3>1, <3>3
      <4>2. CASE j \in 1..m
        <5>1. PICK k \in 1..n, l \in 1..n :
                 /\ k < l
                 /\ settled[k] = store[i] /\ settled[l] = store[j]
                 /\ settled[k] # settled[l]
          BY <2>4, <2>5, <3>3, <4>1, <4>2 DEF WrittenInOrder
        <5>2. /\ k \in DOMAIN settled' /\ settled'[k] = settled[k]
              /\ l \in DOMAIN settled' /\ settled'[l] = settled[l]
          BY <2>4, <5>1
        <5>3. store'[i] = store[i] /\ store'[j] = store[j]
          BY <3>1, <4>1, <4>2
        <5> QED
          BY <5>1, <5>2, <5>3
      <4>3. CASE j = m + 1
        <5>1. PICK k \in 1..n : settled[k] = store[i]
          BY <2>4, <2>5, <4>1 DEF StoredIsSettled
        <5>2. k < n + 1 /\ k \in DOMAIN settled' /\ n + 1 \in DOMAIN settled'
          BY <2>4
        <5>3. settled'[k] # settled'[n + 1]
          BY <2>2, <2>4, <5>2
        <5> QED
          BY <2>4, <3>1, <4>1, <4>3, <5>1, <5>2, <5>3
      <4> QED
        BY <2>5, <3>1, <4>2, <4>3
    <3> QED
      BY <3>2, <3>3 DEF WrittenInOrder
  <2> QED
    BY <1>1, <2>6, <2>7 DEF Write
<1>2. ASSUME UNCHANGED <<store, settled>>
      PROVE  StoredIsSettled' /\ WrittenInOrder'
  BY <1>2 DEF StoredIsSettled, WrittenInOrder
<1>3. CASE LogStep
  BY <1>2, <1>3 DEF LogStep, Enqueue, BufferFull, CountDrop, histVars
<1>4. CASE Receive \/ SeeStop \/ Drained
  BY <1>2, <1>4 DEF Receive, SeeStop, Drained, histVars
<1>5. CASE CloseStep
  BY <1>2, <1>5 DEF CloseStep, CallClose, ReturnFromClose, histVars
<1>6. CASE UNCHANGED vars
  BY <1>2, <1>6 DEF vars
<1> QED
  BY <1>1, <1>3, <1>4, <1>5, <1>6 DEF Next, WorkerStep

\* The worker leaves its drain loop only with an empty channel and empty
\* hands, so that nothing accepted before Close is still owed.
LEMMA StopStep ==
  ASSUME TypeOK, WorkerHolds, HandedOverInOrder, AcceptedOnce, StopOrder, [Next]_vars
  PROVE  StopOrder'
<1>0. /\ accepted \in Seq(Events) /\ settled \in Seq(Events)
      /\ Len(accepted) \in Nat /\ Len(settled) \in Nat /\ mark \in Nat
  BY LenProperties DEF TypeOK
<1>1. ASSUME NEW e \in Events, Enqueue(e)
      PROVE  StopOrder'
  <2>1. Len(accepted') = Len(accepted) + 1
    BY <1>0, <1>1, AppendProperties DEF Enqueue
  <2> QED
    BY <1>0, <1>1, <2>1 DEF Enqueue, StopOrder
<1>2. ASSUME NEW e \in Events, BufferFull(e) \/ CountDrop(e)
      PROVE  StopOrder'
  BY <1>2 DEF BufferFull, CountDrop, histVars, StopOrder
<1>3. CASE Receive
  BY <1>3 DEF Receive, histVars, StopOrder
<1>4. CASE SeeStop
  BY <1>4 DEF SeeStop, histVars, StopOrder
<1>5. CASE Drained
  <2>1. ch = <<>> /\ InFlight = <<>>
    BY <1>5 DEF Drained, WorkerHolds, InFlight
  <2>2. accepted = settled
    BY <1>0, <2>1, ConcatEmptySeq DEF HandedOverInOrder
  <2> QED
    BY <1>0, <1>5, <2>2 DEF Drained, histVars, StopOrder
<1>6. CASE Write
  <2>1. inflight \in Events
    BY <1>6 DEF Write, TypeOK, WorkerHolds
  <2>2. Len(settled') = Len(settled) + 1
    BY <1>0, <1>6, <2>1, AppendProperties DEF Write
  <2> QED
    BY <1>0, <1>6, <2>2 DEF Write, StopOrder
<1>7. ASSUME NEW c \in Closers, CallClose(c)
      PROVE  StopOrder'
  <2>1. closer'[c] = "waiting"
    BY <1>7 DEF CallClose, TypeOK
  <2>2. \A d \in Closers : closer'[d] = "closed" => closer[d] = "closed"
    BY <1>7 DEF CallClose, TypeOK
  <2> QED
    BY <1>0, <1>7, <2>1, <2>2 DEF CallClose, StopOrder
<1>8. ASSUME NEW c \in Closers, ReturnFromClose(c)
      PROVE  StopOrder'
  <2>1. \A d \in Closers : (closer'[d] # "open") <=> (closer[d] # "open")
    BY <1>8 DEF ReturnFromClose, TypeOK
  <2> QED
    BY <1>8, <2>1 DEF ReturnFromClose, histVars, StopOrder
<1>9. CASE UNCHANGED vars
  BY <1>9 DEF vars, StopOrder
<1> QED
  BY <1>1, <1>2, <1>3, <1>4, <1>5, <1>6, <1>7, <1>8, <1>9
     DEF Next, LogStep, WorkerStep, CloseStep

-----------------------------------------------------------------------------
(* The theorems.                                                           *)

\* NewAsyncLogger starts in a state that satisfies every part of IInv.
LEMMA InitIInv == Init => IInv
<1> SUFFICES ASSUME Init
             PROVE  IInv
  OBVIOUS
<1> USE AsyncAssumption DEF Init
<1>1. TypeOK
  <2>1. <<>> \in Seq(Events) /\ Len(<<>>) <= BufferSize
    BY EmptySeq
  <2>2. ch = <<>> /\ accepted = <<>> /\ settled = <<>> /\ store = <<>>
    OBVIOUS
  <2> QED
    BY <2>1, <2>2 DEF TypeOK, LogStates, WorkerStates, CloseStates
<1>2. WorkerHolds
  BY DEF WorkerHolds
<1>3. HandedOverInOrder
  BY EmptySeq, ConcatEmptySeq DEF HandedOverInOrder, InFlight
<1>4. AcceptedOnce /\ StoredIsSettled /\ WrittenInOrder
  BY DEF AcceptedOnce, StoredIsSettled, WrittenInOrder
<1>5. DropsAreCounted
  <2>1. Returned = {}
    BY DEF Returned
  <2> QED
    BY <2>1, FS_EmptySet DEF DropsAreCounted
<1>6. StopOrder
  BY DEF StopOrder
<1> QED
  BY <1>1, <1>2, <1>3, <1>4, <1>5, <1>6 DEF IInv

\* Every step of Log, the worker or Close preserves IInv.
LEMMA StepIInv == IInv /\ [Next]_vars => IInv'
  BY TypeStep, OrderStep, AcceptedOnceStep, DropsStep, StoreStep, StopStep DEF IInv

\* IInv is inductive.
THEOREM Inductive == Spec => []IInv
  BY InitIInv, StepIInv, PTL DEF Spec

\* The channel never exceeds its capacity and every variable keeps its type.
THEOREM TypeCorrect == Spec => []TypeOK
  BY Inductive, PTL DEF IInv

\* Every returned Log call is an accepted event or a counted drop.
THEOREM DropsCorrect == Spec => []DropsAreCounted
  BY Inductive, PTL DEF IInv

\* Events reach the inner Logger in the order of their Log calls.
THEOREM OrderCorrect == Spec => []HandedOverInOrder
  BY Inductive, PTL DEF IInv

\* The store holds accepted events only, each at most once and in order.
THEOREM StoreCorrect == Spec => []WrittenInOrder
  BY Inductive, PTL DEF IInv

\* Close returns only when everything accepted before it has been settled.
THEOREM CloseCorrect == Spec => []CloseWaitsForAccepted
<1>1. IInv => CloseWaitsForAccepted
  BY DEF IInv, StopOrder, CloseWaitsForAccepted
<1> QED
  BY Inductive, <1>1, PTL

-----------------------------------------------------------------------------
(* AsyncLogger implements the safety part of AuditLog.                     *)

\* Each step of the channel, the worker or a Close call is a step of AuditLog
\* or leaves its variables alone.
LEMMA StepImplements ==
  ASSUME IInv, [Next]_vars
  PROVE  [Abstract!AbsNext]_(Abstract!absVars)
<1> USE DEF Abstract!absVars, histVars
<1>0. TypeOK /\ WorkerHolds /\ HandedOverInOrder /\ AcceptedOnce /\ StopOrder
  BY DEF IInv
<1>1. ASSUME NEW e \in Events, Enqueue(e)
      PROVE  Abstract!AbsNext
  BY <1>1 DEF Enqueue, Abstract!AbsNext, Abstract!Accept
<1>2. ASSUME NEW e \in Events, CountDrop(e)
      PROVE  Abstract!AbsNext
  BY <1>2 DEF CountDrop, Abstract!AbsNext, Abstract!Refuse
<1>3. CASE Write
  <2>1. inflight \in Events /\ InFlight = <<inflight>>
    BY <1>0, <1>3 DEF Write, TypeOK, WorkerHolds, InFlight
  <2>2. settled \in Seq(Events) /\ ch \in Seq(Events)
    BY <1>0 DEF TypeOK
  <2>3. accepted = Append(settled, inflight) \o <<>> \o ch
    BY <1>0, <2>1, <2>2, SettleHeld DEF HandedOverInOrder
  <2>4. /\ Append(settled, inflight) \in Seq(Events) /\ <<>> \in Seq(Events)
        /\ Len(settled) \in Nat /\ Len(ch) \in Nat
        /\ Len(Append(settled, inflight)) = Len(settled) + 1
        /\ Append(settled, inflight)[Len(settled) + 1] = inflight
    BY <2>1, <2>2, AppendProperties, LenProperties, EmptySeq
  <2>5. Len(settled) < Len(accepted) /\ accepted[Len(settled) + 1] = inflight
    <3>1. /\ Len(accepted) = Len(settled) + 1 + Len(<<>>) + Len(ch)
          /\ \A k \in 1..(Len(settled) + 1) : accepted[k] = Append(settled, inflight)[k]
      BY <2>2, <2>3, <2>4, FirstIsPrefix
    <3>2. Len(settled) + 1 \in 1..(Len(settled) + 1)
      BY <2>4
    <3> QED
      BY <2>4, <3>1, <3>2, EmptySeq
  <2>6. Abstract!Settle
    BY <1>3, <2>5 DEF Write, Abstract!Settle
  <2> QED
    BY <2>6 DEF Abstract!AbsNext
<1>4. ASSUME NEW c \in Closers, CallClose(c)
      PROVE  Abstract!AbsNext
  <2>1. stop <=> Abstract!Closing
    BY <1>0 DEF StopOrder, Abstract!Closing
  <2>2. Abstract!CallClose(c)
    BY <1>4, <2>1 DEF CallClose, Abstract!CallClose
  <2> QED
    BY <2>2 DEF Abstract!AbsNext
<1>5. ASSUME NEW c \in Closers, ReturnFromClose(c)
      PROVE  Abstract!AbsNext
  <2>1. Abstract!ReturnFromClose(c)
    BY <1>0, <1>5 DEF ReturnFromClose, StopOrder, Abstract!ReturnFromClose
  <2> QED
    BY <2>1 DEF Abstract!AbsNext
<1>6. ASSUME NEW e \in Events, BufferFull(e)
      PROVE  UNCHANGED Abstract!absVars
  BY <1>6 DEF BufferFull
<1>7. CASE Receive \/ SeeStop \/ Drained
  BY <1>7 DEF Receive, SeeStop, Drained
<1>8. CASE UNCHANGED vars
  BY <1>8 DEF vars
<1> QED
  BY <1>1, <1>2, <1>3, <1>4, <1>5, <1>6, <1>7, <1>8
     DEF Next, LogStep, WorkerStep, CloseStep

\* The asynchronous pipeline keeps every safety promise of AuditLog: events
\* are accepted or counted as refused, settled in order, and Close returns
\* only when what it owes is settled.
THEOREM Refinement == Spec => Abstract!AbsSafety
<1>1. Init => Abstract!AbsInit
  BY DEF Init, Abstract!AbsInit
<1>2. IInv /\ [Next]_vars => [Abstract!AbsNext]_(Abstract!absVars)
  BY StepImplements
<1> QED
  BY <1>1, <1>2, Inductive, PTL DEF Spec, Abstract!AbsSafety

-----------------------------------------------------------------------------
(* Run and Close.                                                          *)

\* Seen from the audit logger a step of the process is a step of Log, of the
\* worker or of Close, or it leaves the logger alone.
LEMMA LoggerStep ==
  ASSUME [LNext]_lvars
  PROVE  [Next]_vars
<1> USE DEF lvars, serverVars
<1>1. ASSUME NEW r \in Events, RequestStep(r)
      PROVE  [Next]_vars
  <2>1. CASE CallLog(r)
    BY <2>1 DEF CallLog, Next, LogStep
  <2>2. CASE Arrive(r) \/ AuthenticateLocally(r) \/ BeginLookup(r) \/ EndLookup(r)
             \/ Handled(r) \/ Finish(r)
    BY <2>2 DEF Arrive, AuthenticateLocally, BeginLookup, EndLookup, Handled, Finish
  <2> QED
    BY <1>1, <2>1, <2>2 DEF RequestStep
<1>2. CASE Worker
  BY <1>2 DEF Worker, Next
<1>3. CASE CloseAudit \/ AuditClosed
  BY <1>3, LifecycleAssumption DEF CloseAudit, AuditClosed, Next, CloseStep
<1>4. CASE Listen \/ ListenerFails \/ ListenerEnds \/ Signal \/ DelayElapses
  BY <1>4 DEF Listen, ListenerFails, ListenerEnds, Signal, DelayElapses
<1>5. CASE ServeError \/ ShutdownRequested \/ EndDelay \/ RequestsDrained
           \/ GraceExpires \/ JoinListener \/ NoAuditToClose \/ ClosePool \/ Exit
  BY <1>5 DEF ServeError, ShutdownRequested, EndDelay, RequestsDrained, GraceExpires,
              JoinListener, NoAuditToClose, ClosePool, Exit
<1>6. CASE UNCHANGED lvars
  BY <1>6
<1> QED
  BY <1>1, <1>2, <1>3, <1>4, <1>5, <1>6 DEF LNext, MainStep

\* The state in which Build hands over to Run.
RunBegins ==
  /\ Init
  /\ phase = "serving" /\ result = "none" /\ signals \in 0..MaxSignals
  /\ ready = TRUE /\ inShutdown = FALSE
  /\ listener = "starting" /\ bound = FALSE /\ errBuf = FALSE /\ elapsed = FALSE
  /\ audited \in BOOLEAN
  /\ pool \in IF audited THEN {"open"} ELSE {"none", "open"}
  /\ request = [r \in Events |-> "none"]

\* Build hands over to Run in a state that satisfies every part of LInv.
LEMMA InitLInv == RunBegins => LInv
<1> SUFFICES ASSUME RunBegins
             PROVE  LInv
  OBVIOUS
<1> USE DEF RunBegins
<1>1. IInv /\ TypeOK
  BY InitIInv DEF IInv
<1>2. LTypeOK
  BY Zenon, <1>1 DEF LTypeOK, Phases, RequestStates
<1>3. CloseFollowsRun
  BY LifecycleAssumption DEF CloseFollowsRun, Init
<1>4. DrainedStaysDrained /\ LogInRequest /\ NothingLeftBehind /\ Unaudited
  BY DEF Init, DrainedStaysDrained, LogInRequest, NothingLeftBehind, Unaudited
<1>5. DrainOrder /\ NotReadyBeforeRefusing
  BY DEF DrainOrder, NotReadyBeforeRefusing
<1> QED
  BY <1>1, <1>2, <1>3, <1>4, <1>5 DEF LInv

\* A request's step preserves LInv: after a clean shutdown none is left to take
\* one, and Log is called from the audit middleware only.
LEMMA RequestStepLInv ==
  ASSUME LInv, NEW r \in Events, RequestStep(r)
  PROVE  LInv'
<1>0. IInv' /\ TypeOK'
  BY LoggerStep, StepIInv DEF LInv, LNext, IInv
<1> USE DEF LInv, LTypeOK, serverVars
<1>1. ASSUME Arrive(r) \/ AuthenticateLocally(r) \/ BeginLookup(r) \/ EndLookup(r)
             \/ Handled(r) \/ Finish(r)
      PROVE  LInv'
  <2>0. UNCHANGED vars /\ UNCHANGED serverVars
    BY <1>1 DEF Arrive, AuthenticateLocally, BeginLookup, EndLookup, Handled, Finish
  <2>1. request' \in [Events -> RequestStates]
    BY <1>1 DEF Arrive, AuthenticateLocally, BeginLookup, EndLookup, Handled, Finish,
                Move, RequestStates
  <2>2. DrainedStaysDrained'
    BY <1>1, <2>0 DEF Arrive, AuthenticateLocally, BeginLookup, EndLookup, Handled,
                      Finish, Move, DrainedStaysDrained, Active
  <2>3. LogInRequest'
    <3>1. \A q \in Events : logger'[q] = logger[q]
      BY <2>0 DEF vars
    <3>2. \A q \in Events : q # r => request'[q] = request[q]
      BY <1>1 DEF Arrive, AuthenticateLocally, BeginLookup, EndLookup, Handled,
                  Finish, Move
    <3>3. \/ request[r] \in {"none", "auth", "lookup", "handling"}
          \/ /\ request'[r] = "done"
             /\ logger[r] = "returned" \/ ~audited
      BY <1>1 DEF Arrive, AuthenticateLocally, BeginLookup, EndLookup, Handled,
                  Finish, Move
    <3>4. LogInRequest => (request[r] \in {"none", "auth", "lookup", "handling"} => logger[r] = "new")
      BY DEF LogInRequest
    <3>5. ~audited => logger[r] = "new"
      BY DEF Unaudited
    <3> QED
      BY <3>1, <3>2, <3>3, <3>4, <3>5 DEF LogInRequest
  <2>4. LTypeOK'
    BY <1>0, <2>0, <2>1
  <2>5. CloseFollowsRun' /\ NothingLeftBehind' /\ Unaudited' /\ DrainOrder'
        /\ NotReadyBeforeRefusing'
    BY <2>0 DEF vars, CloseFollowsRun, NothingLeftBehind, Unaudited, DrainOrder,
                NotReadyBeforeRefusing
  <2> QED
    BY <1>0, <2>2, <2>3, <2>4, <2>5
<1>2. ASSUME CallLog(r)
      PROVE  LInv'
  <2>0. /\ audited /\ UNCHANGED <<serverVars, request>>
        /\ Enqueue(r) \/ BufferFull(r) \/ CountDrop(r)
        /\ request[r] = "logging"
    BY <1>2 DEF CallLog
  <2>1. UNCHANGED closer /\ \A q \in Events : q # r => logger'[q] = logger[q]
    BY <2>0 DEF Enqueue, BufferFull, CountDrop, TypeOK
  <2>2. result # "nil"
    BY <2>0 DEF DrainedStaysDrained, Active
  <2>3. LogInRequest'
    BY <2>0, <2>1 DEF LogInRequest
  <2>4. LTypeOK'
    BY <1>0, <2>0
  <2>5. CloseFollowsRun' /\ DrainedStaysDrained' /\ NothingLeftBehind' /\ Unaudited'
        /\ DrainOrder' /\ NotReadyBeforeRefusing'
    BY <2>0, <2>1, <2>2 DEF CloseFollowsRun, DrainedStaysDrained, Active, Unaudited,
                            NothingLeftBehind, DrainOrder, NotReadyBeforeRefusing
  <2> QED
    BY <1>0, <2>3, <2>4, <2>5
<1> QED
  BY <1>1, <1>2 DEF RequestStep

\* A step of the worker preserves LInv: it ends only with an empty channel.
LEMMA WorkerLInv ==
  ASSUME LInv, Worker
  PROVE  LInv'
<1>0. IInv' /\ TypeOK'
  BY LoggerStep, StepIInv DEF LInv, LNext, IInv
<1>1. audited /\ WorkerStep /\ UNCHANGED <<serverVars, request>>
  BY DEF Worker
<1>2. UNCHANGED <<logger, closer>>
  BY <1>1 DEF WorkerStep, Receive, SeeStop, Drained, Write
<1>3. worker # "done" /\ (worker' = "done" => ch' = <<>>)
  BY <1>1 DEF WorkerStep, Receive, SeeStop, Drained, Write
<1> USE DEF LInv, LTypeOK, serverVars
<1>4. LTypeOK'
  BY <1>0, <1>1
<1>5. CloseFollowsRun' /\ DrainedStaysDrained' /\ LogInRequest' /\ NothingLeftBehind'
      /\ Unaudited' /\ DrainOrder' /\ NotReadyBeforeRefusing'
  BY <1>1, <1>2, <1>3 DEF CloseFollowsRun, DrainedStaysDrained, Active, LogInRequest,
                          NothingLeftBehind, Unaudited, DrainOrder, NotReadyBeforeRefusing
<1> QED
  BY <1>0, <1>4, <1>5

\* The listener goroutine, signals and the timer preserve LInv.
LEMMA AroundLInv ==
  ASSUME LInv, Listen \/ ListenerFails \/ ListenerEnds \/ Signal \/ DelayElapses
  PROVE  LInv'
<1>0. IInv' /\ TypeOK'
  BY LoggerStep, StepIInv DEF LInv, LNext, IInv
<1>1. UNCHANGED <<vars, phase, result, ready, inShutdown, audited, pool, request>>
  BY DEF Listen, ListenerFails, ListenerEnds, Signal, DelayElapses
<1> USE DEF LInv
<1>2. LTypeOK'
  <2>1. signals' \in 0..MaxSignals
    <3>1. signals' = signals \/ (signals < MaxSignals /\ signals' = signals + 1)
      BY DEF Listen, ListenerFails, ListenerEnds, Signal, DelayElapses
    <3> QED
      BY <3>1, LifecycleAssumption DEF LTypeOK
  <2>2. listener' \in {"starting", "serving", "failed", "ended"}
    BY DEF LTypeOK, Listen, ListenerFails, ListenerEnds, Signal, DelayElapses
  <2>3. /\ bound' = bound \/ bound' = TRUE
        /\ errBuf' = errBuf \/ errBuf' = TRUE
        /\ elapsed' = elapsed \/ elapsed' = TRUE
    BY DEF Listen, ListenerFails, ListenerEnds, Signal, DelayElapses
  <2>4. bound' \in BOOLEAN /\ errBuf' \in BOOLEAN /\ elapsed' \in BOOLEAN
    BY Zenon, <2>3 DEF LTypeOK
  <2> QED
    BY <1>0, <1>1, <2>1, <2>2, <2>4 DEF LTypeOK
<1>3. CloseFollowsRun' /\ DrainedStaysDrained' /\ LogInRequest' /\ NothingLeftBehind'
      /\ Unaudited' /\ DrainOrder' /\ NotReadyBeforeRefusing'
  BY <1>1 DEF vars, CloseFollowsRun, DrainedStaysDrained, Active, LogInRequest,
              NothingLeftBehind, Unaudited, DrainOrder, NotReadyBeforeRefusing
<1> QED
  BY <1>0, <1>2, <1>3

\* The main goroutine preserves LInv.  While Close has not been called the
\* worker does not end, so Run returns nil before the worker does.
LEMMA MainStepLInv ==
  ASSUME LInv, MainStep
  PROVE  LInv'
<1>0. IInv' /\ TypeOK'
  BY LoggerStep, StepIInv DEF LInv, LNext, IInv
<1>1. closer[Main] = "open" => worker # "done"
  BY LifecycleAssumption DEF LInv, IInv, StopOrder
<1>2. UNCHANGED <<logger, ch, dropped, worker, inflight, accepted, settled, audited, request>>
  BY Zenon
     DEF MainStep, ServeError, ShutdownRequested, EndDelay, RequestsDrained,
         GraceExpires, JoinListener, CloseAudit, NoAuditToClose, AuditClosed, ClosePool,
         Exit, CallClose, ReturnFromClose, vars, histVars
<1>3. CASE CloseAudit \/ AuditClosed
  <2>0. /\ audited
        /\ UNCHANGED <<result, signals, ready, inShutdown, listener, bound, errBuf, elapsed, pool>>
    BY <1>3, LifecycleAssumption
       DEF CloseAudit, AuditClosed, LInv, CloseFollowsRun, ReturnFromClose
  <2>1. \/ /\ phase = "closeAudit" /\ phase' = "waitAudit" /\ closer'[Main] = "waiting"
        \/ /\ phase = "waitAudit" /\ phase' = "closePool" /\ closer'[Main] = "closed"
    BY <1>3, LifecycleAssumption
       DEF CloseAudit, AuditClosed, CallClose, ReturnFromClose, LInv, IInv, TypeOK
  <2>2. LTypeOK'
    BY <1>0, <1>2, <2>0, <2>1 DEF LInv, LTypeOK, Phases
  <2>3. CloseFollowsRun'
    BY <1>2, <2>0, <2>1 DEF LInv, CloseFollowsRun
  <2>4. DrainedStaysDrained' /\ LogInRequest' /\ NothingLeftBehind' /\ Unaudited'
        /\ DrainOrder' /\ NotReadyBeforeRefusing'
    BY <1>2, <2>0, <2>1 DEF LInv, DrainedStaysDrained, Active, LogInRequest,
       NothingLeftBehind, Unaudited, DrainOrder, NotReadyBeforeRefusing
  <2> QED
    BY <1>0, <2>2, <2>3, <2>4 DEF LInv
<1>4. ASSUME ServeError \/ ShutdownRequested \/ EndDelay \/ RequestsDrained
             \/ GraceExpires \/ JoinListener \/ NoAuditToClose \/ ClosePool \/ Exit
      PROVE  LInv'
  <2>0. UNCHANGED <<mark, closer>>
    BY <1>4, Zenon
       DEF ServeError, ShutdownRequested, EndDelay, RequestsDrained, GraceExpires,
           JoinListener, NoAuditToClose, ClosePool, Exit, vars
  <2>1. LTypeOK'
    <3>1. phase' \in Phases
      <4>1. CASE ServeError \/ ShutdownRequested \/ EndDelay
        BY <4>1 DEF Phases, ServeError, ShutdownRequested, EndDelay
      <4>2. CASE RequestsDrained \/ GraceExpires \/ JoinListener
        BY <4>2 DEF Phases, RequestsDrained, GraceExpires, JoinListener
      <4>3. CASE NoAuditToClose \/ ClosePool \/ Exit
        BY <4>3 DEF Phases, NoAuditToClose, ClosePool, Exit
      <4> QED
        BY <1>4, <4>1, <4>2, <4>3
    <3>2. result' \in {"none", "nil", "error"}
      <4>1. CASE ServeError \/ ShutdownRequested \/ EndDelay
        BY <4>1 DEF LInv, LTypeOK, ServeError, ShutdownRequested, EndDelay
      <4>2. CASE RequestsDrained \/ GraceExpires \/ JoinListener
        BY <4>2 DEF LInv, LTypeOK, RequestsDrained, GraceExpires, JoinListener
      <4>3. CASE NoAuditToClose \/ ClosePool \/ Exit
        BY <4>3 DEF LInv, LTypeOK, NoAuditToClose, ClosePool, Exit
      <4> QED
        BY <1>4, <4>1, <4>2, <4>3
    <3>3. UNCHANGED <<signals, listener, bound, elapsed>>
      BY <1>4 DEF ServeError, ShutdownRequested, EndDelay, RequestsDrained, GraceExpires,
                  JoinListener, NoAuditToClose, ClosePool, Exit
    <3>4. ready' \in BOOLEAN /\ inShutdown' \in BOOLEAN
      <4>1. ready' = ready \/ ready' = FALSE
        BY <1>4 DEF ServeError, ShutdownRequested, EndDelay, RequestsDrained, GraceExpires,
                  JoinListener, NoAuditToClose, ClosePool, Exit
      <4>2. inShutdown' = inShutdown \/ inShutdown' = TRUE
        BY <1>4 DEF ServeError, ShutdownRequested, EndDelay, RequestsDrained, GraceExpires,
                  JoinListener, NoAuditToClose, ClosePool, Exit
      <4> QED
        BY Zenon, <4>1, <4>2 DEF LInv, LTypeOK
    <3>5. errBuf' \in BOOLEAN
      <4>1. errBuf' = errBuf \/ errBuf' = FALSE
        <5>1. CASE ServeError \/ ShutdownRequested \/ EndDelay
          BY <5>1 DEF ServeError, ShutdownRequested, EndDelay
        <5>2. CASE RequestsDrained \/ GraceExpires \/ JoinListener
          BY <5>2 DEF RequestsDrained, GraceExpires, JoinListener
        <5>3. CASE NoAuditToClose \/ ClosePool \/ Exit
          BY <5>3 DEF NoAuditToClose, ClosePool, Exit
        <5> QED
          BY <1>4, <5>1, <5>2, <5>3
      <4> QED
        BY Zenon, <4>1 DEF LInv, LTypeOK
    <3>6. pool' \in {"none", "open", "closing", "closed"}
      BY <1>4 DEF LInv, LTypeOK, ServeError, ShutdownRequested, EndDelay, RequestsDrained, GraceExpires,
                  JoinListener, NoAuditToClose, ClosePool, Exit
    <3> QED
      BY <1>0, <1>2, <3>1, <3>2, <3>3, <3>4, <3>5, <3>6 DEF LInv, LTypeOK
  <2>2. CloseFollowsRun'
    <3> USE <1>2, <2>0 DEF LInv, CloseFollowsRun
    <3>1. CASE ServeError \/ ShutdownRequested \/ EndDelay \/ RequestsDrained
               \/ GraceExpires \/ JoinListener
      BY <3>1 DEF ServeError, ShutdownRequested, EndDelay, RequestsDrained, GraceExpires,
                  JoinListener
    <3>2. CASE NoAuditToClose \/ ClosePool
      BY <3>2 DEF NoAuditToClose, ClosePool
    <3>3. CASE Exit
      BY <3>3 DEF Exit
    <3> QED
      BY <1>4, <3>1, <3>2, <3>3
  <2>3. DrainOrder' /\ NotReadyBeforeRefusing'
    <3> USE DEF LInv, DrainOrder, NotReadyBeforeRefusing
    <3>1. CASE ServeError \/ ShutdownRequested
      BY <3>1 DEF ServeError, ShutdownRequested
    <3>2. CASE EndDelay
      BY <3>2 DEF EndDelay
    <3>3. CASE RequestsDrained \/ GraceExpires \/ JoinListener
      BY <3>3 DEF RequestsDrained, GraceExpires, JoinListener
    <3>4. CASE NoAuditToClose \/ ClosePool \/ Exit
      BY <3>4 DEF NoAuditToClose, ClosePool, Exit
    <3> QED
      BY <1>4, <3>1, <3>2, <3>3, <3>4
  <2>4. DrainedStaysDrained'
    <3>1. phase' = "join" \/ result' = "nil" =>
            \/ phase = "join" \/ result = "nil"
            \/ phase = "draining" /\ \A r \in Events : ~Active(r)
      BY <1>4 DEF ServeError, ShutdownRequested, EndDelay, RequestsDrained, GraceExpires,
                  JoinListener, NoAuditToClose, ClosePool, Exit
    <3>2. inShutdown => inShutdown'
      BY Zenon, <1>4 DEF LInv, LTypeOK, ServeError, ShutdownRequested, EndDelay, RequestsDrained,
                  GraceExpires, JoinListener, NoAuditToClose, ClosePool, Exit
    <3>3. phase = "draining" => inShutdown
      BY DEF LInv, DrainOrder
    <3> QED
      BY SMTT(30), <1>2, <3>1, <3>2, <3>3 DEF LInv, DrainedStaysDrained, Active
  <2>5. NothingLeftBehind'
    <3>1. result' = "nil" => result = "nil" \/ phase = "join"
      BY <1>4 DEF ServeError, ShutdownRequested, EndDelay, RequestsDrained, GraceExpires,
                  JoinListener, NoAuditToClose, ClosePool, Exit
    <3>2. phase = "join" => worker # "done"
      BY <1>1 DEF LInv, CloseFollowsRun
    <3> QED
      BY SMTT(30), <1>2, <3>1, <3>2 DEF LInv, NothingLeftBehind
  <2>6. LogInRequest'
    BY <1>2 DEF LInv, LogInRequest
  <2>7. Unaudited'
    BY <1>2, <2>0 DEF LInv, Unaudited
  <2> QED
    BY <1>0, <2>1, <2>2, <2>3, <2>4, <2>5, <2>6, <2>7 DEF LInv
<1> QED
  BY <1>3, <1>4 DEF MainStep

\* LInv is preserved by every step of the process from Run on.
LEMMA StepLInv ==
  ASSUME LInv, [LNext]_lvars
  PROVE  LInv'
<1>1. CASE UNCHANGED lvars
  <2>1. IInv'
    BY LoggerStep, StepIInv DEF LInv
  <2>2. UNCHANGED vars /\ UNCHANGED serverVars /\ UNCHANGED request
    BY <1>1 DEF lvars
  <2>3. LTypeOK'
    BY <2>1, <2>2 DEF serverVars, LInv, IInv, LTypeOK
  <2>4. CloseFollowsRun' /\ DrainOrder' /\ NotReadyBeforeRefusing'
    BY <2>2 DEF vars, serverVars, LInv, CloseFollowsRun, DrainOrder, NotReadyBeforeRefusing
  <2>5. DrainedStaysDrained' /\ LogInRequest' /\ NothingLeftBehind' /\ Unaudited'
    BY <2>2 DEF vars, serverVars, LInv, DrainedStaysDrained, Active, LogInRequest,
                NothingLeftBehind, Unaudited
  <2> QED
    BY <2>1, <2>3, <2>4, <2>5 DEF LInv
<1> QED
  BY <1>1, RequestStepLInv, WorkerLInv, AroundLInv, MainStepLInv DEF LNext

-----------------------------------------------------------------------------
(* Build.                                                                  *)

\* A step before Run leaves the audit logger, the listener and the requests
\* alone, and either fails, goes on or calls Run.
LEMMA BootStepSInv ==
  ASSUME NotServing, BuildOrder, migrated \in BOOLEAN,
         BootStep \/ KilledEarly \/ SignalWhileBuilding
  PROVE  SInv'
<1> USE DEF At, Go, Fail, bootFrame, bootVars
<1>0. /\ phase = "building"
      /\ UNCHANGED <<vars, ready, inShutdown, listener, bound, errBuf, elapsed, request>>
  BY Zenon
     DEF BootStep, Load, MigrateUp, OpenPool, MakeAudit, MakeKeys, Discover, FetchKeys,
         MakeSessions, MakeLogin, CallRun, KilledEarly, SignalWhileBuilding, NotServing
<1>1. CASE CallRun
  <2>1. /\ phase' = "serving" /\ boot' = "run"
        /\ UNCHANGED <<result, signals, audited, pool>>
    BY <1>1 DEF CallRun
  <2>2. Init'
    BY <1>0 DEF NotServing, Init, vars
  <2>3. RunBegins'
    BY <1>0, <2>1, <2>2 DEF NotServing, RunBegins
  <2>4. RunBegins' => LInv'
    BY InitLInv, PTL
  <2> QED
    BY <2>1, <2>3, <2>4 DEF SInv
<1>2. ASSUME BootStep \/ KilledEarly \/ SignalWhileBuilding, ~CallRun
      PROVE  SInv'
  <2>1. /\ phase' \in {"building", "exited"}
        /\ result' = IF phase' = "building" THEN "none" ELSE "error"
    BY <1>0, <1>2, Zenon DEF BootStep, Load, MigrateUp, OpenPool, MakeAudit, MakeKeys, Discover,
       FetchKeys, MakeSessions, MakeLogin, KilledEarly, SignalWhileBuilding, NotServing, Call
  <2>2. signals' \in 0..MaxSignals
    <3>1. signals' = signals \/ (signals < MaxSignals /\ signals' = signals + 1)
      BY <1>2, Zenon DEF BootStep, Load, MigrateUp, OpenPool, MakeAudit, MakeKeys, Discover,
                  FetchKeys, MakeSessions, MakeLogin, KilledEarly, SignalWhileBuilding
    <3> QED
      BY <3>1, LifecycleAssumption DEF NotServing
  <2>3. cfg \in Configs /\ cfg.url \in BOOLEAN /\ cfg.audit \in BOOLEAN
    BY StartupAssumption DEF BuildOrder
  <2>4. /\ BuildOrder' /\ migrated' \in BOOLEAN
        /\ audited' \in BOOLEAN /\ pool' \in IF audited' THEN {"open"} ELSE {"none", "open"}
    <3>0. audited \in BOOLEAN /\ pool \in IF audited THEN {"open"} ELSE {"none", "open"}
      BY DEF NotServing
    <3> USE <2>3, <3>0 DEF BuildOrder, BootSteps
    <3>1. CASE UNCHANGED <<boot, cfg, migrated, audited, pool>>
      BY SMTT(30), <3>1
    <3>2. CASE Load
      <4>1. boot = "load" /\ UNCHANGED <<cfg, migrated, audited, pool>>
        BY <3>2 DEF Load
      <4>2. boot' = boot \/ (Validate(cfg) /\ boot' = IF cfg.url THEN "migrate" ELSE "audit")
        BY <3>2 DEF Load
      <4>3. CASE Validate(cfg) /\ cfg.url /\ boot' = "migrate"
        BY <4>1, <4>3
      <4>4. CASE Validate(cfg) /\ ~cfg.url /\ boot' = "audit"
        BY <4>1, <4>4
      <4> QED
        BY <3>1, <4>1, <4>2, <4>3, <4>4
    <3>3. CASE MigrateUp
      <4>1. boot = "migrate" /\ UNCHANGED <<cfg, audited, pool>>
        BY <3>3 DEF MigrateUp
      <4>2. (boot' = "open" /\ migrated' = TRUE) \/ UNCHANGED <<boot, migrated>>
        BY SMTT(30), <3>3 DEF MigrateUp
      <4> QED
        BY Zenon, <3>1, <4>1, <4>2
    <3>4. CASE OpenPool
      <4>1. boot = "open" /\ UNCHANGED <<cfg, migrated, audited>>
        BY <3>4 DEF OpenPool
      <4>2. (boot' = "audit" /\ pool' = "open") \/ UNCHANGED <<boot, pool>>
        BY <3>4 DEF OpenPool, Call
      <4>3. CASE boot' = "audit" /\ pool' = "open"
        BY SMTT(30), <4>1, <4>3
      <4>4. CASE UNCHANGED <<boot, pool>>
        BY Zenon, <3>1, <4>1, <4>4
      <4> QED
        BY Zenon, <4>2, <4>3, <4>4
    <3>5. CASE MakeAudit
      <4>1. boot = "audit" /\ UNCHANGED <<cfg, migrated, pool>>
        BY Zenon, <3>5 DEF MakeAudit
      <4>2. \/ UNCHANGED <<boot, audited>>
            \/ (cfg.audit => pool = "open") /\ audited' = cfg.audit /\ boot' = "keys"
        BY Zenon, <3>5 DEF MakeAudit
      <4>3. CASE (cfg.audit => pool = "open") /\ audited' = cfg.audit /\ boot' = "keys"
        BY SMTT(30), <4>1, <4>3
      <4> QED
        BY <3>1, <4>1, <4>2, <4>3
    <3>6. CASE MakeKeys \/ Discover \/ FetchKeys \/ MakeSessions \/ MakeLogin
      <4>1. /\ boot \in {"keys", "discover", "fetchKeys", "sessions", "login"}
            /\ UNCHANGED <<cfg, migrated, audited, pool>>
        BY Zenon, <3>6 DEF MakeKeys, Discover, FetchKeys, MakeSessions, MakeLogin
      <4>2. boot' = boot \/ boot' \in {"discover", "fetchKeys", "sessions", "login", "mux"}
        BY ZenonT(30), <3>6 DEF MakeKeys, Discover, FetchKeys, MakeSessions, MakeLogin, Call
      <4> QED
        BY <3>1, <4>1, <4>2
    <3>7. CASE KilledEarly \/ SignalWhileBuilding
      BY <3>1, <3>7 DEF KilledEarly, SignalWhileBuilding
    <3> QED
      BY <1>2, <3>2, <3>3, <3>4, <3>5, <3>6, <3>7, Zenon DEF BootStep
  <2>5. NotServing'
    BY <1>0, <2>1, <2>2, <2>4 DEF NotServing, Init, vars
  <2> QED
    BY <2>4, <2>5 DEF SInv
<1> QED
  BY <1>1, <1>2

\* SInv is inductive.
LEMMA StepSInv ==
  ASSUME SInv, [SNext]_svars
  PROVE  SInv'
<1>1. CASE BootStep \/ KilledEarly \/ SignalWhileBuilding
  <2>1. boot # "run" \/ ~LInv
    <3>1. phase = "building"
      BY Zenon, <1>1 DEF BootStep, Load, MigrateUp, OpenPool, MakeAudit, MakeKeys, Discover,
         FetchKeys, MakeSessions, MakeLogin, CallRun, KilledEarly, SignalWhileBuilding, At
    <3> QED
      BY <3>1 DEF LInv, LTypeOK, Phases
  <2> QED
    BY <1>1, <2>1, BootStepSInv DEF SInv
<1>2. CASE boot = "run" /\ LNext /\ UNCHANGED bootVars
  <2>1. LInv
    BY <1>2 DEF SInv, BuildOrder
  <2> QED
    BY <1>2, <2>1, StepLInv DEF SInv, bootVars
<1>3. CASE UNCHANGED svars
  <2>1. CASE boot = "run" /\ LInv
    BY <1>3, <2>1, StepLInv DEF svars, bootVars, SInv
  <2>2. CASE NotServing /\ BuildOrder /\ migrated \in BOOLEAN
    <3>1. NotServing'
      BY <1>3, <2>2 DEF svars, lvars, vars, serverVars, NotServing, Init
    <3>2. UNCHANGED <<boot, cfg, migrated, audited, pool>>
      BY <1>3 DEF svars, lvars, serverVars, bootVars
    <3>3. BuildOrder' /\ migrated' \in BOOLEAN
      BY <2>2, <3>2 DEF BuildOrder
    <3> QED
      BY SMTT(30), <3>1, <3>3 DEF SInv
  <2> QED
    BY <2>1, <2>2 DEF SInv
<1> QED
  BY <1>1, <1>2, <1>3 DEF SNext

-----------------------------------------------------------------------------
(* The theorems.                                                           *)

\* SInv holds from the start of the process to its end.
THEOREM ProcessInductive == SSpec => []SInv
<1>1. ASSUME SInit
      PROVE  SInv
  <2>1. 0 \in 0..MaxSignals
    BY LifecycleAssumption
  <2>2. NotServing
    BY Zenon, <1>1, <2>1 DEF SInit, NotServing
  <2>3. BuildOrder /\ migrated \in BOOLEAN
    BY Zenon, <1>1 DEF SInit, BuildOrder, BootSteps
  <2> QED
    BY <2>2, <2>3 DEF SInv
<1>2. SInv /\ [SNext]_svars => SInv'
  BY StepSInv
<1> QED
  BY <1>1, <1>2, PTL DEF SSpec

\* Without an audit logger, or after a failed Build, no Log call has returned.
LEMMA NothingReturned ==
  (\A r \in Events : logger[r] = "new") => Cardinality(Returned) = 0
<1>1. ASSUME \A r \in Events : logger[r] = "new"
      PROVE  Returned = {}
  BY <1>1 DEF Returned
<1> QED
  BY <1>1, FS_EmptySet

\* A process that exits after Run has returned nil has lost no audit event:
\* each request that was logged is counted as dropped or was handed over.
THEOREM CleanExitCorrect == SSpec => []CleanExitLosesNothing
<1>1. SInv => CleanExitLosesNothing
  <2> SUFFICES ASSUME SInv, phase = "exited", result = "nil"
               PROVE  /\ \A r \in Events : request[r] \in {"none", "done"}
                      /\ ch = <<>>
                      /\ Len(settled) + dropped = Cardinality(Returned)
    BY DEF CleanExitLosesNothing
  <2>1. LInv
    BY DEF SInv, NotServing
  <2>2. \A r \in Events : request[r] \in {"none", "done"}
    BY <2>1 DEF LInv, DrainedStaysDrained, Active
  <2>3. CASE audited
    <3>1. worker = "done"
      BY <2>1, <2>3, LifecycleAssumption DEF LInv, CloseFollowsRun, IInv, StopOrder
    <3>2. ch = <<>> /\ inflight = NoEvent
      BY <2>1, <3>1 DEF LInv, NothingLeftBehind, IInv, WorkerHolds
    <3>3. accepted = settled
      BY <2>1, <3>2, ConcatEmptySeq
         DEF LInv, IInv, TypeOK, HandedOverInOrder, InFlight
    <3>4. dropped + Len(accepted) = Cardinality(Returned)
      BY <2>1 DEF LInv, IInv, DropsAreCounted
    <3>5. dropped \in Nat /\ Len(settled) \in Nat
      BY <2>1, LenProperties DEF LInv, IInv, TypeOK
    <3> QED
      BY <2>2, <3>2, <3>3, <3>4, <3>5
  <2>4. CASE ~audited
    <3>1. /\ \A r \in Events : logger[r] = "new"
          /\ ch = <<>> /\ settled = <<>> /\ dropped = 0
      BY <2>1, <2>4 DEF LInv, Unaudited
    <3>2. Cardinality(Returned) = 0 /\ Len(settled) = 0
      BY <3>1, NothingReturned
    <3> QED
      BY <2>2, <3>1, <3>2
  <2> QED
    BY <2>1, <2>3, <2>4
<1> QED
  BY <1>1, ProcessInductive, PTL

\* The pool starts to close only when the audit worker has ended and holds
\* nothing, whatever Run returned.
THEOREM PoolCorrect == SSpec => []PoolOutlivesWorker
<1>1. SInv => PoolOutlivesWorker
  <2> SUFFICES ASSUME SInv, pool \in {"closing", "closed"}
               PROVE  (audited => worker = "done") /\ inflight = NoEvent
    BY DEF PoolOutlivesWorker
  <2>1. LInv
    BY DEF SInv, NotServing
  <2>2. phase \in {"waitPool", "exited"}
    BY <2>1 DEF LInv, CloseFollowsRun
  <2>3. audited => worker = "done"
    BY <2>1, <2>2, LifecycleAssumption DEF LInv, CloseFollowsRun, IInv, StopOrder
  <2>4. inflight = NoEvent
    BY <2>1, <2>3 DEF LInv, Unaudited, IInv, WorkerHolds
  <2> QED
    BY <2>3, <2>4
<1> QED
  BY <1>1, ProcessInductive, PTL

\* The process exits only after every event accepted before Close was settled,
\* whatever ended Run and however many requests go on after it.
THEOREM ExitCorrect == SSpec => []ExitSettlesAccepted
<1>1. SInv => ExitSettlesAccepted
  <2> SUFFICES ASSUME SInv, phase = "exited"
               PROVE  Len(settled) >= mark
    BY DEF ExitSettlesAccepted
  <2>1. CASE LInv /\ audited
    BY <2>1, LifecycleAssumption DEF LInv, CloseFollowsRun, IInv, StopOrder
  <2>2. CASE LInv /\ ~audited
    BY <2>2 DEF LInv, Unaudited
  <2>3. CASE NotServing
    BY <2>3 DEF NotServing, Init
  <2> QED
    BY <2>1, <2>2, <2>3 DEF SInv
<1> QED
  BY <1>1, ProcessInductive, PTL

\* Connections are refused only when /readyz already answers 503.
THEOREM ReadinessCorrect == SSpec => []NotReadyBeforeRefusing
<1>1. SInv => NotReadyBeforeRefusing
  BY DEF SInv, LInv, NotServing, NotReadyBeforeRefusing
<1> QED
  BY <1>1, ProcessInductive, PTL

\* Build ends the process only for a reason outside the configuration, for one
\* that Validate names, or for a short secret; and Run is called only when what
\* was configured exists.
THEOREM BuildCorrect == SSpec => BuildHonoursConfig
<1>1. ASSUME SInv, [SNext]_svars
      PROVE  [HonoursConfig]_svars
  <2>1. CASE boot = "run" /\ LNext /\ UNCHANGED bootVars
    BY <2>1 DEF HonoursConfig, bootVars
  <2>2. ASSUME BootStep \/ KilledEarly \/ SignalWhileBuilding
        PROVE  HonoursConfig
    <3>0. phase = "building"
      BY Zenon, <2>2 DEF BootStep, Load, MigrateUp, OpenPool, MakeAudit, MakeKeys, Discover,
         FetchKeys, MakeSessions, MakeLogin, CallRun, KilledEarly, SignalWhileBuilding, At
    <3>1. BuildOrder /\ boot # "run"
      BY <1>1, <3>0 DEF SInv, LInv, LTypeOK, Phases, BuildOrder
    <3>2. cfg \in Configs /\ cfg.url \in BOOLEAN /\ cfg.audit \in BOOLEAN
          /\ cfg.keysDB \in BOOLEAN
      BY SMTT(30), <3>1, StartupAssumption DEF BuildOrder
    <3>3. CASE CallRun
      <4>1. boot = "mux" /\ failure' = failure
        BY <3>3 DEF CallRun, At
      <4> QED
        BY <3>1, <3>2, <4>1 DEF BuildOrder, HonoursConfig, Validate
    <3>4. CASE MakeAudit
      BY Zenon, <3>1, <3>2, <3>4 DEF BuildOrder, HonoursConfig, MakeAudit, At, Go, Validate
    <3>5. CASE MakeKeys
      BY Zenon, <3>1, <3>2, <3>5 DEF BuildOrder, HonoursConfig, MakeKeys, At, Go, Validate
    <3>6. CASE Load \/ MakeSessions
      BY <3>1, <3>6 DEF HonoursConfig, Load, MakeSessions, At, Go, Fail
    <3>7. CASE MigrateUp \/ OpenPool \/ Discover \/ FetchKeys \/ MakeLogin
      BY <3>1, <3>7 DEF HonoursConfig, MigrateUp, OpenPool, Discover, FetchKeys,
                        MakeLogin, Call, At, Go, Fail
    <3>8. CASE KilledEarly \/ SignalWhileBuilding
      BY <3>1, <3>8 DEF HonoursConfig, KilledEarly, SignalWhileBuilding, Fail, bootVars
    <3> QED
      BY <2>2, <3>3, <3>4, <3>5, <3>6, <3>7, <3>8 DEF BootStep
  <2> QED
    BY <1>1, <2>1, <2>2 DEF SNext
<1> QED
  BY <1>1, ProcessInductive, PTL DEF SSpec, BuildHonoursConfig
=============================================================================
