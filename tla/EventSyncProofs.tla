--------------------------- MODULE EventSyncProofs ---------------------------
(* What holds of EventSync for every value of its constants.               *)
EXTENDS EventSync, FiniteSetTheorems, SequenceTheorems, WellFoundedInduction, TLAPS

(***************************************************************************)
(* Lemmas about the operators of the model.                                *)
(***************************************************************************)
\* COALESCE(max(seq), 0) is 0 or one of the numbers.
LEMMA TopType ==
  ASSUME NEW S, S \subseteq Seqs
  PROVE  Top(S) \in 0..MaxSeq /\ (Top(S) = 0 \/ Top(S) \in S)
<1>1. MaxSeq \in Nat
  BY BoundsAssumption
<1>2. CASE \E m \in S : \A n \in S : n <= m
  <2>1. Top(S) \in S
    BY <1>2 DEF Top
  <2>2. Top(S) \in Seqs
    BY <2>1
  <2> QED BY <2>1, <2>2, <1>1 DEF Seqs
<1>3. CASE ~ \E m \in S : \A n \in S : n <= m
  BY <1>1, <1>3 DEF Top
<1> QED BY <1>2, <1>3

\* A nonempty set of row numbers has a largest element.
LEMMA MaxExists ==
  ASSUME NEW k \in Nat, NEW S, S \subseteq 1..k, S # {}
  PROVE  \E m \in S : \A n \in S : n <= m
<1> DEFINE T == {n..k : n \in S}
<1>1. IsWellFoundedOn(StrictSubsetOrdering(Nat), FiniteSubsetsOf(Nat))
  BY FS_StrictSubsetOrderingWellFounded
<1>2. T \subseteq FiniteSubsetsOf(Nat) /\ T # {}
  <2>1. ASSUME NEW n \in S PROVE n..k \in FiniteSubsetsOf(Nat)
    <3>1. n \in Int /\ k \in Int /\ n..k \subseteq Nat
      OBVIOUS
    <3>2. IsFiniteSet(n..k)
      BY <3>1, FS_Interval
    <3> QED BY <3>1, <3>2 DEF FiniteSubsetsOf
  <2> QED BY <2>1
<1>3. PICK x \in T : \A y \in T : ~ (<<y, x>> \in StrictSubsetOrdering(Nat))
  <2> HIDE DEF T
  <2> QED BY <1>1, <1>2, WFMin
<1>4. PICK m \in S : x = m..k
  OBVIOUS
<1>5. ASSUME NEW n \in S PROVE n <= m
  <2>1. ~ (<<n..k, m..k>> \in StrictSubsetOrdering(Nat))
    BY <1>3, <1>4
  <2>2. ~ (n..k \subseteq m..k /\ n..k # m..k)
    BY <2>1 DEF StrictSubsetOrdering
  <2> QED BY <2>2
<1> QED BY <1>5

\* Top is the maximum.
LEMMA TopIsMax ==
  ASSUME NEW S, S \subseteq Seqs, S # {}
  PROVE  Top(S) \in S /\ \A n \in S : n <= Top(S)
<1>1. \E m \in S : \A n \in S : n <= m
  <2>1. MaxSeq \in Nat
    BY BoundsAssumption
  <2> QED BY <2>1, MaxExists DEF Seqs
<1> QED BY <1>1 DEF Top

\* Counting rows gives a number, and fewer rows a smaller one.
LEMMA CountRows ==
  ASSUME NEW S, S \subseteq Seqs, NEW T, T \subseteq S
  PROVE  /\ Cardinality(S) \in Nat /\ Cardinality(T) \in Nat
         /\ Cardinality(T) <= Cardinality(S)
<1>1. IsFiniteSet(Seqs)
  <2>1. 1 \in Int /\ MaxSeq \in Int
    BY BoundsAssumption
  <2> QED BY <2>1, FS_Interval DEF Seqs
<1>2. IsFiniteSet(S)
  BY <1>1, FS_Subset
<1>3. IsFiniteSet(T) /\ Cardinality(T) <= Cardinality(S)
  BY <1>2, FS_Subset
<1> QED BY <1>2, <1>3, FS_CardinalityType

\* A query of the outbox returns rows that are to be sent.
LEMMA FetchAfterType ==
  ASSUME NEW after, NEW limit
  PROVE  FetchAfter(after, limit) \subseteq Out /\ Out \subseteq Seqs
BY DEF FetchAfter, Out

(***************************************************************************)
(* Type correctness.                                                       *)
(***************************************************************************)
LEMMA ReplyType ==
  ASSUME TypeOK, NEW msg \in Replies, Reply(msg)
  PROVE  toKernel' \in Seq(Replies)
BY DEF TypeOK, Reply

\* Each message that is sent is one of its socket's.
LEMMA MessageTypes ==
  /\ Hello \in Frames
  /\ \A b \in Batch : BatchFrame(b) \in Frames
  /\ \A m \in 0..MaxSeq : HelloAck(m) \in Replies
  /\ \A m \in 0..MaxSeq, r \in BOOLEAN : Ack(m, r) \in Replies
  /\ \A m \in 0..MaxSeq : Nack(m + 1) \in Replies
BY BoundsAssumption DEF Hello, BatchFrame, HelloAck, Ack, Nack, Frames, Replies

\* What the replies on the socket carry, by kind of frame.
LEMMA ReplyContents ==
  ASSUME NEW r \in Replies
  PROVE  /\ r.frame = "hello_ack" => r.max \in 0..MaxSeq
         /\ r.frame = "ack" => r.upto \in 0..MaxSeq /\ r.reset \in BOOLEAN
         /\ r.frame = "nack" => r.expected \in 1..(MaxSeq + 1)
BY DEF Replies

\* A batch frame carries a batch.
LEMMA FrameContents ==
  ASSUME NEW f \in Frames, f.frame = "batch"
  PROVE  f.batch \in Batch
BY DEF Frames, Hello

\* The kernel and the replica begin well typed.
LEMMA TypeInit == Init => TypeOK
BY BoundsAssumption DEF Init, TypeOK, Seqs, Gens, RowState, IdleJob, NoBatch

\* Every step keeps the types.
LEMMA TypeStep == TypeOK /\ [Next]_vars => TypeOK'
<1> USE DEF kernelVars, clientVars, cloudVars, faultVars
<1> SUFFICES ASSUME TypeOK, [Next]_vars PROVE TypeOK'
  OBVIOUS
<1>b. MaxSeq \in Nat \ {0} /\ MaxGen \in Nat \ {0}
  BY BoundsAssumption
<1>f. /\ MaxStored \in 0..MaxSeq
      /\ Top(buffer) \in 0..MaxSeq
      /\ \A S \in SUBSET Seqs : Top(S) \in 0..MaxSeq
  BY TopType DEF MaxStored, Stored, TypeOK
<1>1. ASSUME NEW s \in Seqs, TakeNumber(s) PROVE TypeOK'
  BY <1>1 DEF TypeOK, TakeNumber, RowState
<1>2. ASSUME NEW s \in Seqs, NEW k \in RowState, FinishInsert(s, k) PROVE TypeOK'
  BY <1>2 DEF TypeOK, FinishInsert
<1>3. CASE Connect
  <2>1. ResumePoint \in 0..MaxSeq
    BY <1>b DEF TypeOK, ResumePoint
  <2>2. <<Hello>> \in Seq(Frames)
    BY MessageTypes
  <2> QED BY <1>3, <2>1, <2>2 DEF TypeOK, Connect
<1>4. CASE ConnectFails
  <2>1. ResumePoint \in 0..MaxSeq
    BY <1>b DEF TypeOK, ResumePoint
  <2> QED BY <1>4, <2>1 DEF TypeOK, ConnectFails
<1>5. CASE ReceiveHelloAck
  <2>1. Head(toKernel) \in Replies /\ Tail(toKernel) \in Seq(Replies)
    BY <1>5 DEF ReceiveHelloAck, TypeOK
  <2>2. Head(toKernel).max \in 0..MaxSeq
    BY <1>5, <2>1, ReplyContents DEF ReceiveHelloAck
  <2> QED BY <1>5, <2>1, <2>2 DEF TypeOK, ReceiveHelloAck
<1>h. Buffered \subseteq Seqs
  BY FetchAfterType DEF Buffered, TypeOK
<1>6. CASE Hold
  BY <1>6, <1>h DEF TypeOK, Hold
<1>7. CASE SendBatch
  <2>1. [rows |-> Buffered, gen |-> gen] \in Batch
    BY <1>7, <1>h DEF SendBatch, Batch, TypeOK
  <2>2. toCloud' \in Seq(Frames)
    BY <1>7, <2>1, MessageTypes DEF SendBatch, TypeOK
  <2> QED BY <1>7, <2>2 DEF TypeOK, SendBatch
<1>8. ASSUME NEW r \in Replies, r.frame = "ack", HandleAck(r)
      PROVE  cursor' \in 0..MaxSeq /\ acked' \in 0..MaxSeq
  BY <1>8, <1>b, ReplyContents DEF HandleAck, TypeOK
<1>9. ASSUME NEW r \in Replies, r.frame = "nack", HandleNack(r)
      PROVE  cursor' \in 0..MaxSeq /\ acked' \in 0..MaxSeq
  <2>1. r.expected \in 1..(MaxSeq + 1)
    BY <1>9, ReplyContents
  <2> QED BY <1>9, <1>b, <2>1 DEF HandleNack, TypeOK
<1>10. CASE ReceiveReply
  <2>1. Head(toKernel) \in Replies /\ Tail(toKernel) \in Seq(Replies)
    BY <1>10 DEF ReceiveReply, TypeOK
  <2>2. cursor' \in 0..MaxSeq /\ acked' \in 0..MaxSeq
    BY <1>10, <2>1, <1>8, <1>9 DEF ReceiveReply
  <2> QED BY <1>10, <2>1, <2>2 DEF TypeOK, ReceiveReply
<1>11. CASE StartCatchup
  <2>1. Backlog \in Nat
    BY CountRows DEF Backlog, Committed
  <2> QED BY <1>11, <2>1 DEF TypeOK, StartCatchup
<1>n. NextCatchupRows \subseteq Seqs
  BY FetchAfterType DEF NextCatchupRows
<1>12. CASE CatchupSend
  <2>1. [rows |-> NextCatchupRows, gen |-> gen] \in Batch
    BY <1>12, <1>n DEF CatchupSend, CanSend, Batch, TypeOK
  <2>2. toCloud' \in Seq(Frames)
    BY <1>12, <2>1, MessageTypes DEF CatchupSend, TypeOK
  <2>3. Top(NextCatchupRows) \in Seqs
    BY <1>12, <1>n, TopIsMax DEF CatchupSend, CanSend
  <2>4. Cardinality(NextCatchupRows) \in Nat
    BY <1>n, CountRows
  <2>5. cursor' \in 0..MaxSeq
    BY <1>12, <1>b, <2>3 DEF CatchupSend, Seqs
  <2>6. inFlight' \in SUBSET Seqs
    BY <1>12, <2>3 DEF CatchupSend, TypeOK
  <2>7. budget' \in Int
    BY <1>12, <2>4 DEF CatchupSend, TypeOK
  <2> QED BY <1>12, <2>2, <2>5, <2>6, <2>7 DEF TypeOK, CatchupSend
<1>13. CASE CatchupReceive
  <2>1. Head(toKernel) \in Replies /\ Tail(toKernel) \in Seq(Replies)
    BY <1>13 DEF CatchupReceive, TypeOK
  <2>2. cursor' \in 0..MaxSeq /\ acked' \in 0..MaxSeq
    BY <1>13, <2>1, <1>8, <1>9 DEF CatchupReceive
  <2>3. inFlight' \in SUBSET Seqs
        /\ phase' \in {"down", "hello", "idle", "normal", "wait", "catchup"}
    BY <1>13 DEF CatchupReceive, TypeOK
  <2> QED BY <1>13, <2>1, <2>2, <2>3 DEF TypeOK, CatchupReceive
<1>14. CASE EndCatchup
  BY <1>14 DEF TypeOK, EndCatchup
<1>c. ASSUME CloseConnection
      PROVE  /\ phase' \in {"down", "hello", "idle", "normal", "wait", "catchup"}
             /\ toCloud' \in Seq(Frames) /\ toKernel' \in Seq(Replies)
             /\ inFlight' \in SUBSET Seqs /\ budget' \in Int
  BY <1>c DEF CloseConnection
<1>15. CASE ReceiveTimeout
  BY <1>15, <1>c DEF TypeOK, ReceiveTimeout
<1>16. CASE AnswerHello
  <2>1. toKernel' \in Seq(Replies)
    BY <1>16, <1>f, MessageTypes, ReplyType DEF AnswerHello
  <2> QED BY <1>16, <2>1 DEF TypeOK, AnswerHello
<1>17. CASE ReceiveBatch
  <2> DEFINE b == Head(toCloud).batch
  <2>1. Head(toCloud) \in Frames /\ Tail(toCloud) \in Seq(Frames)
    BY <1>17 DEF ReceiveBatch, TypeOK
  <2>2. b \in Batch
    BY <1>17, <2>1, FrameContents DEF ReceiveBatch
  <2>3. /\ toKernel' \in Seq(Replies)
        /\ pending' \in SUBSET Batch
        /\ job' \in [busy : BOOLEAN, batch : Batch \cup {NoBatch}, reset : BOOLEAN,
                     live : BOOLEAN]
        /\ job'.busy => job'.batch \in Batch
    <3>1. CASE Reply(Nack(MaxStored + 1)) /\ UNCHANGED <<pending, job>>
      BY <3>1, <1>f, MessageTypes, ReplyType DEF TypeOK
    <3>2. CASE /\ pending' = PutPending(b)
               /\ job' = [busy |-> TRUE, batch |-> b, reset |-> FALSE, live |-> TRUE]
               /\ UNCHANGED toKernel
      BY <3>2, <2>2 DEF TypeOK, PutPending
    <3> QED BY <1>17, <3>1, <3>2 DEF ReceiveBatch
  <2> QED BY <1>17, <2>1, <2>3 DEF TypeOK, ReceiveBatch
<1>18. ASSUME NEW b \in pending, Flush(b) PROVE TypeOK'
  <2>1. b.gen \in Gens
    BY <1>18 DEF TypeOK, Batch
  <2>2. replica' \in [Seqs -> 0..MaxGen]
    BY <1>18, <1>b, <2>1 DEF TypeOK, Flush, Gens
  <2> QED BY <1>18, <2>2 DEF TypeOK, Flush
<1>19. CASE SendAck
  <2>1. toKernel' \in Seq(Replies)
    BY <1>19, <1>f, MessageTypes, ReplyType DEF SendAck, TypeOK
  <2> QED BY <1>19, <2>1 DEF TypeOK, SendAck, IdleJob
<1>20. ASSUME NEW b \in Batch, NEW live \in BOOLEAN, Rebuild(b, live)
       PROVE  /\ replica' \in [Seqs -> 0..MaxGen]
              /\ toKernel' \in Seq(Replies)
              /\ pending' \in SUBSET Batch
              /\ job' \in [busy : BOOLEAN, batch : Batch \cup {NoBatch}, reset : BOOLEAN,
                           live : BOOLEAN]
              /\ job'.busy => job'.batch \in Batch
  <2>1. Nack(1) \in Replies
    BY BoundsAssumption DEF Nack, Replies
  <2>2. replica' \in [Seqs -> 0..MaxGen]
    BY <1>20, <1>b DEF Rebuild
  <2>3. CASE BeyondWindow(b, 1)
    <3>1. pending' = {} /\ job' = IdleJob /\ Reply(Nack(1))
      BY <1>20, <2>3 DEF Rebuild
    <3>2. toKernel' \in Seq(Replies)
      BY <2>1, <3>1, ReplyType
    <3> QED BY <2>2, <3>1, <3>2 DEF IdleJob
  <2>4. CASE ~ BeyondWindow(b, 1)
    <3>1. /\ pending' = {b} /\ UNCHANGED toKernel
          /\ job' = [busy |-> TRUE, batch |-> b, reset |-> TRUE, live |-> live]
      BY <1>20, <2>4 DEF Rebuild
    <3> QED BY <2>2, <3>1 DEF TypeOK
  <2> QED BY <2>3, <2>4
<1>21. CASE RebuildOnConflict
  <2>1. job.batch \in Batch /\ job.live \in BOOLEAN
    BY <1>21 DEF RebuildOnConflict, TypeOK
  <2> QED BY <1>21, <1>20, <2>1 DEF TypeOK, RebuildOnConflict
<1>22. CASE RebuildOnRegression
  <2>1. Head(toCloud) \in Frames /\ Tail(toCloud) \in Seq(Frames)
    BY <1>22 DEF RebuildOnRegression, TypeOK
  <2>2. Head(toCloud).batch \in Batch
    BY <1>22, <2>1, FrameContents DEF RebuildOnRegression
  <2> QED BY <1>22, <1>20, <2>1, <2>2 DEF TypeOK, RebuildOnRegression
<1>o. ASSUME Orphan
      PROVE  /\ job' \in [busy : BOOLEAN, batch : Batch \cup {NoBatch}, reset : BOOLEAN,
                          live : BOOLEAN]
             /\ job'.busy => job'.batch \in Batch
  BY <1>o DEF Orphan, TypeOK
<1>m. MaxFaults \in Nat /\ MaxRestores \in Nat
  BY BoundsAssumption
<1>23. CASE Disconnect
  BY <1>23, <1>c, <1>o, <1>m DEF TypeOK, Disconnect
<1>24. CASE KernelCrash
  <2>1. cursor' \in 0..MaxSeq /\ buffer' \in SUBSET Seqs
    BY <1>24, <1>b DEF KernelCrash, ForgetMemory
  <2>2. row' \in [Seqs -> RowState] /\ faults' \in 0..MaxFaults
    BY <1>24, <1>m DEF KernelCrash, TypeOK, RowState
  <2> QED BY <1>24, <1>c, <1>o, <2>1, <2>2 DEF TypeOK, KernelCrash
<1>25. CASE IngestRestart
  BY <1>25, <1>c, <1>m DEF TypeOK, IngestRestart, IdleJob
<1>26. ASSUME NEW s \in 0..MaxSeq, ReplicaRestore(s) PROVE TypeOK'
  <2>1. replica' \in [Seqs -> 0..MaxGen]
    BY <1>26, <1>b DEF ReplicaRestore, TypeOK
  <2> QED BY <1>26, <1>c, <1>m, <2>1 DEF TypeOK, ReplicaRestore, IdleJob
<1>27. ASSUME NEW survives \in SurvivalModes, Reseed(survives) PROVE TypeOK'
  <2>1. gen' \in Gens /\ acked' \in 0..MaxSeq /\ cursor' \in 0..MaxSeq
        /\ buffer' \in SUBSET Seqs /\ row' \in [Seqs -> RowState]
    BY <1>27, <1>b DEF Reseed, ForgetMemory, TypeOK, Gens, RowState
  <2> QED BY <1>27, <1>c, <1>o, <2>1 DEF TypeOK, Reseed
<1>28. CASE UNCHANGED vars
  BY <1>28 DEF vars, TypeOK
<1> QED
  BY <1>1, <1>2, <1>3, <1>4, <1>5, <1>6, <1>7, <1>10, <1>11, <1>12, <1>13, <1>14, <1>15,
     <1>16, <1>17, <1>18, <1>19, <1>21, <1>22, <1>23, <1>24, <1>25, <1>26, <1>27, <1>28
     DEF Next, Kernel, Client, Ingest, Environment

\* Every variable stays within its type: counters within their bounds, frames
\* and buffered batches well formed, in every behaviour of the event stream.
THEOREM TypeCorrect == Spec => []TypeOK
<1>1. TypeOK /\ [Next]_vars => TypeOK'
  BY TypeStep
<1> QED BY <1>1, TypeInit, PTL DEF Spec

(***************************************************************************)
(* One timeline, rows visible in the order of their numbers.               *)
(***************************************************************************)
\* Who writes the kernel's table.
LEMMA RowChange ==
  ASSUME [Next]_vars, row' # row
  PROVE  \/ \E s \in Seqs : TakeNumber(s) \/ \E k \in RowState : FinishInsert(s, k)
         \/ KernelCrash
         \/ \E survives \in SurvivalModes : Reseed(survives)
BY DEF Next, Kernel, Client, Ingest, Environment, vars, kernelVars, clientVars, Connect,
   ConnectFails, ReceiveHelloAck, Hold, SendBatch, ReceiveReply, StartCatchup, CatchupSend,
   CatchupReceive, EndCatchup, ReceiveTimeout, AnswerHello, ReceiveBatch, SendAck, Flush,
   RebuildOnConflict, RebuildOnRegression, Disconnect, IngestRestart, ReplicaRestore

\* With one world there is no second one to start.
LEMMA NoReseed ==
  ASSUME TypeOK, MaxGen = 1, NEW survives
  PROVE  ~ Reseed(survives)
BY DEF Reseed, TypeOK, Gens

\* The world changes by a reseed only.
LEMMA GenChange ==
  ASSUME [Next]_vars
  PROVE  gen' = gen \/ \E survives \in SurvivalModes : Reseed(survives)
BY DEF Next, Kernel, Client, Ingest, Environment, vars, kernelVars, clientVars, cloudVars,
   TakeNumber, FinishInsert, Connect, ConnectFails, ReceiveHelloAck, Hold, SendBatch,
   ReceiveReply, StartCatchup, CatchupSend, CatchupReceive, EndCatchup, ReceiveTimeout,
   AnswerHello, ReceiveBatch, SendAck, Flush, RebuildOnConflict, RebuildOnRegression,
   Disconnect, KernelCrash, IngestRestart, ReplicaRestore

\* Within a world the rows to send only become more, and the new ones come last.
LEMMA OutGrowsInAWorld ==
  ASSUME TypeOK, NumbersInOrder, gen' = gen, [Next]_vars
  PROVE  Out \subseteq Out' /\ \A u \in Out' \ Out, t \in Out : t < u
<1> SUFFICES ASSUME row' # row
             PROVE  Out \subseteq Out' /\ \A u \in Out' \ Out, t \in Out : t < u
  BY DEF Out
<1>1. ASSUME NEW s \in Seqs, TakeNumber(s) PROVE Out' = Out
  BY <1>1 DEF TakeNumber, Out, TypeOK
<1>2. ASSUME NEW s \in Seqs, NEW k \in RowState, FinishInsert(s, k)
      PROVE  Out \subseteq Out' /\ \A u \in Out' \ Out, t \in Out : t < u
  <2>1. Out \subseteq Out' /\ Out' \subseteq Out \cup {s}
    BY <1>2 DEF FinishInsert, Out, TypeOK
  <2>2. \A t \in Out : t < s
    BY <1>2, BoundsAssumption DEF FinishInsert, Out, NumbersInOrder, Seqs
  <2> QED BY <2>1, <2>2
<1>3. ASSUME KernelCrash PROVE Out' = Out
  BY <1>3 DEF KernelCrash, Out, TypeOK
<1>4. ASSUME NEW survives \in SurvivalModes, Reseed(survives) PROVE FALSE
  <2>1. gen' = gen + 1 /\ gen \in 1..MaxGen
    BY <1>4 DEF Reseed, TypeOK, Gens
  <2> QED BY <2>1
<1> QED BY <1>1, <1>2, <1>3, <1>4, RowChange

\* With one world they do so all the time.
LEMMA OutGrows ==
  ASSUME TypeOK, NumbersInOrder, MaxGen = 1, [Next]_vars
  PROVE  Out \subseteq Out' /\ \A u \in Out' \ Out, t \in Out : t < u
<1>1. gen' = gen
  BY GenChange, NoReseed
<1> QED BY <1>1, OutGrowsInAWorld

\* With one INSERT at a time, numbers are settled in their order.
LEMMA NumbersStep ==
  ASSUME TypeOK, NumbersInOrder, MaxGen = 1, SingleWriter, [Next]_vars
  PROVE  NumbersInOrder'
<1> SUFFICES ASSUME row' # row PROVE NumbersInOrder'
  BY DEF NumbersInOrder
<1>1. ASSUME NEW s \in Seqs, TakeNumber(s) PROVE NumbersInOrder'
  BY <1>1 DEF TakeNumber, NumbersInOrder, TypeOK, Seqs
<1>2. ASSUME NEW s \in Seqs, NEW k \in RowState, FinishInsert(s, k) PROVE NumbersInOrder'
  BY <1>2, ChoicesAssumption DEF FinishInsert, NumbersInOrder, TypeOK, Seqs
<1>3. ASSUME KernelCrash PROVE NumbersInOrder'
  BY <1>3 DEF KernelCrash, NumbersInOrder, TypeOK
<1> QED BY <1>1, <1>2, <1>3, RowChange, NoReseed

\* An interval of the table stays one when the table grows at its upper end.
LEMMA IntervalStable ==
  ASSUME NEW Old, NEW New, Old \subseteq New, New \subseteq Seqs,
         \A u \in New \ Old, t \in Old : t < u,
         NEW R, Interval(R, Old)
  PROVE  Interval(R, New)
BY DEF Interval, Seqs

\* fetch_events_after skips no row above the position it starts from.
LEMMA FetchAfterSkipsNothing ==
  ASSUME NEW after \in Int, NEW limit \in Int,
         NEW t \in FetchAfter(after, limit), NEW u \in Out, after < u, u < t
  PROVE  u \in FetchAfter(after, limit)
<1> DEFINE Between(s) == {x \in Out : after < x /\ x < s}
<1>1. Out \subseteq Seqs /\ Seqs \subseteq Int /\ t \in Out
  BY FetchAfterType DEF Seqs
<1>2. Between(u) \subseteq Between(t) /\ Between(t) \subseteq Seqs
  <2>1. ASSUME NEW x \in Out, x < u PROVE x < t
    <3>1. x \in Int /\ u \in Int /\ t \in Int
      BY <1>1
    <3> QED BY <2>1, <3>1
  <2> QED BY <1>1, <2>1
<1>3. Cardinality(Between(t)) < limit
  BY DEF FetchAfter
<1>4. Cardinality(Between(u)) < limit
  <2> HIDE DEF Between
  <2> QED BY <1>2, <1>3, CountRows
<1> QED BY <1>4 DEF FetchAfter

\* What fetch_events_after returns is an interval, ...
LEMMA FetchAfterInterval ==
  ASSUME NEW after \in Int, NEW limit \in Int
  PROVE  Interval(FetchAfter(after, limit), Out)
<1>1. ASSUME NEW s \in FetchAfter(after, limit), NEW t \in FetchAfter(after, limit),
             NEW u \in Out, s < u, u < t
      PROVE  u \in FetchAfter(after, limit)
  <2>1. s \in Int /\ u \in Int /\ after < s
    BY FetchAfterType DEF FetchAfter, Seqs
  <2>2. after < u
    BY <1>1, <2>1
  <2> QED BY <1>1, <2>2, FetchAfterSkipsNothing
<1> QED BY <1>1, FetchAfterType DEF Interval

\* ... also together with the interval whose last row it starts from.
LEMMA TopUpInterval ==
  ASSUME NEW B, Interval(B, Out), NEW m \in B, \A n \in B : n <= m, NEW limit \in Int
  PROVE  Interval(B \cup FetchAfter(m, limit), Out)
<1> DEFINE more == FetchAfter(m, limit)
<1>1. B \subseteq Out /\ more \subseteq Out /\ Out \subseteq Seqs /\ Seqs \subseteq Int
  BY FetchAfterType DEF Interval, Seqs
<1>2. m \in Int /\ \A n \in more : m < n
  BY <1>1 DEF FetchAfter
<1>3. ASSUME NEW u \in Out, NEW s \in B \cup more, NEW t \in B \cup more, s < u, u < t
      PROVE  u \in B \cup more
  <2>1. s \in Int /\ t \in Int /\ u \in Int
    BY <1>1
  <2>2. CASE t \in more /\ m < u
    BY <1>2, <1>3, <2>2, FetchAfterSkipsNothing
  <2>3. CASE t \in B
    <3>1. s \in B
      <4> HIDE DEF more
      <4> QED BY <1>2, <1>3, <2>1, <2>3
    <3> QED BY <1>3, <2>3, <3>1 DEF Interval
  <2>4. CASE t \in more /\ u < m
    <3>1. s \in B
      <4> HIDE DEF more
      <4> QED BY <1>2, <1>3, <2>1, <2>4
    <3> QED BY <1>3, <2>4, <3>1 DEF Interval
  <2>5. CASE u = m
    BY <2>5
  <2> HIDE DEF more
  <2> QED BY <1>2, <2>1, <2>2, <2>3, <2>4, <2>5
<1>4. B \cup more \subseteq Out
  BY <1>1
<1>5. \A s, t \in B \cup more, u \in Out : s < u /\ u < t => u \in B \cup more
  BY <1>3
<1> QED BY <1>4, <1>5, Zenon DEF Interval

\* Topping the client's buffer up keeps it an interval.
LEMMA BufferedInterval ==
  ASSUME TypeOK, Interval(buffer, Out)
  PROVE  Interval(Buffered, Out)
<1>1. cursor \in Int /\ BatchSize - Cardinality(buffer) \in Int
  <2>1. Cardinality(buffer) \in Int
    BY CountRows DEF TypeOK
  <2>2. BatchSize \in Int
    BY BoundsAssumption
  <2> QED BY <2>1, <2>2 DEF TypeOK
<1>2. CASE buffer = {}
  <2>1. Buffered = FetchAfter(cursor, BatchSize - Cardinality(buffer))
    BY <1>2 DEF Buffered
  <2> QED BY <1>1, <2>1, FetchAfterInterval
<1>3. CASE buffer # {}
  <2>1. Top(buffer) \in buffer /\ \A n \in buffer : n <= Top(buffer)
    BY <1>3, TopIsMax DEF TypeOK
  <2>2. Buffered = buffer \cup FetchAfter(Top(buffer), BatchSize - Cardinality(buffer))
    BY <1>3 DEF Buffered
  <2> QED BY <1>1, <2>1, <2>2, TopUpInterval
<1> QED BY <1>2, <1>3

(***************************************************************************)
(* Where the batches in transit come from, one place of the path at a      *)
(* time.                                                                   *)
(***************************************************************************)
LEMMA BufferChange ==
  ASSUME [Next]_vars
  PROVE  buffer' = buffer \/ buffer' = Buffered \/ buffer' = {}
BY DEF Next, Kernel, Client, Ingest, Environment, vars, kernelVars, clientVars, cloudVars,
   TakeNumber, FinishInsert, Connect, ConnectFails, ReceiveHelloAck, Hold, SendBatch,
   ReceiveReply, StartCatchup, CatchupSend, CatchupReceive, EndCatchup, ReceiveTimeout,
   AnswerHello, ReceiveBatch, SendAck, Flush, RebuildOnConflict, RebuildOnRegression,
   Disconnect, KernelCrash, ForgetMemory, IngestRestart, ReplicaRestore, Reseed

\* What a step can do to the frames on their way: lose them, take the first, or
\* add a hello or a batch of the two senders.
LEMMA SocketChange ==
  ASSUME [Next]_vars
  PROVE  \/ toCloud' \in {toCloud, <<>>, <<Hello>>}
         \/ toCloud # <<>> /\ toCloud' = Tail(toCloud)
         \/ toCloud' = Append(toCloud, BatchFrame([rows |-> Buffered, gen |-> gen]))
         \/ toCloud' = Append(toCloud, BatchFrame([rows |-> NextCatchupRows, gen |-> gen]))
BY DEF Next, Kernel, Client, Ingest, Environment, vars, kernelVars, clientVars, cloudVars,
   TakeNumber, FinishInsert, Connect, ConnectFails, ReceiveHelloAck, Hold, SendBatch,
   ReceiveReply, StartCatchup, CatchupSend, CatchupReceive, EndCatchup, ReceiveTimeout,
   AnswerHello, ReceiveBatch, SendAck, Flush, RebuildOnConflict, RebuildOnRegression,
   Disconnect, KernelCrash, IngestRestart, ReplicaRestore, Reseed, CloseConnection

\* The batch at the head of the socket, if there is one.
Arriving(b) == toCloud # <<>> /\ Head(toCloud).frame = "batch" /\ b = Head(toCloud).batch

\* A batch in the reorder buffer was there, is being stored or has just arrived.
LEMMA PendingChange ==
  ASSUME TypeOK, [Next]_vars, NEW b \in pending'
  PROVE  b \in pending \/ (job.busy /\ b = job.batch) \/ Arriving(b)
<1> SUFFICES ASSUME pending' # pending
             PROVE  b \in pending \/ (job.busy /\ b = job.batch) \/ Arriving(b)
  OBVIOUS
<1>1. CASE ReceiveBatch
  BY <1>1 DEF ReceiveBatch, PutPending, Arriving
<1>2. ASSUME NEW c \in pending, Flush(c) PROVE b \in pending
  BY <1>2 DEF Flush
<1>3. CASE RebuildOnConflict
  BY <1>3 DEF RebuildOnConflict, Rebuild
<1>4. CASE RebuildOnRegression
  BY <1>4 DEF RebuildOnRegression, Rebuild, Arriving
<1>5. CASE pending' = {}
  BY <1>5
<1> QED
  BY <1>1, <1>2, <1>3, <1>4, <1>5
  DEF Next, Kernel, Client, Ingest, Environment, vars, kernelVars, clientVars, cloudVars,
   TakeNumber, FinishInsert, Connect, ConnectFails, ReceiveHelloAck, Hold, SendBatch,
   ReceiveReply, StartCatchup, CatchupSend, CatchupReceive, EndCatchup, ReceiveTimeout,
   AnswerHello, SendAck, Disconnect, KernelCrash, IngestRestart, ReplicaRestore, Reseed

\* A batch that is being stored was so before or has just arrived.
LEMMA JobChange ==
  ASSUME TypeOK, [Next]_vars, job'.busy
  PROVE  (job.busy /\ job'.batch = job.batch) \/ Arriving(job'.batch)
<1> SUFFICES ASSUME job' # job
             PROVE  (job.busy /\ job'.batch = job.batch) \/ Arriving(job'.batch)
  OBVIOUS
<1>1. CASE ReceiveBatch
  BY <1>1 DEF ReceiveBatch, Arriving
<1>2. CASE RebuildOnConflict
  BY <1>2 DEF RebuildOnConflict, Rebuild, IdleJob
<1>3. CASE RebuildOnRegression
  BY <1>3 DEF RebuildOnRegression, Rebuild, IdleJob, Arriving
<1>4. CASE Orphan
  BY <1>4 DEF Orphan, TypeOK
<1>5. CASE job' = IdleJob
  BY <1>5 DEF IdleJob
<1> QED
  BY <1>1, <1>2, <1>3, <1>4, <1>5
  DEF Next, Kernel, Client, Ingest, Environment, vars, kernelVars, clientVars, cloudVars,
   TakeNumber, FinishInsert, Connect, ConnectFails, ReceiveHelloAck, Hold, SendBatch,
   ReceiveReply, StartCatchup, CatchupSend, CatchupReceive, EndCatchup, ReceiveTimeout,
   AnswerHello, Flush, SendAck, Disconnect, KernelCrash, IngestRestart, ReplicaRestore, Reseed

\* The replica changes by a flush, a rebuild or a restore only.
LEMMA ReplicaChange ==
  ASSUME [Next]_vars
  PROVE  \/ replica' = replica
         \/ \E b \in pending : Flush(b)
         \/ (RebuildOnConflict \/ RebuildOnRegression) /\ replica' = [s \in Seqs |-> 0]
         \/ \E s \in 0..MaxSeq : ReplicaRestore(s)
BY DEF Next, Kernel, Client, Ingest, Environment, vars, kernelVars, clientVars, cloudVars,
   TakeNumber, FinishInsert, Connect, ConnectFails, ReceiveHelloAck, Hold, SendBatch,
   ReceiveReply, StartCatchup, CatchupSend, CatchupReceive, EndCatchup, ReceiveTimeout,
   AnswerHello, ReceiveBatch, SendAck, RebuildOnConflict, RebuildOnRegression, Rebuild,
   Disconnect, KernelCrash, IngestRestart, Reseed

\* Every batch on its way stays an interval of the growing table.
LEMMA TravelStep ==
  ASSUME TypeOK, SyncInv, MaxGen = 1, [Next]_vars
  PROVE  IntervalsTravel'
<1>1. \A R : Interval(R, Out) => Interval(R, Out')
  <2>1. Out' \subseteq Seqs
    BY DEF Out, Seqs
  <2> HIDE DEF Out
  <2> QED BY <2>1, OutGrows, IntervalStable DEF SyncInv
<1>2. Interval({}, Out')
  BY DEF Interval
<1>3. Interval(buffer', Out')
  <2>1. Interval(Buffered, Out)
    BY BufferedInterval DEF SyncInv, IntervalsTravel
  <2> QED BY <1>1, <1>2, <2>1, BufferChange DEF SyncInv, IntervalsTravel
<1>a. ASSUME NEW b, Arriving(b) PROVE Interval(b.rows, Out)
  <2>1. 1 \in DOMAIN toCloud /\ Head(toCloud) = toCloud[1]
    BY <1>a DEF Arriving, TypeOK
  <2> QED BY <1>a, <2>1 DEF Arriving, SyncInv, IntervalsTravel
<1>4. ASSUME NEW i \in DOMAIN toCloud', toCloud'[i].frame = "batch"
      PROVE  Interval(toCloud'[i].batch.rows, Out')
  <2>1. CASE toCloud' \in {toCloud, <<>>, <<Hello>>}
    BY <1>1, <1>4, <2>1 DEF SyncInv, IntervalsTravel, Hello
  <2>2. CASE toCloud # <<>> /\ toCloud' = Tail(toCloud)
    <3>1. i + 1 \in DOMAIN toCloud /\ toCloud'[i] = toCloud[i + 1]
      BY <2>2, HeadTailProperties DEF TypeOK
    <3> QED BY <1>1, <1>4, <3>1 DEF SyncInv, IntervalsTravel
  <2>3. ASSUME NEW R, Interval(R, Out),
               toCloud' = Append(toCloud, BatchFrame([rows |-> R, gen |-> gen]))
        PROVE  Interval(toCloud'[i].batch.rows, Out')
    <3>1. toCloud \in Seq(Frames)
      BY DEF TypeOK
    <3>2. CASE i \in DOMAIN toCloud
      <4>1. toCloud'[i] = toCloud[i]
        BY <2>3, <3>1, <3>2
      <4> QED BY <1>1, <1>4, <3>2, <4>1 DEF SyncInv, IntervalsTravel
    <3>3. CASE i \notin DOMAIN toCloud
      <4>1. toCloud'[i] = BatchFrame([rows |-> R, gen |-> gen])
        BY <1>4, <2>3, <3>1, <3>3
      <4> QED BY <1>1, <2>3, <4>1 DEF BatchFrame
    <3> QED BY <3>2, <3>3
  <2>4. Interval(Buffered, Out)
    BY BufferedInterval DEF SyncInv, IntervalsTravel
  <2>5. Interval(NextCatchupRows, Out)
    <3>1. cursor \in Int /\ CatchupBatch \in Int
      BY BoundsAssumption DEF TypeOK
    <3> QED BY <3>1, FetchAfterInterval DEF NextCatchupRows
  <2> QED BY <2>1, <2>2, <2>3, <2>4, <2>5, SocketChange
<1>5. ASSUME NEW b \in pending' PROVE Interval(b.rows, Out')
  BY <1>1, <1>a, PendingChange DEF SyncInv, IntervalsTravel
<1>6. ASSUME job'.busy PROVE Interval(job'.batch.rows, Out')
  BY <1>1, <1>6, <1>a, JobChange DEF SyncInv, IntervalsTravel
<1> QED BY <1>3, <1>4, <1>5, <1>6 DEF IntervalsTravel

\* What is stored stays a prefix of the table: a contiguous interval extends a
\* prefix to a prefix, and a restore cuts one off.
LEMMA PrefixStep ==
  ASSUME TypeOK, SyncInv, MaxGen = 1, [Next]_vars
  PROVE  StoredIsPrefix'
<1>1. /\ Stored \subseteq Out /\ \A s \in Out, t \in Stored : s < t => s \in Stored
      /\ Out \subseteq Seqs /\ Out' \subseteq Seqs /\ Stored \subseteq Seqs
  BY DEF SyncInv, StoredIsPrefix, Out, Stored, Seqs
<1>2. Out \subseteq Out' /\ \A u \in Out' \ Out, t \in Out : t < u
  BY OutGrows DEF SyncInv
<1>s. ASSUME NEW S, S \subseteq Out, \A s \in Out, t \in S : s < t => s \in S
      PROVE  S \subseteq Out' /\ \A s \in Out', t \in S : s < t => s \in S
  <2>1. ASSUME NEW s \in Out', NEW t \in S, s < t PROVE s \in S
    <3>1. s \in Int /\ t \in Int
      BY <1>1, <1>s DEF Seqs
    <3>2. s \in Out
      BY <1>2, <1>s, <2>1, <3>1
    <3> QED BY <1>s, <2>1, <3>2
  <2> QED BY <1>2, <1>s, <2>1
<1>3. SUFFICES /\ Stored' \subseteq Out
               /\ \A s \in Out, t \in Stored' : s < t => s \in Stored'
  BY <1>s DEF StoredIsPrefix
<1>4. CASE replica' = replica
  BY <1>1, <1>4 DEF Stored
<1>5. ASSUME NEW b \in pending, Flush(b)
      PROVE  /\ Stored' \subseteq Out
             /\ \A s \in Out, t \in Stored' : s < t => s \in Stored'
  <2>1. b.rows \subseteq Out /\ \A s, t \in b.rows, u \in Out : s < u /\ u < t => u \in b.rows
    BY DEF SyncInv, IntervalsTravel, Interval
  <2>2. Stored' = Stored \cup b.rows
    <3>1. b.gen # 0 /\ b.rows \subseteq Seqs
      BY DEF TypeOK, Batch, Gens
    <3> QED BY <1>5, <3>1 DEF Flush, Stored
  <2>3. PICK r \in b.rows : r = 1 \/ \E s \in Stored : r <= s + 1
    BY <1>5 DEF Flush, Flushable, Contiguous
  <2>4. ASSUME NEW s \in Out, NEW t \in b.rows, s < t PROVE s \in Stored \cup b.rows
    <3>0. s \in Seqs /\ t \in Seqs /\ r \in Seqs
      BY <1>1, <2>1
    <3>1. s \in Nat /\ t \in Nat /\ r \in Nat /\ s >= 1
      BY <3>0 DEF Seqs
    <3>2. CASE r < s
      BY <2>1, <2>4, <3>2
    <3>3. CASE r = s
      BY <3>3
    <3>4. CASE s < r
      <4>1. PICK m \in Stored : r <= m + 1
        BY <2>3, <3>1, <3>4
      <4>2. m \in Nat /\ s <= m
        BY <1>1, <3>1, <3>4, <4>1 DEF Seqs
      <4> QED BY <1>1, <3>1, <4>2
    <3> QED BY <3>1, <3>2, <3>3, <3>4
  <2> QED BY <1>1, <2>1, <2>2, <2>4
<1>6. CASE replica' = [s \in Seqs |-> 0]
  BY <1>6 DEF Stored
<1>7. ASSUME NEW n \in 0..MaxSeq, ReplicaRestore(n)
      PROVE  /\ Stored' \subseteq Out
             /\ \A s \in Out, t \in Stored' : s < t => s \in Stored'
  <2>1. Stored' = {t \in Stored : t <= n}
    BY <1>7 DEF ReplicaRestore, Stored
  <2>2. n \in Int /\ Out \subseteq Int /\ Stored \subseteq Int
    BY <1>1, BoundsAssumption DEF Seqs
  <2>3. ASSUME NEW s \in Out, NEW t \in Stored', s < t PROVE s \in Stored'
    <3>1. s \in Stored /\ t <= n
      BY <1>1, <2>1, <2>3
    <3> QED BY <2>1, <2>2, <2>3, <3>1
  <2> QED BY <1>1, <2>1, <2>3
<1> QED BY <1>4, <1>5, <1>6, <1>7, ReplicaChange

\* Nothing is stored and nothing on its way as the world begins.
LEMMA SyncInit == Init => SyncInv
BY DEF Init, SyncInv, NumbersInOrder, IntervalsTravel, StoredIsPrefix, Stored, Interval, IdleJob

\* A prefix of the rows to send has no holes.
LEMMA SyncImpliesNoHoles ==
  ASSUME TypeOK, SyncInv, MaxGen = 1
  PROVE  NoHoles
BY DEF SyncInv, StoredIsPrefix, NoHoles, Stored, TypeOK, Gens

\* While INSERTs are serialised and the world is never started over, no reader
\* of the replica sees a row before the rows to be sent that precede it:
\* whatever the sizes of batches, windows and buffers, through disconnects,
\* crashes, restarts, gaps, rebuilds and restores of the replica.
THEOREM NoHolesOnOneTimeline ==
  ASSUME SingleWriter, MaxGen = 1
  PROVE  Spec => []NoHoles
<1>1. Init => TypeOK /\ SyncInv
  BY TypeInit, SyncInit
<1>2. TypeOK /\ SyncInv /\ [Next]_vars => TypeOK' /\ SyncInv'
  BY TypeStep, NumbersStep, TravelStep, PrefixStep DEF SyncInv
<1>3. TypeOK /\ SyncInv => NoHoles
  BY SyncImpliesNoHoles
<1> QED BY <1>1, <1>2, <1>3, PTL DEF Spec

(***************************************************************************)
(* Acknowledged positions.  A frame sent again lies no further behind what *)
(* is stored than the lag (FramesAdvance), so only a restore makes the     *)
(* replica forget a row; how long the world has run does not matter.       *)
(***************************************************************************)
\* Nothing looks like a second world.
LEMMA NoRebuild ==
  ASSUME TypeOK, MaxGen = 1, FramesAdvance
  PROVE  ~ RebuildOnConflict /\ ~ RebuildOnRegression
<1>1. ~ RebuildOnConflict
  <2>1. ASSUME NEW b \in pending PROVE ~ Conflicts(b)
    <3>1. b.gen = 1 /\ b.rows \subseteq Seqs
      BY DEF TypeOK, Batch, Gens
    <3> QED BY <3>1 DEF Conflicts, TypeOK
  <2> QED BY <2>1 DEF RebuildOnConflict
<1>2. ~ RebuildOnRegression
  <2>1. ASSUME NEW b \in Batch, NEW s \in Stored, s <= Top(b.rows) + Lag
        PROVE  ~ (SimTime(b.gen, Top(b.rows)) < SimTime(replica[s], s) - Lag)
    <3>1. b.gen = 1 /\ replica[s] = 1 /\ s \in Seqs
      BY DEF TypeOK, Batch, Gens, Stored
    <3>2. Top(b.rows) \in 0..MaxSeq
      BY TopType DEF Batch
    <3>3. Origin[1] \in Nat /\ Lag \in Nat /\ MaxSeq \in Nat
      BY BoundsAssumption
    <3> QED BY <2>1, <3>1, <3>2, <3>3 DEF SimTime, Seqs
  <2>2. ASSUME RebuildOnRegression PROVE FALSE
    <3>1. Head(toCloud) \in Frames /\ Head(toCloud).frame = "batch" /\ toCloud # <<>>
      BY <2>2 DEF RebuildOnRegression, TypeOK
    <3>2. Head(toCloud).batch \in Batch
      BY <3>1, FrameContents
    <3>3. ASSUME NEW s \in Stored PROVE s <= Top(Head(toCloud).batch.rows) + Lag
      <4>1. replica[s] = 1 /\ Head(toCloud).batch.gen = 1
        BY <3>2 DEF TypeOK, Batch, Gens, Stored
      <4> QED BY <3>1, <4>1 DEF FramesAdvance
    <3> QED BY <2>1, <2>2, <3>2, <3>3 DEF RebuildOnRegression, SimTimeRegressed
  <2> QED BY <2>2
<1> QED BY <1>1, <1>2

\* A step is a restore of the replica, which ends the connection, or none.
LEMMA RestoreOrNot ==
  ASSUME [Next]_vars, restores' # restores
  PROVE  /\ restores < MaxRestores /\ restores' = restores + 1
         /\ toKernel' = <<>> /\ job' = IdleJob
         /\ UNCHANGED <<row, acked>> /\ Stored' \subseteq Stored
<1>1. PICK s \in 0..MaxSeq : ReplicaRestore(s)
  BY DEF Next, Kernel, Client, Ingest, Environment, vars, kernelVars, clientVars, cloudVars,
   faultVars, TakeNumber, FinishInsert, Connect, ConnectFails, ReceiveHelloAck, Hold,
   SendBatch, ReceiveReply, StartCatchup, CatchupSend, CatchupReceive, EndCatchup,
   ReceiveTimeout, AnswerHello, ReceiveBatch, Flush, SendAck, RebuildOnConflict,
   RebuildOnRegression, Rebuild, Disconnect, KernelCrash, IngestRestart, Reseed
<1> QED BY <1>1 DEF ReplicaRestore, CloseConnection, kernelVars, Stored

\* The replica keeps what it stores.
LEMMA StoredGrows ==
  ASSUME TypeOK, MaxGen = 1, restores' = restores, FramesAdvance, [Next]_vars
  PROVE  Stored \subseteq Stored'
<1>1. CASE replica' = replica
  BY <1>1 DEF Stored
<1>2. ASSUME NEW b \in pending, Flush(b) PROVE Stored \subseteq Stored'
  <2>1. b.gen # 0
    BY DEF TypeOK, Batch, Gens
  <2> QED BY <1>2, <2>1 DEF Flush, Stored
<1>3. ~ RebuildOnConflict /\ ~ RebuildOnRegression
  BY NoRebuild
<1>4. ASSUME NEW s \in 0..MaxSeq PROVE ~ ReplicaRestore(s)
  BY DEF ReplicaRestore, TypeOK
<1> QED BY <1>1, <1>2, <1>3, <1>4, ReplicaChange

\* What the ingest side answers, and what the client makes of it.
LEMMA RepliesChange ==
  ASSUME [Next]_vars
  PROVE  \/ toKernel' = toKernel \/ toKernel' = <<>>
         \/ toKernel # <<>> /\ toKernel' = Tail(toKernel)
         \/ \E m : toKernel' = Append(toKernel, HelloAck(m))
         \/ \E m : toKernel' = Append(toKernel, Nack(m))
         \/ toKernel' = Append(toKernel, Ack(MaxStored, job.reset))
BY DEF Next, Kernel, Client, Ingest, Environment, vars, kernelVars, clientVars, cloudVars,
   TakeNumber, FinishInsert, Connect, ConnectFails, ReceiveHelloAck, Hold, SendBatch,
   ReceiveReply, StartCatchup, CatchupSend, CatchupReceive, EndCatchup, ReceiveTimeout,
   AnswerHello, ReceiveBatch, Flush, SendAck, RebuildOnConflict, RebuildOnRegression, Rebuild,
   Disconnect, KernelCrash, IngestRestart, ReplicaRestore, Reseed, CloseConnection, Reply

\* The position acknowledged is kept, forgotten or read from an ack.
LEMMA AckedChange ==
  ASSUME [Next]_vars, TypeOK, MaxGen = 1
  PROVE  \/ acked' = acked \/ acked' = 0
         \/ /\ toKernel # <<>> /\ Head(toKernel).frame = "ack"
            /\ acked' = Head(toKernel).upto
<1> SUFFICES ASSUME acked' # acked
             PROVE  \/ acked' = 0
                    \/ /\ toKernel # <<>> /\ Head(toKernel).frame = "ack"
                       /\ acked' = Head(toKernel).upto
  OBVIOUS
<1>1. CASE ReceiveReply
  BY <1>1 DEF ReceiveReply, HandleAck, HandleNack
<1>2. CASE CatchupReceive
  BY <1>2 DEF CatchupReceive, HandleAck, HandleNack
<1> QED
  BY <1>1, <1>2, NoReseed
  DEF Next, Kernel, Client, Ingest, Environment, vars, kernelVars, clientVars, cloudVars,
   TakeNumber, FinishInsert, Connect, ConnectFails, ReceiveHelloAck, Hold, SendBatch,
   StartCatchup, CatchupSend, EndCatchup, ReceiveTimeout, AnswerHello, ReceiveBatch, Flush,
   SendAck, RebuildOnConflict, RebuildOnRegression, Disconnect, KernelCrash, IngestRestart,
   ReplicaRestore

\* Every step keeps what is acknowledged, or about to be, among what is stored.
LEMMA AckStep ==
  ASSUME TypeOK, AckInv, MaxGen = 1, FramesAdvance, [Next]_vars
  PROVE  AckInv'
<1>0. CASE restores' # restores
  <2>1. restores' # 0
    BY <1>0, RestoreOrNot DEF TypeOK
  <2> QED BY <1>0, <2>1, RestoreOrNot DEF AckInv
<1>k. SUFFICES ASSUME restores' = restores PROVE AckInv'
  BY <1>0
<1>1. {0} \cup Stored \subseteq {0} \cup Stored'
  BY <1>k, StoredGrows
<1>2. restores' = 0 => acked' \in {0} \cup Stored'
  <2>1. CASE toKernel # <<>> /\ Head(toKernel).frame = "ack" /\ acked' = Head(toKernel).upto
    <3>1. 1 \in DOMAIN toKernel /\ Head(toKernel) = toKernel[1]
      BY <2>1 DEF TypeOK
    <3> QED BY <1>1, <2>1, <3>1 DEF AckInv
  <2> QED BY <1>k, <1>1, <2>1, AckedChange DEF AckInv
<1>3. ASSUME NEW i \in DOMAIN toKernel', toKernel'[i].frame = "ack"
      PROVE  toKernel'[i].upto \in {0} \cup Stored'
  <2>t. toKernel \in Seq(Replies)
    BY DEF TypeOK
  <2>1. CASE toKernel' = toKernel
    BY <1>1, <1>3, <2>1 DEF AckInv
  <2>2. CASE toKernel' = <<>>
    BY <1>3, <2>2
  <2>3. CASE toKernel # <<>> /\ toKernel' = Tail(toKernel)
    <3>1. i + 1 \in DOMAIN toKernel /\ toKernel'[i] = toKernel[i + 1]
      BY <2>3, <2>t, HeadTailProperties
    <3> QED BY <1>1, <1>3, <3>1 DEF AckInv
  <2>4. ASSUME NEW msg, toKernel' = Append(toKernel, msg),
               msg.frame = "ack" => msg.upto \in {0} \cup Stored'
        PROVE  toKernel'[i].upto \in {0} \cup Stored'
    <3>1. CASE i \in DOMAIN toKernel
      <4>1. toKernel'[i] = toKernel[i]
        BY <2>t, <2>4, <3>1
      <4> QED BY <1>1, <1>3, <3>1, <4>1 DEF AckInv
    <3>2. CASE i \notin DOMAIN toKernel
      <4>1. toKernel'[i] = msg
        BY <1>3, <2>t, <2>4, <3>2
      <4> QED BY <1>3, <2>4, <4>1
    <3> QED BY <3>1, <3>2
  <2>5. MaxStored \in {0} \cup Stored'
    <3>1. MaxStored \in {0} \cup Stored
      BY TopType DEF MaxStored, Stored
    <3> QED BY <1>1, <3>1
  <2>6. /\ \A m : HelloAck(m).frame # "ack" /\ Nack(m).frame # "ack"
        /\ \A reset : Ack(MaxStored, reset).upto = MaxStored
    BY DEF HelloAck, Nack, Ack
  <2> QED BY <2>1, <2>2, <2>3, <2>4, <2>5, <2>6, RepliesChange
<1> QED BY <1>2, <1>3 DEF AckInv

\* Nothing is acknowledged as the world begins.
LEMMA AckInvInit == Init => AckInv
BY DEF Init, AckInv

\* No row is given up: whatever the kernel has recorded as acknowledged is in
\* the replica, however long its one world runs, as long as no frame sent again
\* lies further behind than the lag and the replica is never restored.
THEOREM AckedOnOneTimeline ==
  ASSUME SingleWriter, MaxGen = 1, MaxRestores = 0
  PROVE  Spec /\ []FramesAdvance => []AckedIsStored
<1>1. Init => TypeOK /\ SyncInv /\ AckInv
  BY TypeInit, SyncInit, AckInvInit
<1>2. TypeOK /\ SyncInv /\ AckInv /\ FramesAdvance /\ [Next]_vars
         => TypeOK' /\ SyncInv' /\ AckInv'
  BY TypeStep, NumbersStep, TravelStep, PrefixStep, AckStep DEF SyncInv
<1>3. TypeOK /\ SyncInv /\ AckInv => AckedIsStored
  <2> SUFFICES ASSUME TypeOK, SyncInv, AckInv, NEW s \in Out, s <= acked
               PROVE  replica[s] # 0
    BY DEF AckedIsStored
  <2>1. s \in Nat /\ s >= 1 /\ acked \in Int
    BY DEF Out, Seqs, TypeOK
  <2>2. acked \in Stored
    BY <2>1 DEF AckInv, TypeOK
  <2>3. s \in Stored
    BY <2>1, <2>2 DEF SyncInv, StoredIsPrefix
  <2> QED BY <2>3 DEF Stored
<1> QED BY <1>1, <1>2, <1>3, PTL DEF Spec

(***************************************************************************)
(* Refinement: the stream copies a log.                                    *)
(***************************************************************************)
\* With nothing to rebuild, no submit ends in a reset.
LEMMA NoReset ==
  ASSUME TypeOK, MaxGen = 1, FramesAdvance, ~job.reset, [Next]_vars
  PROVE  ~job'.reset
<1> SUFFICES ASSUME job' # job PROVE ~job'.reset
  OBVIOUS
<1>1. CASE ReceiveBatch
  BY <1>1 DEF ReceiveBatch
<1>2. CASE Orphan
  BY <1>2 DEF Orphan, TypeOK
<1>3. CASE job' = IdleJob
  BY <1>3 DEF IdleJob
<1> QED
  BY <1>1, <1>2, <1>3, NoRebuild
  DEF Next, Kernel, Client, Ingest, Environment, vars, kernelVars, clientVars, cloudVars,
   TakeNumber, FinishInsert, Connect, ConnectFails, ReceiveHelloAck, Hold, SendBatch,
   ReceiveReply, StartCatchup, CatchupSend, CatchupReceive, EndCatchup, ReceiveTimeout,
   AnswerHello, Flush, SendAck, Disconnect, KernelCrash, IngestRestart, ReplicaRestore, Reseed

\* The position moves only with the acknowledgement it is read from.
LEMMA AckedIsRead ==
  ASSUME [Next]_vars, TypeOK, AcksInOrder, MaxGen = 1, acked' # acked
  PROVE  /\ toKernel # <<>> /\ Head(toKernel).frame = "ack"
         /\ acked' = Head(toKernel).upto /\ toKernel' = Tail(toKernel)
         /\ UNCHANGED <<row, replica>>
<1>h. ASSUME toKernel # <<>>, Head(toKernel).frame = "ack" PROVE ~Head(toKernel).reset
  <2>1. 1 \in DOMAIN toKernel /\ Head(toKernel) = toKernel[1]
    BY <1>h DEF TypeOK
  <2> QED BY <1>h, <2>1 DEF AcksInOrder
<1>1. CASE ReceiveReply
  BY <1>1, <1>h DEF ReceiveReply, HandleAck, HandleNack, kernelVars, cloudVars
<1>2. CASE CatchupReceive
  BY <1>2, <1>h DEF CatchupReceive, HandleAck, HandleNack, kernelVars, cloudVars
<1> QED
  BY <1>1, <1>2, NoReseed
  DEF Next, Kernel, Client, Ingest, Environment, vars, kernelVars, clientVars, cloudVars,
   TakeNumber, FinishInsert, Connect, ConnectFails, ReceiveHelloAck, Hold, SendBatch,
   StartCatchup, CatchupSend, EndCatchup, ReceiveTimeout, AnswerHello, ReceiveBatch, Flush,
   SendAck, RebuildOnConflict, RebuildOnRegression, Disconnect, KernelCrash, IngestRestart,
   ReplicaRestore

\* What is acknowledged is at most the last row stored.
LEMMA StoredBelowTop ==
  ASSUME NEW m \in {0} \cup Stored
  PROVE  m \in Int /\ MaxStored \in Int /\ 0 <= m /\ m <= MaxStored
<1>1. Stored \subseteq Seqs /\ Seqs \subseteq Int /\ \A s \in Seqs : 0 <= s
  BY DEF Stored, Seqs
<1>2. MaxStored \in Int /\ 0 <= MaxStored
  <2>1. MaxStored \in 0..MaxSeq
    BY <1>1, TopType DEF MaxStored
  <2> QED BY <2>1
<1>3. m \in Stored => m <= MaxStored
  BY <1>1, TopIsMax DEF MaxStored
<1> QED BY <1>1, <1>2, <1>3

\* The acknowledgements keep their order: a new one is no lower than any other.
LEMMA OrderStep ==
  ASSUME TypeOK, AckInv, AcksInOrder, MaxGen = 1, FramesAdvance, [Next]_vars
  PROVE  AcksInOrder'
<1>t. toKernel \in Seq(Replies)
  BY DEF TypeOK
<1>1. ~job'.reset
  BY NoReset DEF AcksInOrder
<1>0. CASE restores' # restores
  BY <1>0, <1>1, RestoreOrNot DEF AcksInOrder
<1>k. SUFFICES ASSUME restores' = restores PROVE AcksInOrder'
  BY <1>0
<1>2. CASE acked' # acked
  <2>1. toKernel # <<>> /\ acked' = Head(toKernel).upto /\ toKernel' = Tail(toKernel)
    BY <1>2, AckedIsRead
  <2>2. Head(toKernel).frame = "ack"
    BY <1>2, AckedIsRead
  <2>3. 1 \in DOMAIN toKernel /\ Head(toKernel) = toKernel[1]
    BY <1>t, <2>1
  <2>4. \A i \in DOMAIN toKernel' :
          i + 1 \in DOMAIN toKernel /\ toKernel'[i] = toKernel[i + 1] /\ i \in Int /\ 1 < i + 1
    BY <1>t, <2>1, HeadTailProperties
  <2>5. ASSUME NEW i \in DOMAIN toKernel', toKernel'[i].frame = "ack"
        PROVE  ~toKernel'[i].reset /\ (restores' = 0 => acked' <= toKernel'[i].upto)
    BY <2>1, <2>2, <2>3, <2>4, <2>5 DEF AcksInOrder
  <2>6. ASSUME NEW i \in DOMAIN toKernel', NEW j \in DOMAIN toKernel', i < j,
               toKernel'[i].frame = "ack", toKernel'[j].frame = "ack"
        PROVE  toKernel'[i].upto <= toKernel'[j].upto
    <3>1. i + 1 < j + 1
      BY <2>4, <2>6
    <3> QED BY <2>4, <2>6, <3>1 DEF AcksInOrder
  <2> QED BY <1>1, <2>5, <2>6 DEF AcksInOrder
<1>3. CASE acked' = acked
  <2>1. CASE toKernel' = toKernel
    BY <1>k, <1>1, <1>3, <2>1 DEF AcksInOrder
  <2>2. CASE toKernel' = <<>>
    BY <1>1, <2>2 DEF AcksInOrder
  <2>3. CASE toKernel # <<>> /\ toKernel' = Tail(toKernel)
    <3>1. \A i \in DOMAIN toKernel' :
            i + 1 \in DOMAIN toKernel /\ toKernel'[i] = toKernel[i + 1] /\ i \in Int
      BY <1>t, <2>3, HeadTailProperties
    <3>2. ASSUME NEW i \in DOMAIN toKernel', NEW j \in DOMAIN toKernel', i < j,
                 toKernel'[i].frame = "ack", toKernel'[j].frame = "ack"
          PROVE  toKernel'[i].upto <= toKernel'[j].upto
      <4>1. i + 1 < j + 1
        BY <3>1, <3>2
      <4> QED BY <3>1, <3>2, <4>1 DEF AcksInOrder
    <3> QED BY <1>k, <1>1, <1>3, <3>1, <3>2 DEF AcksInOrder
  <2>4. ASSUME NEW msg, toKernel' = Append(toKernel, msg),
               msg.frame = "ack" => ~msg.reset /\ msg.upto = MaxStored
        PROVE  AcksInOrder'
    <3> DEFINE n == Len(toKernel)
    <3>1. /\ n \in Nat /\ DOMAIN toKernel = 1..n /\ DOMAIN toKernel' = 1..(n + 1)
          /\ toKernel'[n + 1] = msg /\ \A i \in 1..n : toKernel'[i] = toKernel[i]
      BY <1>t, <2>4, AppendProperties
    <3>2. \A i \in 1..n : toKernel[i].frame = "ack" => toKernel[i].upto <= MaxStored
      BY <3>1, StoredBelowTop DEF AckInv
    <3>3. restores = 0 => acked <= MaxStored
      BY StoredBelowTop DEF AckInv
    <3>4. ASSUME NEW i \in 1..(n + 1), toKernel'[i].frame = "ack"
          PROVE  ~toKernel'[i].reset /\ (restores = 0 => acked <= toKernel'[i].upto)
      <4>1. CASE i \in 1..n
        BY <3>1, <3>4, <4>1 DEF AcksInOrder
      <4>2. CASE i = n + 1
        BY <2>4, <3>1, <3>3, <3>4, <4>2
      <4> QED BY <3>1, <4>1, <4>2
    <3>5. ASSUME NEW i \in 1..(n + 1), NEW j \in 1..(n + 1), i < j,
                 toKernel'[i].frame = "ack", toKernel'[j].frame = "ack"
          PROVE  toKernel'[i].upto <= toKernel'[j].upto
      <4>1. i \in 1..n
        BY <3>1, <3>5
      <4>2. CASE j \in 1..n
        BY <3>1, <3>5, <4>1, <4>2 DEF AcksInOrder
      <4>3. CASE j = n + 1
        BY <2>4, <3>1, <3>2, <3>5, <4>1, <4>3
      <4> QED BY <3>1, <4>2, <4>3
    <3> QED BY <1>k, <1>1, <1>3, <3>1, <3>4, <3>5 DEF AcksInOrder
  <2>5. /\ \A m : HelloAck(m).frame # "ack" /\ Nack(m).frame # "ack"
        /\ Ack(MaxStored, job.reset).upto = MaxStored /\ ~Ack(MaxStored, job.reset).reset
    BY DEF HelloAck, Nack, Ack, AcksInOrder
  <2> QED BY <2>1, <2>2, <2>3, <2>4, <2>5, RepliesChange
<1> QED BY <1>2, <1>3

\* The kernel's table and the replica never change in one step.
LEMMA OneTableAtATime ==
  ASSUME [Next]_vars, MaxGen = 1, TypeOK, row' # row
  PROVE  replica' = replica
BY RowChange, NoReseed DEF TakeNumber, FinishInsert, KernelCrash, cloudVars

\* A step is a step of the log's copy, or leaves all that it shows as it is.
LEMMA StepCopies ==
  ASSUME SingleWriter, MaxGen = 1, FramesAdvance,
         TypeOK, SyncInv, AckInv, AcksInOrder, [Next]_vars
  PROVE  [Log!LogNext]_(Log!logVars)
<1>p. Stored' \subseteq Out' /\ \A s \in Out', t \in Stored' : s < t => s \in Stored'
  BY PrefixStep DEF StoredIsPrefix
<1>0. CASE restores' # restores
  <2>1. /\ restores < MaxRestores /\ restores' = restores + 1 /\ acked' = acked
        /\ Out' = Out /\ Stored' \subseteq Stored
    BY <1>0, RestoreOrNot DEF Out
  <2> QED BY <1>p, <2>1 DEF Log!LogNext, Log!Lose, Log!Beginning
<1>k. SUFFICES ASSUME restores' = restores PROVE [Log!LogNext]_(Log!logVars)
  BY <1>0
<1>1. CASE acked' # acked
  <2>1. /\ toKernel # <<>> /\ Head(toKernel).frame = "ack" /\ acked' = Head(toKernel).upto
        /\ Out' = Out /\ Stored' = Stored
    BY <1>1, AckedIsRead DEF Out, Stored
  <2>2. 1 \in DOMAIN toKernel /\ Head(toKernel) = toKernel[1]
    BY <2>1 DEF TypeOK
  <2>3. acked' \in {0} \cup Stored /\ (restores = 0 => acked <= acked')
    BY <2>1, <2>2 DEF AckInv, AcksInOrder
  <2>4. acked \in Int /\ acked' \in Int /\ restores \in Nat
    BY <2>3, StoredBelowTop DEF TypeOK
  <2>5. acked < acked' \/ restores > 0
    BY <1>1, <2>3, <2>4
  <2> QED BY <1>k, <2>1, <2>3, <2>5 DEF Log!LogNext, Log!Learn
<1>2. CASE acked' = acked /\ Out' # Out
  <2>1. row' # row
    BY <1>2 DEF Out
  <2>2. Stored' = Stored
    BY <2>1, OneTableAtATime DEF Stored
  <2>3. PICK s \in Seqs, k \in RowState : FinishInsert(s, k)
    <3>1. ASSUME NEW t \in Seqs PROVE ~TakeNumber(t)
      BY <1>2 DEF TakeNumber, Out, TypeOK
    <3>2. ~KernelCrash
      BY <1>2 DEF KernelCrash, Out, TypeOK
    <3> QED BY <2>1, <3>1, <3>2, RowChange, NoReseed
  <2>4. Out' \subseteq Out \cup {s} /\ s \notin Out
    BY <2>3 DEF FinishInsert, Out, TypeOK
  <2>5. Out' = Out \cup {s} /\ \A t \in Out : t < s
    BY <1>2, <2>4, OutGrows DEF SyncInv
  <2> QED BY <1>k, <1>2, <2>2, <2>4, <2>5 DEF Log!LogNext, Log!Write
<1>3. CASE acked' = acked /\ Out' = Out
  <2>1. Stored \subseteq Stored'
    BY <1>k, StoredGrows
  <2> QED BY <1>k, <1>p, <1>3, <2>1 DEF Log!LogNext, Log!Copy, Log!Beginning
<1> QED BY <1>1, <1>2, <1>3

\* The log, its copy and the position begin empty.
LEMMA InitCopies == Init => Log!LogInit /\ AcksInOrder
BY DEF Init, Log!LogInit, Out, Stored, AcksInOrder, IdleJob

\* The stream implements the copy of a log: batches, buffers, pipelining and
\* resends are invisible in what is written, stored and acknowledged, however
\* long the world runs, as long as no frame sent again lies further behind
\* what is stored than the lag.
THEOREM StreamCopiesTheLog ==
  ASSUME SingleWriter, MaxGen = 1
  PROVE  Spec /\ []FramesAdvance => CopiesTheLog
<1> DEFINE Inv == TypeOK /\ SyncInv /\ AckInv /\ AcksInOrder
<1>1. Init => Inv /\ Log!LogInit
  BY TypeInit, SyncInit, AckInvInit, InitCopies
<1>2. Inv /\ FramesAdvance /\ [Next]_vars => Inv'
  BY TypeStep, NumbersStep, TravelStep, PrefixStep, AckStep, OrderStep DEF SyncInv
<1>3. Inv /\ FramesAdvance /\ [Next]_vars => [Log!LogNext]_(Log!logVars)
  BY StepCopies
<1> QED BY <1>1, <1>2, <1>3, PTL DEF Spec, CopiesTheLog, Log!LogSpec

(***************************************************************************)
(* Several worlds.  Rows become visible in order, and no number is left    *)
(* out; connections break, processes die and the replica is restored.      *)
(***************************************************************************)
\* What a reseed leaves of the table and the connection: nothing.
LEMMA ReseedFacts ==
  ASSUME TypeOK, NEW survives, Reseed(survives)
  PROVE  /\ gen' = gen + 1 /\ row' = [s \in Seqs |-> "none"]
         /\ toCloud' = <<>> /\ toKernel' = <<>> /\ buffer' = {} /\ phase' = "down"
         /\ replica' = replica /\ pending' = pending
         /\ job' = [job EXCEPT !.live = FALSE]
BY DEF Reseed, CloseConnection, ForgetMemory, Orphan

\* A nonempty set of row numbers has a least element.
LEMMA MinExists ==
  ASSUME NEW S, S \subseteq Seqs, S # {}
  PROVE  \E m \in S : \A n \in S : m <= n
<1> DEFINE T == {MaxSeq + 1 - n : n \in S}
<1>1. MaxSeq \in Nat
  BY BoundsAssumption
<1>2. T \subseteq 1..MaxSeq /\ T # {}
  <2>1. ASSUME NEW n \in S PROVE MaxSeq + 1 - n \in 1..MaxSeq
    <3>1. n \in Int /\ 1 <= n /\ n <= MaxSeq
      BY <1>1 DEF Seqs
    <3> QED BY <1>1, <3>1
  <2> QED BY <2>1
<1>3. PICK m \in T : \A n \in T : n <= m
  <2> HIDE DEF T
  <2> QED BY <1>1, <1>2, MaxExists
<1>4. PICK k \in S : m = MaxSeq + 1 - k
  BY <1>3
<1>5. ASSUME NEW n \in S PROVE k <= n
  <2>1. MaxSeq + 1 - n <= MaxSeq + 1 - k
    BY <1>3, <1>4
  <2> QED BY <1>1, <2>1 DEF Seqs
<1> QED BY <1>5

\* The number of a batch is its first row.
LEMMA FromIsFirst ==
  ASSUME NEW b \in Batch
  PROVE  /\ From(b) \in b.rows /\ From(b) \in Seqs /\ \A n \in b.rows : From(b) <= n
         /\ 1 \in b.rows => From(b) = 1
<1>1. b.rows \subseteq Seqs /\ b.rows # {}
  BY DEF Batch
<1>2. From(b) \in b.rows /\ \A n \in b.rows : From(b) <= n
  BY <1>1, MinExists DEF From
<1> QED BY <1>1, <1>2 DEF Seqs

\* The table stays without a gap.
LEMMA TableStep ==
  ASSUME TypeOK, OutIsPrefix, SingleWriter, GapKinds = {}, [Next]_vars
  PROVE  OutIsPrefix'
<1> SUFFICES ASSUME row' # row PROVE OutIsPrefix'
  BY DEF OutIsPrefix, NumbersInOrder
<1>1. ASSUME NEW s \in Seqs, TakeNumber(s) PROVE OutIsPrefix'
  BY <1>1 DEF TakeNumber, OutIsPrefix, NumbersInOrder, TypeOK, Seqs
<1>2. ASSUME NEW s \in Seqs, NEW k \in RowState, FinishInsert(s, k) PROVE OutIsPrefix'
  BY <1>2, ChoicesAssumption DEF FinishInsert, OutIsPrefix, NumbersInOrder, TypeOK, Seqs
<1>3. ASSUME KernelCrash PROVE OutIsPrefix'
  BY <1>3 DEF KernelCrash, OutIsPrefix, NumbersInOrder, TypeOK
<1>4. ASSUME NEW survives \in SurvivalModes, Reseed(survives) PROVE OutIsPrefix'
  BY <1>4, ReseedFacts DEF OutIsPrefix, NumbersInOrder
<1> QED BY <1>1, <1>2, <1>3, <1>4, RowChange

\* An interval of a table without gaps is a run of numbers.
LEMMA IntervalIsRun ==
  ASSUME TypeOK, OutIsPrefix, NEW R, Interval(R, Out)
  PROVE  Interval(R, Seqs)
<1>1. \A u \in Seqs, t \in Out : u < t => u \in Out
  BY DEF OutIsPrefix, NumbersInOrder, Out
<1>2. R \subseteq Seqs /\ R \subseteq Out
  BY DEF Interval, Out
<1> QED BY <1>1, <1>2 DEF Interval

\* The first rows fetched from the beginning contain the first row.
LEMMA FetchFirst ==
  ASSUME TypeOK, OutIsPrefix, NEW limit \in Int, FetchAfter(0, limit) # {}
  PROVE  1 \in FetchAfter(0, limit)
<1>1. PICK t \in FetchAfter(0, limit) : TRUE
  OBVIOUS
<1>2. t \in Out /\ t \in Seqs /\ Out \subseteq Seqs
  BY <1>1, FetchAfterType
<1>3. CASE t = 1
  BY <1>1, <1>3
<1>4. CASE t # 1
  <2>1. 1 \in Seqs /\ 1 < t
    BY <1>2, <1>4, BoundsAssumption DEF Seqs
  <2>2. 1 \in Out
    BY <1>2, <2>1 DEF OutIsPrefix, NumbersInOrder, Out
  <2>3. 0 \in Int /\ 0 < 1
    OBVIOUS
  <2> QED BY <1>1, <2>1, <2>2, <2>3, FetchAfterSkipsNothing
<1> QED BY <1>3, <1>4

\* What is sent next from the beginning begins with the first row.
LEMMA SendsFirst ==
  ASSUME TypeOK, OutIsPrefix, cursor = 0, buffer = {} \/ 1 \in buffer
  PROVE  /\ Buffered = {} \/ 1 \in Buffered
         /\ NextCatchupRows = {} \/ 1 \in NextCatchupRows
<1>1. CatchupBatch \in Int /\ BatchSize - Cardinality(buffer) \in Int
  <2>1. Cardinality(buffer) \in Int
    BY CountRows DEF TypeOK
  <2>2. BatchSize \in Int /\ CatchupBatch \in Int
    BY BoundsAssumption
  <2> QED BY <2>1, <2>2
<1>2. NextCatchupRows = {} \/ 1 \in NextCatchupRows
  BY <1>1, FetchFirst DEF NextCatchupRows
<1>3. CASE buffer = {}
  <2>1. Buffered = FetchAfter(0, BatchSize - Cardinality(buffer))
    BY <1>3 DEF Buffered
  <2> QED BY <1>1, <1>2, <2>1, FetchFirst
<1>4. CASE 1 \in buffer
  BY <1>2, <1>4 DEF Buffered
<1> QED BY <1>3, <1>4

\* Whatever is sent is an interval of the table.
LEMMA SentIntervals ==
  ASSUME TypeOK, Interval(buffer, Out)
  PROVE  Interval(Buffered, Out) /\ Interval(NextCatchupRows, Out)
<1>1. cursor \in Int /\ CatchupBatch \in Int
  BY BoundsAssumption DEF TypeOK
<1> QED BY <1>1, BufferedInterval, FetchAfterInterval DEF NextCatchupRows

(***************************************************************************)
(* Batches stay runs of numbers.                                           *)
(***************************************************************************)
\* What arrives is a run of numbers of the kernel's world.
LEMMA ArrivesAsRun ==
  ASSUME TypeOK, RunsTravel, NEW b, Arriving(b)
  PROVE  b \in Batch /\ b.gen = gen /\ Interval(b.rows, Seqs)
<1>1. 1 \in DOMAIN toCloud /\ Head(toCloud) = toCloud[1] /\ toCloud[1] \in Frames
  BY DEF Arriving, TypeOK
<1>2. b = toCloud[1].batch /\ toCloud[1].frame = "batch"
  BY <1>1 DEF Arriving
<1>3. b \in Batch
  BY <1>1, <1>2, FrameContents
<1> QED BY <1>1, <1>2, <1>3 DEF RunsTravel

\* The frames on the socket within a world.
LEMMA FramesStep ==
  ASSUME TypeOK, OutIsPrefix, RunsTravel, [Next]_vars, gen' = gen,
         NEW i \in DOMAIN toCloud', toCloud'[i].frame = "batch"
  PROVE  Interval(toCloud'[i].batch.rows, Seqs) /\ toCloud'[i].batch.gen = gen
<1>1. CASE toCloud' \in {toCloud, <<>>, <<Hello>>}
  BY <1>1 DEF RunsTravel, Hello
<1>2. CASE toCloud # <<>> /\ toCloud' = Tail(toCloud)
  <2>1. i + 1 \in DOMAIN toCloud /\ toCloud'[i] = toCloud[i + 1]
    BY <1>2, HeadTailProperties DEF TypeOK
  <2> QED BY <2>1 DEF RunsTravel
<1>3. ASSUME NEW R, Interval(R, Seqs),
             toCloud' = Append(toCloud, BatchFrame([rows |-> R, gen |-> gen]))
      PROVE  Interval(toCloud'[i].batch.rows, Seqs) /\ toCloud'[i].batch.gen = gen
  <2>1. toCloud \in Seq(Frames)
    BY DEF TypeOK
  <2>2. CASE i \in DOMAIN toCloud
    <3>1. toCloud'[i] = toCloud[i]
      BY <1>3, <2>1, <2>2
    <3> QED BY <2>2, <3>1 DEF RunsTravel
  <2>3. CASE i \notin DOMAIN toCloud
    <3>1. toCloud'[i] = BatchFrame([rows |-> R, gen |-> gen])
      BY <1>3, <2>1, <2>3
    <3> QED BY <1>3, <3>1 DEF BatchFrame
  <2> QED BY <2>2, <2>3
<1>4. Interval(Buffered, Seqs) /\ Interval(NextCatchupRows, Seqs)
  BY SentIntervals, IntervalIsRun DEF RunsTravel
<1> QED BY <1>1, <1>2, <1>3, <1>4, SocketChange

\* Every batch on its way stays a run.
LEMMA RunsStep ==
  ASSUME TypeOK, OutIsPrefix, RunsTravel, [Next]_vars
  PROVE  RunsTravel'
<1>0. Seqs' = Seqs
  BY DEF Seqs
<1>1. ASSUME NEW b \in pending' PROVE Interval(b.rows, Seqs)
  BY <1>1, PendingChange, ArrivesAsRun DEF RunsTravel
<1>2. ASSUME job'.busy PROVE Interval(job'.batch.rows, Seqs)
  BY <1>2, JobChange, ArrivesAsRun DEF RunsTravel
<1>3. ASSUME gen' = gen PROVE RunsTravel'
  <2>1. Interval(buffer', Out')
    <3>1. \A R : Interval(R, Out) => Interval(R, Out')
      <4>1. Out' \subseteq Seqs
        BY DEF Out, Seqs
      <4>2. Out \subseteq Out' /\ \A u \in Out' \ Out, t \in Out : t < u
        BY <1>3, OutGrowsInAWorld DEF OutIsPrefix
      <4> HIDE DEF Out
      <4> QED BY <4>1, <4>2, IntervalStable
    <3>2. Interval(Buffered, Out) /\ Interval({}, Out)
      BY SentIntervals DEF RunsTravel, Interval
    <3> QED BY <3>1, <3>2, BufferChange DEF RunsTravel
  <2>2. ASSUME NEW i \in DOMAIN toCloud', toCloud'[i].frame = "batch"
        PROVE  Interval(toCloud'[i].batch.rows, Seqs) /\ toCloud'[i].batch.gen = gen'
    BY <1>3, <2>2, FramesStep
  <2> QED BY <1>0, <1>1, <1>2, <2>1, <2>2 DEF RunsTravel
<1>4. ASSUME NEW survives \in SurvivalModes, Reseed(survives) PROVE RunsTravel'
  <2>1. buffer' = {} /\ toCloud' = <<>>
    BY <1>4, ReseedFacts
  <2>2. Interval(buffer', Out')
    BY <2>1 DEF Interval
  <2>3. \A i \in DOMAIN toCloud' : FALSE
    BY <2>1
  <2> QED BY <1>0, <1>1, <1>2, <2>2, <2>3 DEF RunsTravel
<1> QED BY <1>3, <1>4, GenChange

(***************************************************************************)
(* The ingest side holds rows of one world.                                *)
(***************************************************************************)
CloudInv == StoredIsBeginning /\ Ages /\ OneTimeline /\ PendingFits /\ JobIsPending

\* A batch that arrives is of the world that is stored, or it is the first of a new one.
LEMMA ArrivesInOrder ==
  ASSUME TypeOK, RunsTravel, CloudInv, FirstRowFirst, ~job.busy, NEW b, Arriving(b)
  PROVE  OfStored(b) \/ (Fresh /\ 1 \in b.rows)
<1>1. b \in Batch /\ b.gen = gen
  BY ArrivesAsRun
<1>2. CASE Fresh
  <2>1. 1 \in DOMAIN toCloud /\ Head(toCloud) = toCloud[1]
    BY DEF Arriving, TypeOK
  <2>2. toCloud[1].frame = "batch" /\ b = toCloud[1].batch /\ NoBatchBefore(1)
    BY <2>1 DEF Arriving, NoBatchBefore, TypeOK
  <2> QED BY <1>2, <2>1, <2>2 DEF FirstRowFirst, BeginsWithFirst
<1>3. CASE ~Fresh
  <2>1. PICK s \in Seqs : replica[s] = gen
    BY <1>3 DEF Fresh, AtWork
  <2>2. s \in Stored
    BY <2>1, BoundsAssumption DEF Stored, TypeOK, Gens
  <2> QED BY <1>1, <2>1, <2>2 DEF OfStored, CloudInv, OneTimeline
<1> QED BY <1>2, <1>3

\* A batch of another world than what is stored begins with the first row.
LEMMA ForeignIsFirst ==
  ASSUME CloudInv, NEW b \in pending, ~OfStored(b)
  PROVE  job.busy /\ b = job.batch /\ 1 \in b.rows
BY DEF CloudInv, PendingFits

\* What is stored conflicts with a batch of another world only.
LEMMA ConflictIsForeign ==
  ASSUME TypeOK, CloudInv, job.busy, NEW b \in pending, Conflicts(b)
  PROVE  1 \in job.batch.rows
<1>1. PICK s \in b.rows : replica[s] \notin {0, b.gen}
  BY DEF Conflicts
<1>2. s \in Seqs
  BY <1>1 DEF TypeOK, Batch
<1>3. ~OfStored(b)
  BY <1>1, <1>2 DEF OfStored, Stored
<1> QED BY <1>3, ForeignIsFirst

\* Worlds are numbered from 1; 0 is no world.
LEMMA WorldNumbers ==
  ASSUME TypeOK
  PROVE  /\ gen \in Nat /\ gen >= 1 /\ \A b \in Batch : b.gen \in Nat /\ b.gen >= 1
         /\ \A s \in Seqs : replica[s] \in Nat
<1>1. MaxGen \in Nat
  BY BoundsAssumption
<1>2. gen \in 1..MaxGen /\ replica \in [Seqs -> 0..MaxGen] /\ \A b \in Batch : b.gen \in 1..MaxGen
  BY DEF TypeOK, Gens, Batch
<1> QED BY <1>1, <1>2

\* A disconnect, the end of the kernel's process or of its world leave the ingest side as it is.
LEMMA OrphanKeeps ==
  ASSUME TypeOK, CloudInv, replica' = replica, pending' = pending,
         job' = [job EXCEPT !.live = FALSE], gen' \in Int, gen <= gen'
  PROVE  CloudInv'
<1>1. /\ Stored' = Stored /\ Seqs' = Seqs
      /\ job'.busy = job.busy /\ job'.batch = job.batch /\ job'.live = FALSE
  BY DEF Stored, Seqs, TypeOK
<1>2. gen \in Nat /\ \A s \in Seqs : replica[s] \in Nat
  BY WorldNumbers
<1>3. job.busy => job.batch.gen \in Nat
  BY WorldNumbers DEF TypeOK
<1>4. Ages'
  BY <1>1, <1>2, <1>3 DEF CloudInv, Ages
<1>5. StoredIsBeginning' /\ OneTimeline'
  BY <1>1 DEF CloudInv, StoredIsBeginning, OneTimeline
<1>6. PendingFits' /\ JobIsPending'
  BY <1>1 DEF CloudInv, PendingFits, JobIsPending, OfStored
<1> QED BY <1>4, <1>5, <1>6 DEF CloudInv

\* A rebuild leaves the batch it was for, and no refusal of it.
LEMMA RebuildKeeps ==
  ASSUME TypeOK, NEW b \in Batch, 1 \in b.rows, b.gen <= gen, NEW live, live => b.gen = gen,
         gen' = gen, Rebuild(b, live)
  PROVE  CloudInv' /\ toKernel' = toKernel /\ job'.busy /\ job'.batch = b /\ job'.live = live
<1>1. ~BeyondWindow(b, 1)
  BY FromIsFirst, BoundsAssumption DEF BeyondWindow
<1>2. /\ replica' = [s \in Seqs |-> 0] /\ pending' = {b} /\ toKernel' = toKernel
      /\ job' = [busy |-> TRUE, batch |-> b, reset |-> TRUE, live |-> live]
  BY <1>1 DEF Rebuild
<1>3. Stored' = {} /\ Seqs' = Seqs
  BY <1>2 DEF Stored, Seqs
<1>4. gen \in Nat /\ b.gen \in Nat
  BY WorldNumbers
<1>5. Ages'
  BY <1>2, <1>3, <1>4 DEF Ages
<1>6. StoredIsBeginning' /\ OneTimeline' /\ PendingFits' /\ JobIsPending'
  BY <1>2, <1>3 DEF StoredIsBeginning, OneTimeline, PendingFits, JobIsPending
<1> QED BY <1>2, <1>5, <1>6 DEF CloudInv

\* What the ingest side stores on a conflict is the first batch of another world.
LEMMA ConflictStep ==
  ASSUME TypeOK, CloudInv, RebuildOnConflict
  PROVE  /\ CloudInv' /\ toKernel' = toKernel /\ job'.busy
         /\ job'.batch = job.batch /\ job'.live = job.live
<1>1. PICK b \in pending : job.busy /\ Conflicts(b)
  BY DEF RebuildOnConflict
<1>2. 1 \in job.batch.rows /\ job.batch \in Batch
  BY <1>1, ConflictIsForeign DEF TypeOK
<1>3. job.batch.gen <= gen /\ (job.live => job.batch.gen = gen)
  BY <1>1 DEF CloudInv, Ages
<1>4. gen' = gen /\ Rebuild(job.batch, job.live)
  BY DEF RebuildOnConflict, kernelVars
<1> QED BY <1>2, <1>3, <1>4, RebuildKeeps

\* While a world's own frames advance, a regression is that of a new one.
LEMMA RegressionStep ==
  ASSUME TypeOK, RunsTravel, CloudInv, FirstRowFirst, FramesAdvance, RebuildOnRegression
  PROVE  CloudInv' /\ toKernel' = toKernel /\ job'.busy /\ job'.batch.gen = gen
<1> DEFINE b == Head(toCloud).batch
<1>1. ~job.busy /\ Arriving(b) /\ SimTimeRegressed(b) /\ Rebuild(b, TRUE) /\ gen' = gen
  BY DEF RebuildOnRegression, Arriving, kernelVars
<1>2. b \in Batch /\ b.gen = gen
  BY <1>1, ArrivesAsRun
<1>3. ~OfStored(b)
  <2>1. PICK s \in Stored : SimTime(b.gen, Top(b.rows)) < SimTime(replica[s], s) - Lag
    BY <1>1 DEF SimTimeRegressed
  <2>2. SUFFICES ASSUME replica[s] = b.gen PROVE FALSE
    BY <2>1 DEF OfStored
  <2>3. s <= Top(b.rows) + Lag
    BY <1>1, <2>1, <2>2 DEF FramesAdvance, Arriving
  <2>4. s \in Int /\ Top(b.rows) \in Int /\ Lag \in Int /\ Origin[b.gen] \in Int
    <3>1. b.rows \subseteq Seqs /\ b.gen \in 1..MaxGen
      BY <1>2 DEF Batch, Gens
    <3>2. Top(b.rows) \in 0..MaxSeq
      BY <3>1, TopType
    <3> QED BY <2>1, <3>1, <3>2, BoundsAssumption DEF Stored, Seqs
  <2>5. Origin[b.gen] + Top(b.rows) < (Origin[b.gen] + s) - Lag
    BY <2>1, <2>2 DEF SimTime
  <2> HIDE DEF b
  <2> QED BY <2>3, <2>4, <2>5
<1>4. 1 \in b.rows
  BY <1>1, <1>3, ArrivesInOrder
<1>5. b.gen <= gen
  BY <1>2, BoundsAssumption DEF TypeOK, Gens
<1> HIDE DEF b
<1> QED BY <1>1, <1>2, <1>4, <1>5, RebuildKeeps

\* A batch is taken in beside those of its world, or as the first of a new one.
LEMMA ReceiveStep ==
  ASSUME TypeOK, RunsTravel, CloudInv, FirstRowFirst, ReceiveBatch
  PROVE  /\ CloudInv'
         /\ \/ job'.busy /\ job'.batch.gen = gen /\ toKernel' = toKernel
            \/ UNCHANGED <<replica, pending, job>> /\ ~Fresh
<1> DEFINE b == Head(toCloud).batch
<1>1. ~job.busy /\ Arriving(b) /\ gen' = gen /\ replica' = replica
  BY DEF ReceiveBatch, Arriving, kernelVars
<1>2. b \in Batch /\ b.gen = gen
  BY <1>1, ArrivesAsRun
<1>3. OfStored(b) \/ (Fresh /\ 1 \in b.rows)
  BY <1>1, ArrivesInOrder
<1>4. Stored' = Stored /\ Seqs' = Seqs /\ Stored \subseteq Seqs
  BY <1>1 DEF Stored, Seqs
<1>5. \A p \in pending : OfStored(p)
  BY <1>1 DEF CloudInv, PendingFits
<1>6. CASE BeyondWindow(b, MaxStored + 1)
  <2>1. UNCHANGED <<pending, job>>
    BY <1>6 DEF ReceiveBatch
  <2>2. CloudInv'
    BY <1>1, <1>4, <2>1
    DEF CloudInv, StoredIsBeginning, Ages, OneTimeline, PendingFits, JobIsPending, OfStored
  <2>3. 1 \notin b.rows
    <3>1. MaxStored \in Int /\ 0 <= MaxStored /\ Window \in Int /\ 0 <= Window
      <4>1. MaxStored \in 0..MaxSeq
        BY <1>4, TopType DEF MaxStored
      <4> QED BY <4>1, BoundsAssumption
    <3>2. From(b) \in Int /\ From(b) > MaxStored + 1 + Window
      BY <1>2, <1>6, FromIsFirst DEF BeyondWindow, Seqs
    <3>3. From(b) # 1
      <4> HIDE DEF b
      <4> QED BY <3>1, <3>2
    <3> QED BY <1>2, <3>3, FromIsFirst
  <2>4. ~Fresh
    <3>1. OfStored(b)
      BY <1>3, <2>3
    <3> QED BY <1>2, <1>4, <3>1 DEF OfStored, Fresh
  <2> QED BY <1>1, <2>1, <2>2, <2>4
<1>7. CASE ~BeyondWindow(b, MaxStored + 1)
  <2>1. /\ pending' = PutPending(b) /\ toKernel' = toKernel
        /\ job' = [busy |-> TRUE, batch |-> b, reset |-> FALSE, live |-> TRUE]
    BY <1>7 DEF ReceiveBatch
  <2>2. pending' \subseteq pending \union {b} /\ b \in pending'
    BY <2>1 DEF PutPending
  <2>3. PendingFits' /\ JobIsPending'
    BY <1>1, <1>3, <1>4, <1>5, <2>1, <2>2 DEF PendingFits, JobIsPending, OfStored
  <2>4. StoredIsBeginning' /\ OneTimeline'
    BY <1>1, <1>4 DEF CloudInv, StoredIsBeginning, OneTimeline
  <2>5. Ages'
    <3>1. gen \in Nat
      BY BoundsAssumption DEF TypeOK, Gens
    <3> QED BY <1>1, <1>2, <1>4, <2>1, <3>1 DEF CloudInv, Ages
  <2> QED BY <1>2, <2>1, <2>3, <2>4, <2>5 DEF CloudInv
<1> QED BY <1>6, <1>7

\* When nothing can be flushed, no batch of another world is left.
LEMMA NothingForeignIsLeft ==
  ASSUME TypeOK, CloudInv, \A b \in pending : ~Flushable(b)
  PROVE  (\A b \in pending : OfStored(b)) /\ (job.busy => OfStored(job.batch))
<1>1. ASSUME NEW b \in pending, ~OfStored(b) PROVE FALSE
  <2>1. 1 \in b.rows
    BY <1>1, ForeignIsFirst
  <2>2. b \in Batch /\ pending \subseteq Batch
    BY DEF TypeOK
  <2>3. From(b) = 1 /\ \A p \in pending : From(p) \in Seqs
    BY <2>1, <2>2, FromIsFirst
  <2>4. Contiguous(b)
    BY <2>1 DEF Contiguous
  <2>5. Flushable(b)
    BY <2>3, <2>4, BoundsAssumption DEF Flushable, Seqs
  <2> QED BY <2>5
<1> QED BY <1>1 DEF CloudInv, JobIsPending

\* The acknowledgement.
LEMMA AckStepKeeps ==
  ASSUME TypeOK, CloudInv, SendAck
  PROVE  CloudInv' /\ (AtWork => \E s \in Seqs : replica'[s] = gen)
<1>1. /\ replica' = replica /\ pending' = pending /\ gen' = gen /\ job.busy
      /\ job' = IdleJob /\ \A b \in pending : ~Flushable(b)
  BY DEF SendAck, kernelVars
<1>2. (\A b \in pending : OfStored(b)) /\ OfStored(job.batch)
  BY <1>1, NothingForeignIsLeft
<1>3. Stored' = Stored /\ Seqs' = Seqs /\ ~job'.busy /\ Stored \subseteq Seqs
  BY <1>1 DEF Stored, Seqs, IdleJob
<1>4. CloudInv'
  BY <1>1, <1>2, <1>3
  DEF CloudInv, StoredIsBeginning, Ages, OneTimeline, PendingFits, JobIsPending, OfStored
<1>5. AtWork => \E s \in Seqs : replica'[s] = gen
  BY <1>1, <1>2, <1>3 DEF AtWork, OfStored
<1> QED BY <1>4, <1>5

\* What a flush stores.
LEMMA FlushFacts ==
  ASSUME TypeOK, NEW b \in pending, Flush(b)
  PROVE  /\ Stored' = Stored \union b.rows /\ b.rows \subseteq Seqs /\ b.rows # {}
         /\ \A s \in b.rows : replica'[s] = b.gen
         /\ \A s \in Seqs \ b.rows : replica'[s] = replica[s]
         /\ pending' = pending \ {b} /\ job' = job /\ gen' = gen /\ Seqs' = Seqs
<1>1. b \in Batch
  BY DEF TypeOK
<1>2. b.rows \subseteq Seqs /\ b.rows # {} /\ b.gen # 0
  BY <1>1, WorldNumbers DEF Batch
<1>3. replica' = [s \in Seqs |-> IF s \in b.rows THEN b.gen ELSE replica[s]]
  BY DEF Flush
<1>4. Stored' = Stored \union b.rows /\ Seqs' = Seqs
  BY <1>2, <1>3 DEF Stored, Seqs
<1> QED BY <1>2, <1>3, <1>4 DEF Flush, kernelVars

\* A contiguous run extends a beginning to a beginning.
LEMMA BeginningGrows ==
  ASSUME StoredIsBeginning, NEW b \in Batch, Interval(b.rows, Seqs), Contiguous(b)
  PROVE  \A t \in Stored \union b.rows, s \in Seqs : s < t => s \in Stored \union b.rows
<1>0. Seqs \subseteq Nat /\ Stored \subseteq Seqs /\ b.rows \subseteq Seqs /\ \A s \in Seqs : s >= 1
  BY DEF Seqs, Stored, Batch
<1>1. PICK r \in b.rows : r = 1 \/ \E s \in Stored : r <= s + 1
  BY DEF Contiguous
<1>2. ASSUME NEW t \in b.rows, NEW s \in Seqs, s < t PROVE s \in Stored \union b.rows
  <2>1. s \in Nat /\ t \in Nat /\ r \in Nat /\ s >= 1
    BY <1>0
  <2>2. CASE r < s
    BY <1>2, <2>2 DEF Interval
  <2>3. CASE r = s
    BY <2>3
  <2>4. CASE s < r
    <3>1. PICK m \in Stored : r <= m + 1
      BY <1>1, <2>1, <2>4
    <3>2. m \in Nat /\ s <= m
      BY <1>0, <2>1, <2>4, <3>1
    <3>3. s = m \/ s < m
      BY <2>1, <3>2
    <3> QED BY <3>1, <3>3 DEF StoredIsBeginning
  <2> QED BY <2>1, <2>2, <2>3, <2>4
<1> QED BY <1>2 DEF StoredIsBeginning

\* A batch of another world is flushed into an empty table only.
LEMMA ForeignIntoNothing ==
  ASSUME TypeOK, CloudInv, NEW b \in pending, Flush(b), ~OfStored(b)
  PROVE  Stored = {} /\ b = job.batch /\ pending' = {}
<1>1. job.busy /\ b = job.batch /\ 1 \in b.rows
  BY ForeignIsFirst
<1>2. 1 \in Seqs
  BY BoundsAssumption DEF Seqs
<1>3. Stored = {}
  <2>1. SUFFICES ASSUME NEW t \in Stored PROVE FALSE
    OBVIOUS
  <2>2. 1 \in Stored
    <3>1. t = 1 \/ 1 < t
      BY DEF Stored, Seqs
    <3> QED BY <1>2, <3>1 DEF CloudInv, StoredIsBeginning
  <2>3. replica[1] = b.gen
    BY <1>1, <2>2 DEF Flush, Conflicts, Stored
  <2> QED BY <2>2, <2>3 DEF OfStored, CloudInv, OneTimeline
<1>4. \A p \in pending : p = b
  BY <1>1, <1>3, ForeignIsFirst DEF OfStored
<1>5. pending' = {}
  BY <1>4, FlushFacts
<1> QED BY <1>1, <1>3, <1>5

\* A flush.
LEMMA FlushStep ==
  ASSUME TypeOK, RunsTravel, CloudInv, NEW b \in pending, Flush(b)
  PROVE  CloudInv'
<1>0. /\ Stored' = Stored \union b.rows /\ b.rows \subseteq Seqs /\ b.rows # {}
      /\ \A s \in b.rows : replica'[s] = b.gen
      /\ \A s \in Seqs \ b.rows : replica'[s] = replica[s]
      /\ pending' = pending \ {b} /\ job' = job /\ gen' = gen /\ Seqs' = Seqs
  BY FlushFacts
<1>1. b \in Batch /\ Interval(b.rows, Seqs) /\ Contiguous(b) /\ job.busy
  BY DEF TypeOK, RunsTravel, Flush, Flushable
<1>2. StoredIsBeginning'
  <2>1. \A t \in Stored \union b.rows, s \in Seqs : s < t => s \in Stored \union b.rows
    BY <1>1, BeginningGrows DEF CloudInv
  <2> QED BY <1>0, <2>1 DEF StoredIsBeginning
<1>3. Stored \subseteq Seqs /\ \A s \in Stored' : replica'[s] = b.gen
  <2>1. Stored \subseteq Seqs
    BY DEF Stored
  <2>2. \A s \in Stored : replica[s] = b.gen
    BY ForeignIntoNothing DEF OfStored
  <2> QED BY <1>0, <2>1, <2>2
<1>4. OneTimeline'
  BY <1>3 DEF OneTimeline
<1>5. b.gen <= gen /\ b.gen <= job.batch.gen
  <2>1. CASE OfStored(b)
    <3>1. PICK s \in Stored : replica[s] = b.gen
      BY <2>1 DEF OfStored
    <3> QED BY <1>1, <1>3, <3>1 DEF CloudInv, Ages
  <2>2. CASE ~OfStored(b)
    <3>1. b = job.batch
      BY <2>2, ForeignIntoNothing
    <3>2. b.gen \in Nat
      BY <1>1, WorldNumbers
    <3> QED BY <1>1, <3>1, <3>2 DEF CloudInv, Ages
  <2> QED BY <2>1, <2>2
<1>6. Ages'
  BY <1>0, <1>1, <1>5 DEF CloudInv, Ages
<1>7. Stored' # {} /\ \A p : OfStored(p) => p.gen = b.gen
  <2>1. ASSUME NEW p, OfStored(p) PROVE p.gen = b.gen
    <3>1. PICK s \in Stored : replica[s] = p.gen
      BY <2>1 DEF OfStored
    <3>2. OfStored(b)
      BY <3>1, ForeignIntoNothing
    <3> QED BY <3>1, <3>2 DEF OfStored
  <2> QED BY <1>0, <2>1
<1>8. PendingFits'
  <2>1. ASSUME NEW p \in pending'
        PROVE  OfStored(p)' \/ (job'.busy /\ p = job'.batch /\ 1 \in p.rows)
    <3>1. p \in pending /\ p # b
      BY <1>0
    <3>2. CASE OfStored(p)
      BY <1>3, <1>7, <3>2 DEF OfStored
    <3>3. CASE ~OfStored(p)
      BY <1>0, <3>1, <3>3, ForeignIsFirst
    <3> QED BY <3>2, <3>3
  <2> QED BY <2>1 DEF PendingFits
<1>9. JobIsPending'
  <2>1. CASE job.batch = b \/ OfStored(job.batch)
    <3>1. job.batch.gen = b.gen
      BY <1>7, <2>1
    <3> QED BY <1>0, <1>3, <1>7, <3>1 DEF JobIsPending, OfStored
  <2>2. CASE job.batch # b /\ job.batch \in pending
    BY <1>0, <2>2 DEF JobIsPending
  <2> QED BY <1>1, <2>1, <2>2 DEF CloudInv, JobIsPending
<1> QED BY <1>2, <1>4, <1>6, <1>8, <1>9 DEF CloudInv

\* A restart or a restore leaves a beginning and nothing that is waiting.
LEMMA RestartKeeps ==
  ASSUME TypeOK, CloudInv, pending' = {}, job' = IdleJob, gen' = gen, NEW n \in 0..MaxSeq,
         replica' = replica \/ replica' = [t \in Seqs |-> IF t <= n THEN replica[t] ELSE 0]
  PROVE  CloudInv'
<1>1. ~job'.busy /\ Seqs' = Seqs /\ gen \in Nat /\ n \in Int
  BY WorldNumbers, BoundsAssumption DEF IdleJob, Seqs
<1>2. PendingFits' /\ JobIsPending'
  BY <1>1 DEF PendingFits, JobIsPending
<1>3. CASE replica' = replica
  <2>1. Stored' = Stored
    BY <1>3 DEF Stored, Seqs
  <2> QED BY <1>1, <1>2, <1>3, <2>1 DEF CloudInv, StoredIsBeginning, OneTimeline, Ages
<1>4. CASE replica' = [t \in Seqs |-> IF t <= n THEN replica[t] ELSE 0]
  <2>1. Stored' = {t \in Stored : t <= n} /\ Stored \subseteq Seqs /\ Seqs \subseteq Int
    BY <1>4 DEF Stored, Seqs
  <2>2. StoredIsBeginning'
    <3>1. ASSUME NEW t \in Stored', NEW s \in Seqs, s < t PROVE s \in Stored'
      <4>1. s \in Stored
        BY <2>1, <3>1 DEF CloudInv, StoredIsBeginning
      <4>2. s \in Int /\ t \in Int /\ t <= n
        BY <2>1
      <4> QED BY <1>1, <2>1, <3>1, <4>1, <4>2
    <3> QED BY <1>1, <3>1 DEF StoredIsBeginning
  <2>3. OneTimeline'
    BY <1>4, <2>1 DEF CloudInv, OneTimeline
  <2>4. Ages'
    BY <1>1, <1>4 DEF CloudInv, Ages
  <2> QED BY <1>2, <2>2, <2>3, <2>4 DEF CloudInv
<1> QED BY <1>3, <1>4

\* Every step keeps the ingest side to rows of one world.
LEMMA CloudStep ==
  ASSUME TypeOK, RunsTravel, CloudInv, FirstRowFirst, FramesAdvance, [Next]_vars
  PROVE  CloudInv'
<1>0. gen \in Nat
  BY WorldNumbers
<1>1. CASE UNCHANGED <<replica, pending, job, gen>>
  BY <1>1
  DEF CloudInv, StoredIsBeginning, Ages, OneTimeline, PendingFits, JobIsPending, OfStored,
      Stored, Seqs
<1>2. CASE Disconnect \/ KernelCrash
  <2>1. /\ replica' = replica /\ pending' = pending /\ gen' = gen
        /\ job' = [job EXCEPT !.live = FALSE]
    BY <1>2 DEF Disconnect, KernelCrash, kernelVars, Orphan
  <2> QED BY <1>0, <2>1, OrphanKeeps
<1>3. ASSUME NEW survives \in SurvivalModes, Reseed(survives) PROVE CloudInv'
  <2>1. /\ replica' = replica /\ pending' = pending /\ gen' = gen + 1
        /\ job' = [job EXCEPT !.live = FALSE]
    BY <1>3, ReseedFacts
  <2> QED BY <1>0, <2>1, OrphanKeeps
<1>4. ASSUME NEW n \in 0..MaxSeq, IngestRestart \/ ReplicaRestore(n) PROVE CloudInv'
  <2>1. /\ pending' = {} /\ job' = IdleJob /\ gen' = gen
        /\ replica' = replica \/ replica' = [t \in Seqs |-> IF t <= n THEN replica[t] ELSE 0]
    BY <1>4 DEF IngestRestart, ReplicaRestore, kernelVars
  <2> QED BY <2>1, RestartKeeps
<1>5. CASE Ingest
  <2>1. CASE AnswerHello
    BY <1>1, <2>1 DEF AnswerHello, kernelVars, cloudVars
  <2> QED BY <1>5, <2>1, ReceiveStep, AckStepKeeps, FlushStep, ConflictStep, RegressionStep
      DEF Ingest
<1>6. CASE Kernel \/ Client \/ UNCHANGED vars
  <2>1. UNCHANGED <<replica, pending, job, gen>>
    BY <1>6 DEF Kernel, Client, vars, kernelVars, clientVars, cloudVars, TakeNumber,
       FinishInsert, Connect, ConnectFails, ReceiveHelloAck, Hold, SendBatch, ReceiveReply,
       StartCatchup, CatchupSend, CatchupReceive, EndCatchup, ReceiveTimeout
  <2> QED BY <1>1, <2>1
<1>7. 0 \in 0..MaxSeq
  BY BoundsAssumption
<1> QED BY <1>2, <1>3, <1>4, <1>5, <1>6, <1>7 DEF Next, Environment

(***************************************************************************)
(* A world's first row comes first.                                        *)
(***************************************************************************)
\* The end of a connection leaves nothing on it.
LEMMA ClosedSays ==
  ASSUME CloseConnection
  PROVE  FirstRowFirst'
BY DEF CloseConnection, FirstRowFirst, BeginsWithFirst

\* Only the end of a connection makes what has come through as nothing.
LEMMA StaysThrough ==
  ASSUME UNCHANGED <<replica, job, gen>>
  PROVE  Fresh' = Fresh
BY DEF Fresh, AtWork, Seqs

\* A new connection.
LEMMA ConnectSays ==
  ASSUME FirstRowFirst, StartsAfresh, Connect
  PROVE  FirstRowFirst'
<1>1. /\ phase = "down" /\ phase' = "hello" /\ cursor' = ResumePoint /\ toCloud' = <<Hello>>
      /\ toKernel' = <<>> /\ buffer' = buffer
  BY DEF Connect
<1>2. Fresh' = Fresh
  BY StaysThrough DEF Connect, kernelVars, cloudVars
<1>3. ASSUME Fresh' PROVE BeginsWithFirst'
  <2>1. cursor' = 0 /\ (buffer' = {} \/ 1 \in buffer')
    BY <1>1, <1>2, <1>3 DEF StartsAfresh
  <2>2. \A i \in DOMAIN toCloud' : toCloud'[i].frame # "batch"
    BY <1>1 DEF Hello
  <2>3. \A i \in DOMAIN toKernel' : FALSE
    BY <1>1
  <2> QED BY <2>1, <2>2, <2>3 DEF BeginsWithFirst
<1> QED BY <1>1, <1>3 DEF FirstRowFirst

\* Steps of the kernel and the client that send and receive nothing.
LEMMA QuietSays ==
  ASSUME TypeOK, OutIsPrefix, FirstRowFirst,
         UNCHANGED <<gen, replica, job, toCloud, toKernel, cursor>>,
         phase' = phase \/ (phase # "down" /\ phase' # "down"),
         buffer' \in {buffer, Buffered}
  PROVE  FirstRowFirst'
<1>1. Fresh' = Fresh
  BY StaysThrough
<1>2. ASSUME Fresh', phase' # "down", \A i \in DOMAIN toCloud' : toCloud'[i].frame # "batch"
      PROVE  cursor' = 0 /\ (buffer' = {} \/ 1 \in buffer')
  <2>1. cursor = 0 /\ (buffer = {} \/ 1 \in buffer)
    BY <1>1, <1>2 DEF FirstRowFirst, BeginsWithFirst
  <2> QED BY <2>1, SendsFirst
<1> QED BY <1>1, <1>2 DEF FirstRowFirst, BeginsWithFirst, NoBatchBefore

\* A batch is sent.
LEMMA SendSays ==
  ASSUME TypeOK, OutIsPrefix, FirstRowFirst, UNCHANGED <<gen, replica, job, toKernel>>,
         phase # "down", phase' # "down", NEW R \in {Buffered, NextCatchupRows}, R # {},
         toCloud' = Append(toCloud, BatchFrame([rows |-> R, gen |-> gen]))
  PROVE  FirstRowFirst'
<1> DEFINE f == BatchFrame([rows |-> R, gen |-> gen])
<1>1. Fresh' = Fresh
  BY StaysThrough
<1>2. /\ toCloud \in Seq(Frames) /\ DOMAIN toCloud' = 1..(Len(toCloud) + 1)
      /\ DOMAIN toCloud = 1..Len(toCloud) /\ Len(toCloud) \in Nat
      /\ toCloud'[Len(toCloud) + 1] = f /\ \A i \in DOMAIN toCloud : toCloud'[i] = toCloud[i]
  BY DEF TypeOK
<1>3. f.frame = "batch" /\ f.batch.rows = R
  BY DEF BatchFrame
<1> HIDE DEF f
<1>4. ASSUME Fresh' PROVE BeginsWithFirst'
  <2>1. BeginsWithFirst
    BY <1>1, <1>4 DEF FirstRowFirst
  <2>2. ASSUME NEW i \in DOMAIN toCloud', toCloud'[i].frame = "batch", NoBatchBefore(i)'
        PROVE  1 \in toCloud'[i].batch.rows
    <3>1. CASE i \in DOMAIN toCloud
      <4>1. NoBatchBefore(i)
        BY <1>2, <2>2 DEF NoBatchBefore
      <4> QED BY <1>2, <2>1, <2>2, <3>1, <4>1 DEF BeginsWithFirst
    <3>2. CASE i = Len(toCloud) + 1
      <4>1. \A j \in DOMAIN toCloud : toCloud[j].frame # "batch"
        BY <1>2, <2>2, <3>2 DEF NoBatchBefore
      <4>2. cursor = 0 /\ (buffer = {} \/ 1 \in buffer)
        BY <2>1, <4>1 DEF BeginsWithFirst
      <4>3. 1 \in R
        BY <4>2, SendsFirst
      <4> QED BY <1>2, <1>3, <3>2, <4>3
    <3> QED BY <1>2, <3>1, <3>2
  <2>3. Len(toCloud) + 1 \in DOMAIN toCloud' /\ toCloud'[Len(toCloud) + 1].frame = "batch"
    BY <1>2, <1>3
  <2>4. \A i \in DOMAIN toKernel' : toKernel'[i].frame = "hello_ack"
    BY <2>1 DEF BeginsWithFirst
  <2> QED BY <2>2, <2>3, <2>4 DEF BeginsWithFirst
<1> QED BY <1>4 DEF FirstRowFirst

\* An answer is read.
LEMMA ReadSays ==
  ASSUME TypeOK, FirstRowFirst, UNCHANGED <<gen, replica, job, toCloud, buffer>>,
         phase # "down", phase' # "down", toKernel # <<>>, toKernel' = Tail(toKernel),
         Head(toKernel).frame # "hello_ack"
           \/ cursor' = IF Head(toKernel).max < cursor THEN Head(toKernel).max ELSE cursor
  PROVE  FirstRowFirst'
<1>1. Fresh' = Fresh
  BY StaysThrough
<1>2. /\ toKernel \in Seq(Replies) /\ Head(toKernel) = toKernel[1] /\ 1 \in DOMAIN toKernel
      /\ Head(toKernel) \in Replies
      /\ \A i \in DOMAIN toKernel' : i + 1 \in DOMAIN toKernel /\ toKernel'[i] = toKernel[i + 1]
  BY HeadTailProperties DEF TypeOK
<1>3. ASSUME Fresh' PROVE BeginsWithFirst'
  <2>1. BeginsWithFirst
    BY <1>1, <1>3 DEF FirstRowFirst
  <2>2. Head(toKernel).frame = "hello_ack"
    BY <1>2, <2>1 DEF BeginsWithFirst
  <2>3. \A i \in DOMAIN toKernel' : toKernel'[i].frame = "hello_ack"
    BY <1>2, <2>1 DEF BeginsWithFirst
  <2>4. cursor = 0 => cursor' = 0
    <3>1. Head(toKernel).max \in 0..MaxSeq
      BY <1>2, <2>2, ReplyContents
    <3> QED BY <2>2, <3>1
  <2> QED BY <2>1, <2>3, <2>4 DEF BeginsWithFirst, NoBatchBefore
<1> QED BY <1>3 DEF FirstRowFirst

\* Of the ingest side's steps, none makes what has come through as nothing, and what it
\* answers while nothing has come through answers a hello.
LEMMA IngestFacts ==
  ASSUME TypeOK, RunsTravel, CloudInv, FirstRowFirst, FramesAdvance, Ingest, Fresh'
  PROVE  /\ Fresh /\ gen' = gen /\ UNCHANGED clientVars
         /\ \/ toCloud' = toCloud /\ toKernel' = toKernel
            \/ AnswerHello /\ ~job.busy
<1>0. gen' = gen /\ UNCHANGED clientVars /\ Seqs' = Seqs
  BY DEF Ingest, AnswerHello, ReceiveBatch, SendAck, Flush, RebuildOnConflict,
     RebuildOnRegression, kernelVars, Seqs
<1>1. CASE AnswerHello
  BY <1>0, <1>1, StaysThrough DEF AnswerHello, kernelVars, cloudVars
<1>2. CASE ReceiveBatch
  <2>1. \/ job'.busy /\ job'.batch.gen = gen
        \/ UNCHANGED <<replica, pending, job>> /\ ~Fresh
    BY <1>2, ReceiveStep
  <2>2. CASE job'.busy /\ job'.batch.gen = gen
    BY <1>0, <2>2 DEF Fresh, AtWork
  <2>3. CASE UNCHANGED <<replica, pending, job>> /\ ~Fresh
    BY <1>0, <2>3, StaysThrough
  <2> QED BY <2>1, <2>2, <2>3
<1>3. CASE SendAck
  <2>1. ~AtWork
    BY <1>0, <1>3, AckStepKeeps DEF Fresh
  <2>2. job.busy /\ replica' = replica /\ toCloud' = toCloud
    BY <1>3 DEF SendAck
  <2>3. ~job.live
    BY <2>1, <2>2 DEF AtWork, CloudInv, Ages
  <2>4. toKernel' = toKernel
    BY <1>3, <2>2, <2>3 DEF SendAck, Reply
  <2> QED BY <1>0, <2>1, <2>2, <2>4 DEF Fresh
<1>4. ASSUME NEW b \in pending, Flush(b) PROVE Fresh /\ toCloud' = toCloud /\ toKernel' = toKernel
  <2>1. job' = job /\ toCloud' = toCloud /\ toKernel' = toKernel /\ ~Conflicts(b)
    BY <1>4 DEF Flush
  <2>2. /\ \A s \in b.rows : replica'[s] = b.gen
        /\ \A s \in Seqs \ b.rows : replica'[s] = replica[s]
    BY <1>4, FlushFacts
  <2>3. ASSUME NEW s \in Seqs, replica[s] = gen PROVE FALSE
    <3>1. gen # 0
      BY WorldNumbers
    <3>2. replica'[s] = gen
      BY <2>1, <2>2, <2>3, <3>1 DEF Conflicts
    <3> QED BY <1>0, <3>2 DEF Fresh
  <2> QED BY <1>0, <2>1, <2>3 DEF Fresh, AtWork
<1>5. CASE RebuildOnConflict
  <2>1. /\ toKernel' = toKernel /\ job'.busy /\ job'.batch = job.batch
        /\ toCloud' = toCloud /\ job.busy
    BY <1>5, ConflictStep DEF RebuildOnConflict
  <2>2. ~AtWork /\ job.batch.gen # gen
    BY <1>0, <2>1 DEF Fresh, AtWork
  <2>3. /\ job.batch.gen \in Nat /\ gen \in Nat /\ \A s \in Seqs : replica[s] \in Nat
        /\ job.batch.gen <= gen /\ \A s \in Seqs : replica[s] <= job.batch.gen
    BY <2>1, WorldNumbers DEF CloudInv, Ages, TypeOK
  <2>4. \A s \in Seqs : replica[s] # gen
    BY <2>2, <2>3
  <2> QED BY <1>0, <2>1, <2>2, <2>4 DEF Fresh
<1>6. CASE RebuildOnRegression
  <2>1. job'.busy /\ job'.batch.gen = gen
    BY <1>6, RegressionStep
  <2> QED BY <1>0, <2>1 DEF Fresh, AtWork
<1> QED BY <1>0, <1>1, <1>2, <1>3, <1>4, <1>5, <1>6 DEF Ingest

\* The ingest side's steps.
LEMMA IngestSays ==
  ASSUME TypeOK, RunsTravel, CloudInv, FirstRowFirst, FramesAdvance, Ingest
  PROVE  FirstRowFirst'
<1>1. phase' = phase /\ (phase = "down" => toCloud' = <<>>)
  <2>1. \A b : ~(Flush(b) /\ toCloud' # toCloud)
    BY DEF Flush
  <2> QED BY <2>1 DEF FirstRowFirst, Ingest, AnswerHello, ReceiveBatch, SendAck,
          RebuildOnConflict, RebuildOnRegression, clientVars, Flush
<1>2. ASSUME Fresh' PROVE BeginsWithFirst'
  <2>1. /\ BeginsWithFirst /\ UNCHANGED clientVars
        /\ \/ toCloud' = toCloud /\ toKernel' = toKernel
           \/ AnswerHello /\ ~job.busy
    BY <1>2, IngestFacts DEF FirstRowFirst
  <2>2. CASE toCloud' = toCloud /\ toKernel' = toKernel
    BY <2>1, <2>2 DEF BeginsWithFirst, NoBatchBefore, clientVars
  <2>3. CASE AnswerHello /\ ~job.busy
    <3>1. /\ toCloud # <<>> /\ Head(toCloud).frame = "hello" /\ toCloud' = Tail(toCloud)
          /\ toKernel' = Append(toKernel, HelloAck(MaxStored))
      BY <2>3 DEF AnswerHello, Reply
    <3>2. \A i \in DOMAIN toKernel' : toKernel'[i].frame = "hello_ack"
      <4>1. toKernel \in Seq(Replies) /\ HelloAck(MaxStored).frame = "hello_ack"
        BY DEF TypeOK, HelloAck
      <4> QED BY <2>1, <3>1, <4>1 DEF BeginsWithFirst
    <3>3. /\ toCloud \in Seq(Frames) /\ 1 \in DOMAIN toCloud /\ Head(toCloud) = toCloud[1]
          /\ DOMAIN toCloud = 1..Len(toCloud) /\ Len(toCloud) \in Nat
          /\ DOMAIN toCloud' = 1..(Len(toCloud) - 1)
          /\ \A i \in DOMAIN toCloud' : i + 1 \in DOMAIN toCloud /\ toCloud'[i] = toCloud[i + 1]
      BY <3>1, HeadTailProperties DEF TypeOK
    <3>4. \A j \in DOMAIN toCloud : j = 1 \/ (j - 1 \in DOMAIN toCloud' /\ toCloud[j] = toCloud'[j - 1])
      BY <3>3
    <3>5. toCloud[1].frame # "batch"
      BY <3>1, <3>3
    <3>6. ASSUME NEW i \in DOMAIN toCloud', toCloud'[i].frame = "batch", NoBatchBefore(i)'
          PROVE  1 \in toCloud'[i].batch.rows
      <4>1. ASSUME NEW j \in DOMAIN toCloud, j < i + 1 PROVE toCloud[j].frame # "batch"
        <5>1. CASE j = 1
          BY <3>5, <5>1
        <5>2. CASE j - 1 \in DOMAIN toCloud' /\ toCloud[j] = toCloud'[j - 1]
          <6>1. j - 1 < i
            BY <3>3, <4>1
          <6> QED BY <3>6, <5>2, <6>1 DEF NoBatchBefore
        <5> QED BY <3>4, <5>1, <5>2
      <4>2. NoBatchBefore(i + 1)
        BY <4>1 DEF NoBatchBefore
      <4> QED BY <2>1, <3>3, <3>6, <4>2 DEF BeginsWithFirst
    <3>7. (\A i \in DOMAIN toCloud' : toCloud'[i].frame # "batch")
             => \A i \in DOMAIN toCloud : toCloud[i].frame # "batch"
      BY <3>4, <3>5
    <3> QED BY <2>1, <3>2, <3>6, <3>7 DEF BeginsWithFirst, clientVars
  <2> QED BY <2>1, <2>2, <2>3
<1> QED BY <1>1, <1>2 DEF FirstRowFirst

\* Every step.
LEMMA FirstRowStep ==
  ASSUME TypeOK, OutIsPrefix, RunsTravel, CloudInv, FirstRowFirst, FramesAdvance, StartsAfresh,
         [Next]_vars
  PROVE  FirstRowFirst'
<1> USE DEF kernelVars, clientVars, cloudVars
<1>1. CASE Kernel \/ UNCHANGED vars
  <2>1. UNCHANGED <<gen, replica, job, toCloud, toKernel, cursor, phase, buffer>>
    BY <1>1 DEF Kernel, TakeNumber, FinishInsert, vars
  <2> QED BY <2>1, QuietSays
<1>2. CASE Connect
  BY <1>2, ConnectSays
<1>3. CASE ConnectFails
  <2>1. /\ phase = "down" /\ UNCHANGED <<gen, replica, job, toCloud, toKernel, phase>>
    BY <1>3 DEF ConnectFails
  <2> QED BY <2>1, StaysThrough DEF FirstRowFirst, BeginsWithFirst, NoBatchBefore
<1>4. CASE Hold \/ StartCatchup \/ EndCatchup
  <2>1. /\ UNCHANGED <<gen, replica, job, toCloud, toKernel, cursor>>
        /\ buffer' \in {buffer, Buffered} /\ phase # "down" /\ phase' # "down"
    BY <1>4 DEF Hold, StartCatchup, EndCatchup, NormalMode
  <2> QED BY <2>1, QuietSays
<1>5. CASE SendBatch
  <2>1. /\ UNCHANGED <<gen, replica, job, toKernel>> /\ phase # "down" /\ phase' # "down"
        /\ Buffered # {}
        /\ toCloud' = Append(toCloud, BatchFrame([rows |-> Buffered, gen |-> gen]))
    BY <1>5 DEF SendBatch, NormalMode
  <2> QED BY <2>1, SendSays
<1>6. CASE CatchupSend
  <2>1. /\ UNCHANGED <<gen, replica, job, toKernel>> /\ phase # "down" /\ phase' # "down"
        /\ NextCatchupRows # {}
        /\ toCloud' = Append(toCloud, BatchFrame([rows |-> NextCatchupRows, gen |-> gen]))
    BY <1>6 DEF CatchupSend, CanSend
  <2> QED BY <2>1, SendSays
<1>7. CASE ReceiveHelloAck \/ ReceiveReply \/ CatchupReceive
  <2>1. /\ UNCHANGED <<gen, replica, job, toCloud, buffer>> /\ phase # "down" /\ phase' # "down"
        /\ toKernel # <<>> /\ toKernel' = Tail(toKernel)
        /\ \/ Head(toKernel).frame # "hello_ack"
           \/ cursor' = IF Head(toKernel).max < cursor THEN Head(toKernel).max ELSE cursor
    BY <1>7 DEF ReceiveHelloAck, ReceiveReply, CatchupReceive
  <2> QED BY <2>1, ReadSays
<1>8. CASE ReceiveTimeout \/ Environment
  <2>1. CloseConnection
    BY <1>8 DEF ReceiveTimeout, Environment, Disconnect, KernelCrash, IngestRestart,
       ReplicaRestore, Reseed
  <2> QED BY <2>1, ClosedSays
<1>9. CASE Ingest
  BY <1>9, IngestSays
<1> QED BY <1>1, <1>2, <1>3, <1>4, <1>5, <1>6, <1>7, <1>8, <1>9 DEF Next, Client

\* The whole invariant.
LEMMA WorldStep ==
  ASSUME SingleWriter, GapKinds = {}, TypeOK, WorldInv, FramesAdvance, StartsAfresh, [Next]_vars
  PROVE  WorldInv'
<1>1. OutIsPrefix /\ RunsTravel /\ CloudInv /\ FirstRowFirst
  BY DEF WorldInv, CloudInv
<1>2. OutIsPrefix' /\ RunsTravel' /\ CloudInv' /\ FirstRowFirst'
  BY <1>1, TableStep, RunsStep, CloudStep, FirstRowStep
<1> QED BY <1>2 DEF WorldInv, CloudInv

\* The first world begins with nothing stored.
LEMMA WorldInit == Init => WorldInv
<1> SUFFICES ASSUME Init PROVE WorldInv
  OBVIOUS
<1>1. gen \in Nat /\ Stored = {} /\ ~job.busy
  BY DEF Init, Stored, IdleJob
<1>2. OutIsPrefix /\ StoredIsBeginning /\ Ages /\ OneTimeline /\ PendingFits /\ JobIsPending
  BY <1>1 DEF Init, OutIsPrefix, NumbersInOrder, StoredIsBeginning, Ages, OneTimeline,
     PendingFits, JobIsPending
<1>3. RunsTravel /\ FirstRowFirst
  BY <1>1 DEF Init, RunsTravel, Interval, FirstRowFirst, BeginsWithFirst
<1> QED BY <1>2, <1>3 DEF WorldInv

\* The replica never shows two worlds at once, however often the world is started over, the
\* connection breaks, either process dies and the replica is restored, as long as no row's
\* number stays void, a world's own frames are not taken for another's, and a connection
\* made before anything of a new world has come through sends it from its first row.
THEOREM WorldsDoNotMix ==
  ASSUME SingleWriter, GapKinds = {}
  PROVE  Spec /\ []FramesAdvance /\ []StartsAfresh => []OneTimeline
<1>1. Init => TypeOK /\ WorldInv
  BY TypeInit, WorldInit
<1>2. TypeOK /\ WorldInv /\ FramesAdvance /\ StartsAfresh /\ [Next]_vars => TypeOK' /\ WorldInv'
  BY TypeStep, WorldStep
<1>3. WorldInv => OneTimeline
  BY DEF WorldInv
<1> QED BY <1>1, <1>2, <1>3, PTL DEF Spec

(***************************************************************************)
(* Without faults, and if a reseed clears sync_state.                      *)
(***************************************************************************)
\* What a new connection starts from, while nothing of the world has come through.
AtTheStart ==
  Fresh => /\ acked = 0
           /\ phase = "down" => cursor = 0 /\ (buffer = {} \/ 1 \in buffer)

\* A position of 0 is resumed from.
LEMMA ResumeAtTheStart ==
  ASSUME cursor = 0, acked = 0
  PROVE  ResumePoint = 0
BY DEF ResumePoint

\* The position recorded moves with an acknowledgement or a reseed.
LEMMA AckedStays ==
  ASSUME TypeOK, RunsTravel, CloudInv, FirstRowFirst, FramesAdvance, gen' = gen, [Next]_vars,
         ~Disconnect, ~KernelCrash, ~IngestRestart, \A n \in 0..MaxSeq : ~ReplicaRestore(n),
         Fresh'
  PROVE  Fresh /\ acked' = acked
<1> USE DEF kernelVars, clientVars, cloudVars
<1>1. CASE Ingest
  BY <1>1, IngestFacts
<1>2. ASSUME Kernel \/ Client \/ UNCHANGED vars PROVE Fresh /\ acked' = acked
  <2>1. UNCHANGED <<replica, job, gen>>
    BY <1>2 DEF Kernel, Client, vars, TakeNumber,
       FinishInsert, Connect, ConnectFails, ReceiveHelloAck, Hold, SendBatch, ReceiveReply,
       StartCatchup, CatchupSend, CatchupReceive, EndCatchup, ReceiveTimeout
  <2>2. Fresh
    BY <2>1, StaysThrough
  <2>3. CASE ReceiveReply \/ CatchupReceive
    <3>1. 1 \in DOMAIN toKernel /\ Head(toKernel) = toKernel[1]
      BY <2>3, HeadTailProperties DEF ReceiveReply, CatchupReceive, TypeOK
    <3>2. Head(toKernel).frame = "hello_ack"
      BY <2>2, <3>1 DEF FirstRowFirst, BeginsWithFirst
    <3> QED BY <2>3, <3>2 DEF ReceiveReply, CatchupReceive
  <2>4. CASE ~ReceiveReply /\ ~CatchupReceive
    BY <1>2, <2>2, <2>4 DEF Kernel, Client, vars, TakeNumber,
       FinishInsert, Connect, ConnectFails, ReceiveHelloAck, Hold, SendBatch,
       StartCatchup, CatchupSend, EndCatchup, ReceiveTimeout
  <2> QED BY <2>3, <2>4
<1>3. ASSUME NEW survives \in SurvivalModes PROVE ~Reseed(survives)
  <2>1. gen \in Nat
    BY WorldNumbers
  <2> QED BY <2>1 DEF Reseed
<1> QED BY <1>1, <1>2, <1>3 DEF Next, Environment

\* With neither faults nor restores only the client's own timeout closes a connection.
LEMMA NoFaults ==
  ASSUME TypeOK, MaxFaults = 0, MaxRestores = 0
  PROVE  /\ ~Disconnect /\ ~KernelCrash /\ ~IngestRestart
         /\ \A n \in 0..MaxSeq : ~ReplicaRestore(n)
BY DEF TypeOK, Disconnect, KernelCrash, IngestRestart, ReplicaRestore

\* Who leaves the coroutine disconnected.
LEMMA StaysDown ==
  ASSUME [Next]_vars, ~Disconnect, ~KernelCrash, ~IngestRestart,
         \A n \in 0..MaxSeq : ~ReplicaRestore(n), phase' = "down"
  PROVE  \/ phase = "down" /\ cursor' \in {cursor, ResumePoint} /\ buffer' = buffer
         \/ ReceiveTimeout
         \/ \E survives \in SurvivalModes : Reseed(survives)
BY DEF Next, Kernel, Client, Ingest, Environment, vars, kernelVars, clientVars, cloudVars,
   TakeNumber, FinishInsert, Connect, ConnectFails, ReceiveHelloAck, Hold, SendBatch,
   ReceiveReply, StartCatchup, CatchupSend, CatchupReceive, EndCatchup, NormalMode,
   AnswerHello, ReceiveBatch, SendAck, Flush, RebuildOnConflict, RebuildOnRegression

LEMMA StartStep ==
  ASSUME TypeOK, RunsTravel, CloudInv, FirstRowFirst, FramesAdvance, AtTheStart, [Next]_vars,
         MaxFaults = 0, MaxRestores = 0, SurvivalModes = {FALSE}
  PROVE  AtTheStart'
<1>1. ASSUME NEW survives \in SurvivalModes, Reseed(survives) PROVE AtTheStart'
  BY <1>1 DEF Reseed, ForgetMemory, AtTheStart
<1>2. ASSUME gen' = gen, Fresh'
      PROVE  acked' = 0 /\ (phase' = "down" => cursor' = 0 /\ (buffer' = {} \/ 1 \in buffer'))
  <2>1. Fresh /\ acked' = acked
    BY <1>2, AckedStays, NoFaults
  <2>2. acked' = 0
    BY <2>1 DEF AtTheStart
  <2>3. ASSUME phase = "down", cursor' \in {cursor, ResumePoint}, buffer' = buffer
        PROVE  cursor' = 0 /\ (buffer' = {} \/ 1 \in buffer')
    BY <2>1, <2>3, ResumeAtTheStart DEF AtTheStart
  <2>4. ASSUME ReceiveTimeout PROVE cursor' = 0 /\ (buffer' = {} \/ 1 \in buffer')
    <3>1. phase # "down" /\ cursor' = cursor /\ buffer' = buffer /\ toCloud = <<>>
      BY <2>4 DEF ReceiveTimeout
    <3>2. \A i \in DOMAIN toCloud : FALSE
      BY <3>1
    <3> QED BY <2>1, <3>1, <3>2 DEF FirstRowFirst, BeginsWithFirst
  <2>5. ASSUME NEW survives \in SurvivalModes PROVE ~Reseed(survives)
    <3>1. gen \in Nat
      BY WorldNumbers
    <3> QED BY <1>2, <3>1 DEF Reseed
  <2> QED BY <2>2, <2>3, <2>4, <2>5, StaysDown, NoFaults
<1> QED BY <1>1, <1>2, GenChange DEF AtTheStart

\* The premises hold by themselves when nothing breaks and the lag covers a world.
LEMMA PremisesHold ==
  ASSUME TypeOK, RunsTravel, AtTheStart, MaxSeq <= Lag + 1
  PROVE  FramesAdvance /\ StartsAfresh
<1>1. StartsAfresh
  BY ResumeAtTheStart DEF StartsAfresh, AtTheStart
<1>2. FramesAdvance
  <2>1. SUFFICES ASSUME NEW b, Arriving(b), NEW s \in Stored PROVE s <= Top(b.rows) + Lag
    BY DEF FramesAdvance, Arriving
  <2>2. b.rows \subseteq Seqs /\ b.rows # {}
    BY <2>1, ArrivesAsRun DEF Batch
  <2>3. Top(b.rows) \in Seqs /\ s \in Seqs
    BY <2>1, <2>2, TopIsMax DEF Stored
  <2> QED BY <2>3, BoundsAssumption DEF Seqs
<1> QED BY <1>1, <1>2

\* Without a fault, and if a reseed clears sync_state, a world is sent from its first row on
\* by itself: starting over at any moment of the old world's sending does no harm.
THEOREM ReseedsStartAfresh ==
  ASSUME SingleWriter, GapKinds = {}, MaxFaults = 0, MaxRestores = 0, SurvivalModes = {FALSE}
  PROVE  Spec /\ []FramesAdvance => []OneTimeline
<1>1. Init => TypeOK /\ WorldInv /\ AtTheStart
  BY TypeInit, WorldInit DEF Init, AtTheStart
<1>2. WorldInv => RunsTravel /\ CloudInv /\ FirstRowFirst
  BY DEF WorldInv, CloudInv
<1>3. AtTheStart => StartsAfresh
  BY ResumeAtTheStart DEF StartsAfresh, AtTheStart
<1>4. TypeOK /\ WorldInv /\ AtTheStart /\ FramesAdvance /\ [Next]_vars
         => TypeOK' /\ WorldInv' /\ AtTheStart'
  BY <1>2, <1>3, TypeStep, WorldStep, StartStep
<1>5. WorldInv => OneTimeline
  BY DEF WorldInv
<1> QED BY <1>1, <1>4, <1>5, PTL DEF Spec

\* The same without any premise, for worlds no longer than the lag.
THEOREM ShortWorldsDoNotMix ==
  ASSUME SingleWriter, GapKinds = {}, MaxFaults = 0, MaxRestores = 0, SurvivalModes = {FALSE},
         MaxSeq <= Lag + 1
  PROVE  Spec => []OneTimeline
<1>1. Init => TypeOK /\ WorldInv /\ AtTheStart
  BY TypeInit, WorldInit DEF Init, AtTheStart
<1>2. WorldInv => RunsTravel /\ CloudInv /\ FirstRowFirst
  BY DEF WorldInv, CloudInv
<1>3. TypeOK /\ WorldInv /\ AtTheStart /\ [Next]_vars => TypeOK' /\ WorldInv' /\ AtTheStart'
  BY <1>2, PremisesHold, TypeStep, WorldStep, StartStep
<1>4. WorldInv => OneTimeline
  BY DEF WorldInv
<1> QED BY <1>1, <1>3, <1>4, PTL DEF Spec

=============================================================================
