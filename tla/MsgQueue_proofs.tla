--------------------------- MODULE MsgQueue_proofs ---------------------------
(***************************************************************************)
(* Proofs about MsgQueue, for every set of processes, every queue size and *)
(* every length of the input.                                              *)
(***************************************************************************)
EXTENDS MsgQueue, SequenceTheorems, TLAPS

\* Moving the oldest message of the queue to what was received changes nothing.
LEMMA MoveHead ==
  ASSUME NEW S, NEW g \in Seq(S), NEW m \in Seq(S), m # <<>>
  PROVE  /\ Head(m) \in S
         /\ Tail(m) \in Seq(S)
         /\ Append(g, Head(m)) \o Tail(m) = g \o m
OBVIOUS

\* A message sent is a message at the end of the queue.
LEMMA AppendLast ==
  \A g, t \in Seq(Messages), e \in Messages :
    g \o Append(t, e) = Append(g \o t, e)
OBVIOUS

\* Accounted, said apart for a process whose queue is there and for the others.
InQueueOrDropped(p) == IF Exists(p) THEN sent[p] = got[p] \o msgs
                                    ELSE sent[p] = got[p] \o dropped[p]

Split == \A p \in Procs : InQueueOrDropped(p)

LEMMA AccountedSplit == TypeOK /\ Undropped => (Accounted <=> Split)
<1> SUFFICES ASSUME TypeOK, Undropped
             PROVE  Accounted <=> Split
  OBVIOUS
<1>1. ASSUME NEW p \in Procs
      PROVE  sent[p] = got[p] \o InQueue(p) \o dropped[p] <=> InQueueOrDropped(p)
  <2>1. /\ msgs \in Seq(Messages) /\ got[p] \in Seq(Messages)
        /\ dropped[p] \in Seq(Messages) /\ got[p] \o msgs \in Seq(Messages)
    BY ConcatProperties DEF TypeOK
  <2>2. CASE Exists(p)
    BY <2>1, <2>2, ConcatEmptySeq DEF InQueueOrDropped, InQueue, Undropped
  <2>3. CASE ~Exists(p)
    BY <2>1, <2>3, ConcatEmptySeq DEF InQueueOrDropped, InQueue
  <2> QED
    BY <2>2, <2>3
<1> QED
  BY <1>1 DEF Accounted, Split

\* The same of the next state.
LEMMA AccountedSplitNext == TypeOK' /\ Undropped' => (Accounted' <=> Split')
BY AccountedSplit, PTL

\* The conjuncts that say nothing of the sequences sent and received.
Control == /\ QueueLeft /\ BeforeQueue /\ BeforeThread /\ Undropped /\ WaitsOnEmpty
           /\ ThreadOver /\ QueueOrRemoved /\ AfterRmid /\ EndedWithout
           /\ RoomForLine

LEMMA NoMessages == /\ <<>> \in Seq(Messages)
                    /\ Len(<<>>) = 0
                    /\ Len(<<>>) =< Capacity
<1>1. Len(<<>>) = 0
  OBVIOUS
<1>2. 0 =< Capacity
  BY MsgQueueAssumption
<1> QED
  BY <1>1, <1>2, EmptySeq

LEMMA InitIInv == Init => IInv
<1> SUFFICES ASSUME Init PROVE IInv
  OBVIOUS
<1>3. TypeOK
  BY NoMessages DEF Init, TypeOK, MainPcs, ThreadPcs, Endings
<1>4. \A p \in Procs : /\ owner # p /\ mpc[p] = "msgget" /\ cpc[p] = "none"
                       /\ sent[p] = <<>> /\ got[p] = <<>>
                       /\ printed[p] = <<>> /\ dropped[p] = <<>>
                       /\ end[p] = ""
  BY MsgQueueAssumption DEF Init
<1>5. Control /\ InHand
  BY <1>4 DEF Control, QueueLeft, BeforeQueue, BeforeThread, Undropped, WaitsOnEmpty,
              ThreadOver, QueueOrRemoved, AfterRmid, EndedWithout,
              RoomForLine, InHand, Exists, Alive
<1>6. Accounted
  <2>1. <<>> \o <<>> \o <<>> = <<>>
    BY NoMessages, ConcatEmptySeq
  <2> QED
    BY <1>4, <2>1 DEF Accounted, InQueue, Exists
<1> QED
  BY <1>3, <1>5, <1>6 DEF IInv, Control

\* Where the threads can be and how a process ends: cited instead of the sets,
\* which the provers need nowhere else.
LEMMA Places ==
  /\ {"create", "fgets", "msgsnd", "rmid", "join", "done"} \subseteq MainPcs
  /\ {"malloc", "msgrcv", "blocked", "eidrm", "print", "over"} \subseteq ThreadPcs
  /\ {"return", "msgget", "create", "nomem", "msgsnd", "rmid", "msgrcv",
      "killed"} \subseteq Endings
BY DEF MainPcs, ThreadPcs, Endings

\* What main sends is a message, and what is sent keeps its type.
LEMMA MsgSndTypeOK ==
  ASSUME TypeOK, RoomForLine, NEW p \in Procs, MsgSnd(p)
  PROVE  TypeOK'
<1> DEFINE m == Message(p, Len(sent[p]) + 1)
<1>1. CASE ~Exists(p)
  BY <1>1, Places DEF MsgSnd, TypeOK, MainGoto, Ends, queue, history
<1>2. CASE Exists(p)
  <2>1. m \in Messages
    <3>1. Len(sent[p]) < MaxLines /\ sent[p] \in Seq(Messages)
      BY <1>2 DEF MsgSnd, RoomForLine, TypeOK, MainGoto
    <3>2. Len(sent[p]) + 1 \in 1 .. MaxLines
      BY <3>1, MsgQueueAssumption
    <3> QED
      BY <3>2 DEF Message, Messages
  <2>2. /\ MainGoto(p, "msgsnd", "fgets")
        /\ Send(p, m) /\ sent' = [sent EXCEPT ![p] = Append(@, m)]
        /\ UNCHANGED <<printed, dropped, end, ipcrmed>>
    BY <1>2 DEF MsgSnd
  <2> HIDE DEF m
  <2>3. mpc' \in [Procs -> MainPcs] /\ sent' \in [Procs -> Seq(Messages)]
    BY <2>1, <2>2, Places DEF TypeOK, MainGoto
  <2>4. CASE cpc[p] = "blocked"
    <3>1. /\ cpc' = [cpc EXCEPT ![p] = "print"]
          /\ got' = [got EXCEPT ![p] = Append(@, m)]
          /\ UNCHANGED queue
      BY <2>2, <2>4 DEF Send
    <3>2. cpc' \in [Procs -> ThreadPcs] /\ got' \in [Procs -> Seq(Messages)]
      BY <2>1, <3>1, Places DEF TypeOK
    <3> QED
      BY <2>2, <2>3, <3>1, <3>2 DEF TypeOK, queue
  <2>5. CASE cpc[p] # "blocked"
    <3>1. /\ msgs' = Append(msgs, m) /\ Len(msgs) < Capacity
          /\ UNCHANGED <<owner, cpc, got>>
      BY <2>2, <2>5 DEF Send
    <3>2. msgs' \in Seq(Messages) /\ Len(msgs') =< Capacity
      BY <2>1, <3>1, MsgQueueAssumption DEF TypeOK
    <3> QED
      BY <2>2, <2>3, <3>1, <3>2 DEF TypeOK
  <2> QED
    BY <2>4, <2>5
<1> QED
  BY <1>1, <1>2

\* The removal of a queue keeps the types.
LEMMA RemoveTypeOK ==
  ASSUME TypeOK, NEW p \in Procs, Remove(p)
  PROVE  /\ owner' \in Procs \cup {NoProc}
         /\ msgs' \in Seq(Messages) /\ Len(msgs') =< Capacity
         /\ cpc' \in [Procs -> ThreadPcs]
         /\ dropped' \in [Procs -> Seq(Messages)]
BY NoMessages, Places DEF TypeOK, Remove

\* A step of main keeps the types.
LEMMA MainTypeOK ==
  ASSUME TypeOK, RoomForLine, NEW p \in Procs, Main(p)
  PROVE  TypeOK'
<1> USE Places DEF TypeOK, MainGoto, Ends, queue, history
<1>1. CASE MsgGet(p)
  BY <1>1, NoMessages DEF MsgGet
<1>2. CASE Create(p)
  BY <1>2 DEF Create
<1>3. CASE Fgets(p)
  BY <1>3 DEF Fgets
<1>4. CASE MsgSnd(p)
  BY <1>4, MsgSndTypeOK
<1>5. CASE Rmid(p)
  BY <1>5, RemoveTypeOK DEF Rmid
<1>6. CASE Join(p)
  BY <1>6 DEF Join
<1> QED
  BY <1>1, <1>2, <1>3, <1>4, <1>5, <1>6 DEF Main

\* A step of the thread, a msgsnd that fails, a kill and an ipcrm keep the types.
LEMMA ThreadTypeOK ==
  ASSUME TypeOK, InHand, NEW p \in Procs, Thread(p) \/ MsgSndFails(p) \/ Kill(p) \/ Ipcrm(p)
  PROVE  TypeOK'
<1> USE Places DEF TypeOK, MainGoto, ThreadGoto, Ends, queue, threads, history
<1>1. CASE Malloc(p)
  BY <1>1 DEF Malloc
<1>2. CASE MsgRcv(p)
  <2>1. CASE Exists(p) /\ msgs # <<>>
    <3>1. /\ Head(msgs) \in Messages /\ Tail(msgs) \in Seq(Messages)
          /\ Len(Tail(msgs)) =< Capacity
      BY <2>1, HeadTailProperties, MsgQueueAssumption
    <3>2. got' = [got EXCEPT ![p] = Append(@, Head(msgs))]
      BY <1>2, <2>1 DEF MsgRcv
    <3>3. got' \in [Procs -> Seq(Messages)]
      BY <3>1, <3>2
    <3> QED
      BY <1>2, <2>1, <3>1, <3>3 DEF MsgRcv
  <2>2. CASE Exists(p) /\ msgs = <<>>
    BY <1>2, <2>2 DEF MsgRcv
  <2>3. CASE ~Exists(p)
    BY <1>2, <2>3 DEF MsgRcv
  <2> QED
    BY <2>1, <2>2, <2>3
<1>3. CASE PrintMsg(p)
  <2>1. got[p] \in Seq(Messages) /\ got[p] # <<>>
    BY <1>3 DEF PrintMsg, InHand
  <2>2. got[p][Len(got[p])] \in Messages
    BY <2>1
  <2> QED
    BY <1>3, <2>2 DEF PrintMsg
<1>4. CASE Over(p)
  BY <1>4 DEF Over
<1>5. CASE Kill(p)
  BY <1>5 DEF Kill
<1>6. CASE Ipcrm(p)
  BY <1>6, RemoveTypeOK DEF Ipcrm
<1>7. CASE MsgSndFails(p)
  BY <1>7 DEF MsgSndFails
<1> QED
  BY <1>1, <1>2, <1>3, <1>4, <1>5, <1>6, <1>7 DEF Thread

\* A step of main keeps the conjuncts about control.
LEMMA MainControl ==
  ASSUME TypeOK, Control, NEW p \in Procs, Main(p)
  PROVE  Control'
<1> USE MsgQueueAssumption
        DEF TypeOK, Exists, Alive, Ends, MainGoto, queue, history
<1>0. /\ QueueLeft /\ BeforeQueue /\ BeforeThread /\ Undropped /\ WaitsOnEmpty
      /\ ThreadOver /\ QueueOrRemoved /\ AfterRmid
      /\ EndedWithout /\ RoomForLine
  BY DEF Control
<1>1. CASE MsgGet(p)
  <2>1. QueueLeft'
    BY <1>0, <1>1 DEF MsgGet, QueueLeft, QueueOrRemoved, EndedWithout, BeforeQueue
  <2>2. BeforeQueue'
    BY <1>0, <1>1 DEF MsgGet, BeforeQueue
  <2>3. Undropped'
    BY <1>0, <1>1 DEF MsgGet, Undropped, BeforeQueue
  <2>4. WaitsOnEmpty'
    BY <1>0, <1>1 DEF MsgGet, WaitsOnEmpty, BeforeQueue
  <2>5. ThreadOver'
    BY <1>0, <1>1 DEF MsgGet, ThreadOver
  <2>6. QueueOrRemoved'
    BY <1>0, <1>1 DEF MsgGet, QueueOrRemoved, BeforeQueue
  <2>7. AfterRmid'
    BY <1>0, <1>1 DEF MsgGet, AfterRmid
  <2>8. EndedWithout'
    BY <1>0, <1>1 DEF MsgGet, EndedWithout, AfterRmid, BeforeQueue
  <2>9. RoomForLine'
    BY <1>0, <1>1 DEF MsgGet, RoomForLine, BeforeQueue
  <2>10. BeforeThread'
    BY <1>0, <1>1 DEF MsgGet, BeforeThread
  <2> QED
    BY <2>1, <2>2, <2>3, <2>4, <2>5, <2>6,
       <2>7, <2>8, <2>9, <2>10 DEF Control
<1>2. CASE Create(p)
  <2>1. QueueLeft'
    BY <1>0, <1>2 DEF Create, QueueLeft, QueueOrRemoved, EndedWithout, BeforeQueue
  <2>2. BeforeQueue'
    BY <1>0, <1>2 DEF Create, BeforeQueue
  <2>3. Undropped'
    BY <1>0, <1>2 DEF Create, Undropped, BeforeQueue
  <2>4. WaitsOnEmpty'
    BY <1>0, <1>2 DEF Create, WaitsOnEmpty, BeforeQueue
  <2>5. ThreadOver'
    BY <1>0, <1>2 DEF Create, ThreadOver
  <2>6. QueueOrRemoved'
    BY <1>0, <1>2 DEF Create, QueueOrRemoved, BeforeQueue
  <2>7. AfterRmid'
    BY <1>0, <1>2 DEF Create, AfterRmid
  <2>8. EndedWithout'
    BY <1>0, <1>2 DEF Create, EndedWithout, AfterRmid, BeforeQueue
  <2>9. RoomForLine'
    BY <1>0, <1>2 DEF Create, RoomForLine, BeforeQueue
  <2>10. BeforeThread'
    BY <1>0, <1>2 DEF Create, BeforeThread
  <2> QED
    BY <2>1, <2>2, <2>3, <2>4, <2>5, <2>6,
       <2>7, <2>8, <2>9, <2>10 DEF Control
<1>3. CASE Fgets(p)
  <2>1. QueueLeft'
    BY <1>0, <1>3 DEF Fgets, QueueLeft, QueueOrRemoved, EndedWithout, BeforeQueue
  <2>2. BeforeQueue'
    BY <1>0, <1>3 DEF Fgets, BeforeQueue
  <2>3. Undropped'
    BY <1>0, <1>3 DEF Fgets, Undropped, BeforeQueue
  <2>4. WaitsOnEmpty'
    BY <1>0, <1>3 DEF Fgets, WaitsOnEmpty, BeforeQueue
  <2>5. ThreadOver'
    BY <1>0, <1>3 DEF Fgets, ThreadOver
  <2>6. QueueOrRemoved'
    BY <1>0, <1>3 DEF Fgets, QueueOrRemoved, BeforeQueue
  <2>7. AfterRmid'
    BY <1>0, <1>3 DEF Fgets, AfterRmid
  <2>8. EndedWithout'
    BY <1>0, <1>3 DEF Fgets, EndedWithout, AfterRmid, BeforeQueue
  <2>9. RoomForLine'
    BY <1>0, <1>3 DEF Fgets, RoomForLine, BeforeQueue
  <2>10. BeforeThread'
    BY <1>0, <1>3 DEF Fgets, BeforeThread
  <2> QED
    BY <2>1, <2>2, <2>3, <2>4, <2>5, <2>6,
       <2>7, <2>8, <2>9, <2>10 DEF Control
<1>4. CASE MsgSnd(p)
  <2>1. QueueLeft'
    BY <1>0, <1>4 DEF MsgSnd, Send, QueueLeft, QueueOrRemoved, EndedWithout, BeforeQueue
  <2>2. BeforeQueue'
    BY <1>0, <1>4 DEF MsgSnd, Send, BeforeQueue
  <2>3. Undropped'
    BY <1>0, <1>4 DEF MsgSnd, Send, Undropped, BeforeQueue
  <2>4. WaitsOnEmpty'
    BY <1>0, <1>4 DEF MsgSnd, Send, WaitsOnEmpty, BeforeQueue
  <2>5. ThreadOver'
    BY <1>0, <1>4 DEF MsgSnd, Send, ThreadOver
  <2>6. QueueOrRemoved'
    BY <1>0, <1>4 DEF MsgSnd, Send, QueueOrRemoved, BeforeQueue
  <2>7. AfterRmid'
    BY <1>0, <1>4 DEF MsgSnd, Send, AfterRmid
  <2>8. EndedWithout'
    BY <1>0, <1>4 DEF MsgSnd, Send, EndedWithout, AfterRmid, BeforeQueue
  <2>9. RoomForLine'
    BY <1>0, <1>4 DEF MsgSnd, Send, RoomForLine, BeforeQueue
  <2>10. BeforeThread'
    BY <1>0, <1>4 DEF MsgSnd, Send, BeforeThread
  <2> QED
    BY <2>1, <2>2, <2>3, <2>4, <2>5, <2>6,
       <2>7, <2>8, <2>9, <2>10 DEF Control
<1>5. CASE Rmid(p)
  <2>1. QueueLeft'
    BY <1>0, <1>5 DEF Rmid, Remove, QueueLeft, QueueOrRemoved, EndedWithout, BeforeQueue
  <2>2. BeforeQueue'
    BY <1>0, <1>5 DEF Rmid, Remove, BeforeQueue
  <2>3. Undropped'
    BY <1>0, <1>5 DEF Rmid, Remove, Undropped, BeforeQueue
  <2>4. WaitsOnEmpty'
    BY <1>0, <1>5 DEF Rmid, Remove, WaitsOnEmpty, BeforeQueue
  <2>5. ThreadOver'
    BY <1>0, <1>5 DEF Rmid, Remove, ThreadOver
  <2>6. QueueOrRemoved'
    BY <1>0, <1>5 DEF Rmid, Remove, QueueOrRemoved, BeforeQueue
  <2>7. AfterRmid'
    BY <1>0, <1>5 DEF Rmid, Remove, AfterRmid
  <2>8. EndedWithout'
    BY <1>0, <1>5 DEF Rmid, Remove, EndedWithout, AfterRmid, BeforeQueue
  <2>9. RoomForLine'
    BY <1>0, <1>5 DEF Rmid, Remove, RoomForLine, BeforeQueue
  <2>10. BeforeThread'
    BY <1>0, <1>5 DEF Rmid, Remove, BeforeThread
  <2> QED
    BY <2>1, <2>2, <2>3, <2>4, <2>5, <2>6,
       <2>7, <2>8, <2>9, <2>10 DEF Control
<1>6. CASE Join(p)
  <2>1. QueueLeft'
    BY <1>0, <1>6 DEF Join, QueueLeft, AfterRmid
  <2>2. BeforeQueue'
    BY <1>0, <1>6 DEF Join, BeforeQueue
  <2>3. Undropped'
    BY <1>0, <1>6 DEF Join, Undropped, BeforeQueue
  <2>4. WaitsOnEmpty'
    BY <1>0, <1>6 DEF Join, WaitsOnEmpty, BeforeQueue
  <2>5. ThreadOver'
    BY <1>0, <1>6 DEF Join, ThreadOver
  <2>6. QueueOrRemoved'
    BY <1>0, <1>6 DEF Join, QueueOrRemoved, BeforeQueue
  <2>7. AfterRmid'
    BY <1>0, <1>6 DEF Join, AfterRmid
  <2>8. EndedWithout'
    BY <1>0, <1>6 DEF Join, EndedWithout, AfterRmid, BeforeQueue
  <2>9. RoomForLine'
    BY <1>0, <1>6 DEF Join, RoomForLine, BeforeQueue
  <2>10. BeforeThread'
    BY <1>0, <1>6 DEF Join, BeforeThread
  <2> QED
    BY <2>1, <2>2, <2>3, <2>4, <2>5, <2>6,
       <2>7, <2>8, <2>9, <2>10 DEF Control
<1> QED
  BY <1>1, <1>2, <1>3, <1>4, <1>5, <1>6 DEF Main

\* So do a step of the thread, a msgsnd that fails, a kill and an ipcrm.
LEMMA ThreadControl ==
  ASSUME TypeOK, Control, NEW p \in Procs, Thread(p) \/ MsgSndFails(p) \/ Kill(p) \/ Ipcrm(p)
  PROVE  Control'
<1> USE MsgQueueAssumption
        DEF TypeOK, Exists, Alive, Ends, MainGoto, ThreadGoto, queue, threads,
            history
<1>0. /\ QueueLeft /\ BeforeQueue /\ BeforeThread /\ Undropped /\ WaitsOnEmpty
      /\ ThreadOver /\ QueueOrRemoved /\ AfterRmid
      /\ EndedWithout /\ RoomForLine
  BY DEF Control
<1>1. CASE Malloc(p)
  <2>1. QueueLeft'
    BY <1>0, <1>1 DEF Malloc, QueueLeft, QueueOrRemoved, EndedWithout, BeforeQueue
  <2>2. BeforeQueue'
    BY <1>0, <1>1 DEF Malloc, BeforeQueue
  <2>3. Undropped'
    BY <1>0, <1>1 DEF Malloc, Undropped, BeforeQueue
  <2>4. WaitsOnEmpty'
    BY <1>0, <1>1 DEF Malloc, WaitsOnEmpty, BeforeQueue
  <2>5. ThreadOver'
    BY <1>0, <1>1 DEF Malloc, ThreadOver
  <2>6. QueueOrRemoved'
    BY <1>0, <1>1 DEF Malloc, QueueOrRemoved, BeforeQueue
  <2>7. AfterRmid'
    BY <1>0, <1>1 DEF Malloc, AfterRmid
  <2>8. EndedWithout'
    BY <1>0, <1>1 DEF Malloc, EndedWithout, AfterRmid, BeforeQueue
  <2>9. RoomForLine'
    BY <1>0, <1>1 DEF Malloc, RoomForLine, BeforeQueue
  <2>10. BeforeThread'
    BY <1>0, <1>1 DEF Malloc, BeforeThread
  <2> QED
    BY <2>1, <2>2, <2>3, <2>4, <2>5, <2>6,
       <2>7, <2>8, <2>9, <2>10 DEF Control
<1>2. CASE MsgRcv(p)
  <2>1. QueueLeft'
    BY <1>0, <1>2 DEF MsgRcv, QueueLeft, QueueOrRemoved, EndedWithout, BeforeQueue
  <2>2. BeforeQueue'
    BY <1>0, <1>2 DEF MsgRcv, BeforeQueue
  <2>3. Undropped'
    BY <1>0, <1>2 DEF MsgRcv, Undropped, BeforeQueue
  <2>4. WaitsOnEmpty'
    <3>1. CASE Exists(p) /\ msgs # <<>>
      BY <1>0, <1>2, <3>1 DEF MsgRcv, WaitsOnEmpty
    <3>2. CASE Exists(p) /\ msgs = <<>>
      BY <1>0, <1>2, <3>2 DEF MsgRcv, WaitsOnEmpty
    <3>3. CASE ~Exists(p)
      BY <1>0, <1>2, <3>3 DEF MsgRcv, WaitsOnEmpty
    <3> QED
      BY <3>1, <3>2, <3>3
  <2>5. ThreadOver'
    BY <1>0, <1>2 DEF MsgRcv, ThreadOver
  <2>6. QueueOrRemoved'
    BY <1>0, <1>2 DEF MsgRcv, QueueOrRemoved, BeforeQueue
  <2>7. AfterRmid'
    BY <1>0, <1>2 DEF MsgRcv, AfterRmid
  <2>8. EndedWithout'
    BY <1>0, <1>2 DEF MsgRcv, EndedWithout, AfterRmid, BeforeQueue
  <2>9. RoomForLine'
    BY <1>0, <1>2 DEF MsgRcv, RoomForLine, BeforeQueue
  <2>10. BeforeThread'
    BY <1>0, <1>2 DEF MsgRcv, BeforeThread
  <2> QED
    BY <2>1, <2>2, <2>3, <2>4, <2>5, <2>6,
       <2>7, <2>8, <2>9, <2>10 DEF Control
<1>3. CASE PrintMsg(p)
  <2>1. QueueLeft'
    BY <1>0, <1>3 DEF PrintMsg, QueueLeft, QueueOrRemoved, EndedWithout, BeforeQueue
  <2>2. BeforeQueue'
    BY <1>0, <1>3 DEF PrintMsg, BeforeQueue
  <2>3. Undropped'
    BY <1>0, <1>3 DEF PrintMsg, Undropped, BeforeQueue
  <2>4. WaitsOnEmpty'
    BY <1>0, <1>3 DEF PrintMsg, WaitsOnEmpty, BeforeQueue
  <2>5. ThreadOver'
    BY <1>0, <1>3 DEF PrintMsg, ThreadOver
  <2>6. QueueOrRemoved'
    BY <1>0, <1>3 DEF PrintMsg, QueueOrRemoved, BeforeQueue
  <2>7. AfterRmid'
    BY <1>0, <1>3 DEF PrintMsg, AfterRmid
  <2>8. EndedWithout'
    BY <1>0, <1>3 DEF PrintMsg, EndedWithout, AfterRmid, BeforeQueue
  <2>9. RoomForLine'
    BY <1>0, <1>3 DEF PrintMsg, RoomForLine, BeforeQueue
  <2>10. BeforeThread'
    BY <1>0, <1>3 DEF PrintMsg, BeforeThread
  <2> QED
    BY <2>1, <2>2, <2>3, <2>4, <2>5, <2>6,
       <2>7, <2>8, <2>9, <2>10 DEF Control
<1>4. CASE Over(p)
  <2>1. QueueLeft'
    BY <1>0, <1>4 DEF Over, QueueLeft, QueueOrRemoved, EndedWithout, BeforeQueue
  <2>2. BeforeQueue'
    BY <1>0, <1>4 DEF Over, BeforeQueue
  <2>3. Undropped'
    BY <1>0, <1>4 DEF Over, Undropped, BeforeQueue
  <2>4. WaitsOnEmpty'
    BY <1>0, <1>4 DEF Over, WaitsOnEmpty, BeforeQueue
  <2>5. ThreadOver'
    BY <1>0, <1>4 DEF Over, ThreadOver
  <2>6. QueueOrRemoved'
    BY <1>0, <1>4 DEF Over, QueueOrRemoved, BeforeQueue
  <2>7. AfterRmid'
    BY <1>0, <1>4 DEF Over, AfterRmid
  <2>8. EndedWithout'
    BY <1>0, <1>4 DEF Over, EndedWithout, AfterRmid, BeforeQueue
  <2>9. RoomForLine'
    BY <1>0, <1>4 DEF Over, RoomForLine, BeforeQueue
  <2>10. BeforeThread'
    BY <1>0, <1>4 DEF Over, BeforeThread
  <2> QED
    BY <2>1, <2>2, <2>3, <2>4, <2>5, <2>6,
       <2>7, <2>8, <2>9, <2>10 DEF Control
<1>5. CASE Kill(p)
  <2>1. QueueLeft'
    BY <1>0, <1>5 DEF Kill, QueueLeft, QueueOrRemoved, EndedWithout, BeforeQueue
  <2>2. BeforeQueue'
    BY <1>0, <1>5 DEF Kill, BeforeQueue
  <2>3. Undropped'
    BY <1>0, <1>5 DEF Kill, Undropped, BeforeQueue
  <2>4. WaitsOnEmpty'
    BY <1>0, <1>5 DEF Kill, WaitsOnEmpty, BeforeQueue
  <2>5. ThreadOver'
    BY <1>0, <1>5 DEF Kill, ThreadOver
  <2>6. QueueOrRemoved'
    BY <1>0, <1>5 DEF Kill, QueueOrRemoved, BeforeQueue
  <2>7. AfterRmid'
    BY <1>0, <1>5 DEF Kill, AfterRmid
  <2>8. EndedWithout'
    BY <1>0, <1>5 DEF Kill, EndedWithout, AfterRmid, BeforeQueue
  <2>9. RoomForLine'
    BY <1>0, <1>5 DEF Kill, RoomForLine, BeforeQueue
  <2>10. BeforeThread'
    BY <1>0, <1>5 DEF Kill, BeforeThread
  <2> QED
    BY <2>1, <2>2, <2>3, <2>4, <2>5, <2>6,
       <2>7, <2>8, <2>9, <2>10 DEF Control
<1>6. CASE Ipcrm(p)
  <2>1. QueueLeft'
    BY <1>0, <1>6 DEF Ipcrm, Remove, QueueLeft, QueueOrRemoved, EndedWithout, BeforeQueue
  <2>2. BeforeQueue'
    BY <1>0, <1>6 DEF Ipcrm, Remove, BeforeQueue
  <2>3. Undropped'
    BY <1>0, <1>6 DEF Ipcrm, Remove, Undropped, BeforeQueue
  <2>4. WaitsOnEmpty'
    BY <1>0, <1>6 DEF Ipcrm, Remove, WaitsOnEmpty, BeforeQueue
  <2>5. ThreadOver'
    BY <1>0, <1>6 DEF Ipcrm, Remove, ThreadOver
  <2>6. QueueOrRemoved'
    BY <1>0, <1>6 DEF Ipcrm, Remove, QueueOrRemoved, BeforeQueue
  <2>7. AfterRmid'
    BY <1>0, <1>6 DEF Ipcrm, Remove, AfterRmid
  <2>8. EndedWithout'
    BY <1>0, <1>6 DEF Ipcrm, Remove, EndedWithout, AfterRmid, BeforeQueue
  <2>9. RoomForLine'
    BY <1>0, <1>6 DEF Ipcrm, Remove, RoomForLine, BeforeQueue
  <2>10. BeforeThread'
    BY <1>0, <1>6 DEF Ipcrm, Remove, BeforeThread
  <2> QED
    BY <2>1, <2>2, <2>3, <2>4, <2>5, <2>6,
       <2>7, <2>8, <2>9, <2>10 DEF Control
<1>7. CASE MsgSndFails(p)
  <2>1. QueueLeft'
    BY <1>0, <1>7 DEF MsgSndFails, QueueLeft, QueueOrRemoved, EndedWithout, BeforeQueue
  <2>2. BeforeQueue'
    BY <1>0, <1>7 DEF MsgSndFails, BeforeQueue
  <2>3. Undropped'
    BY <1>0, <1>7 DEF MsgSndFails, Undropped, BeforeQueue
  <2>4. WaitsOnEmpty'
    BY <1>0, <1>7 DEF MsgSndFails, WaitsOnEmpty, BeforeQueue
  <2>5. ThreadOver'
    BY <1>0, <1>7 DEF MsgSndFails, ThreadOver
  <2>6. QueueOrRemoved'
    BY <1>0, <1>7 DEF MsgSndFails, QueueOrRemoved, BeforeQueue
  <2>7. AfterRmid'
    BY <1>0, <1>7 DEF MsgSndFails, AfterRmid
  <2>8. EndedWithout'
    BY <1>0, <1>7 DEF MsgSndFails, EndedWithout, AfterRmid, BeforeQueue
  <2>9. RoomForLine'
    BY <1>0, <1>7 DEF MsgSndFails, RoomForLine, BeforeQueue
  <2>10. BeforeThread'
    BY <1>0, <1>7 DEF MsgSndFails, BeforeThread
  <2> QED
    BY <2>1, <2>2, <2>3, <2>4, <2>5, <2>6,
       <2>7, <2>8, <2>9, <2>10 DEF Control
<1> QED
  BY <1>1, <1>2, <1>3, <1>4, <1>5, <1>6, <1>7 DEF Thread

\* What the thread has printed of what it received: a message handed over by
\* msgsnd or taken by msgrcv is in its hand until it is printed.
LEMMA HandOver ==
  ASSUME NEW S, NEW g \in Seq(S), NEW e \in S
  PROVE  /\ Append(g, e) # <<>>
         /\ Append(g, e)[Len(Append(g, e))] = e
OBVIOUS

LEMMA StepInHand ==
  ASSUME TypeOK, TypeOK', Control, InHand, NEW p \in Procs,
         Main(p) \/ Thread(p) \/ MsgSndFails(p) \/ Kill(p) \/ Ipcrm(p)
  PROVE  InHand'
<1> USE DEF TypeOK, InHand, queue, history, threads, ThreadGoto
<1>1. CASE MsgGet(p) \/ Create(p) \/ Fgets(p) \/ Join(p)
  <2>1. \A q \in Procs : (cpc'[q] = "print") = (cpc[q] = "print")
    BY <1>1 DEF MsgGet, Create, Fgets, Join, Control, BeforeThread, MainGoto
  <2>2. got' = got /\ printed' = printed
    BY <1>1 DEF MsgGet, Create, Fgets, Join
  <2> QED
    BY <2>1, <2>2
<1>2. CASE MsgSnd(p)
  <2> DEFINE m == Message(p, Len(sent[p]) + 1)
  <2>1. CASE ~Exists(p) \/ cpc[p] # "blocked"
    BY <1>2, <2>1 DEF MsgSnd, Send
  <2>2. CASE Exists(p) /\ cpc[p] = "blocked"
    <3>1. /\ cpc' = [cpc EXCEPT ![p] = "print"]
          /\ got' = [got EXCEPT ![p] = Append(@, m)]
          /\ sent' = [sent EXCEPT ![p] = Append(@, m)]
          /\ printed' = printed
      BY <1>2, <2>2 DEF MsgSnd, Send
    <3> HIDE DEF m
    <3>2. m \in Messages
      BY <3>1
    <3>3. printed[p] = got[p] /\ got'[p] = Append(got[p], m)
      BY <2>2, <3>1
    <3>4. got'[p] # <<>> /\ got'[p][Len(got'[p])] = m
      <4>1. got[p] \in Seq(Messages)
        OBVIOUS
      <4> HIDE DEF TypeOK, InHand
      <4> QED
        BY <3>2, <3>3, <4>1, HandOver
    <3> QED
      BY <3>1, <3>3, <3>4
  <2> QED
    BY <2>1, <2>2
<1>3. CASE Rmid(p) \/ Ipcrm(p)
  <2>1. \A q \in Procs : (cpc'[q] = "print") = (cpc[q] = "print")
    BY <1>3 DEF Rmid, Ipcrm, Remove
  <2>2. got' = got /\ printed' = printed
    BY <1>3 DEF Rmid, Ipcrm
  <2> QED
    BY <2>1, <2>2
<1>4. CASE MsgRcv(p)
  <2>1. CASE Exists(p) /\ msgs # <<>>
    <3>1. /\ cpc' = [cpc EXCEPT ![p] = "print"] /\ cpc[p] = "msgrcv"
          /\ got' = [got EXCEPT ![p] = Append(@, Head(msgs))]
          /\ printed' = printed
      BY <1>4, <2>1 DEF MsgRcv
    <3>2. Head(msgs) \in Messages
      BY <2>1, HeadTailProperties
    <3>3. printed[p] = got[p] /\ got'[p] = Append(got[p], Head(msgs))
      BY <3>1
    <3>4. got'[p] # <<>> /\ got'[p][Len(got'[p])] = Head(msgs)
      <4>1. got[p] \in Seq(Messages)
        OBVIOUS
      <4> HIDE DEF TypeOK, InHand
      <4> QED
        BY <3>2, <3>3, <4>1, HandOver
    <3> QED
      BY <3>1, <3>3, <3>4
  <2>2. CASE ~(Exists(p) /\ msgs # <<>>)
    BY <1>4, <2>2 DEF MsgRcv
  <2> QED
    BY <2>1, <2>2
<1>5. CASE PrintMsg(p)
  <2>1. /\ cpc[p] = "print" /\ cpc' = [cpc EXCEPT ![p] = "msgrcv"]
        /\ printed' = [printed EXCEPT ![p] = Append(@, got[p][Len(got[p])])]
        /\ got' = got
    BY <1>5 DEF PrintMsg
  <2> QED
    BY <2>1
<1>6. CASE Malloc(p) \/ Over(p) \/ MsgSndFails(p) \/ Kill(p)
  BY <1>6 DEF Malloc, Over, MsgSndFails, Kill
<1> QED
  BY <1>1, <1>2, <1>3, <1>4, <1>5, <1>6 DEF Main, Thread

\* What was sent stays accounted for.
LEMMA StepAccounted ==
  ASSUME TypeOK, TypeOK', Control, Control', NEW p \in Procs,
         Main(p) \/ Thread(p) \/ MsgSndFails(p) \/ Kill(p) \/ Ipcrm(p),
         Split
  PROVE  Split'
<1> USE DEF TypeOK, Split, InQueueOrDropped, Exists, queue, history
<1>1. CASE MsgGet(p)
  <2>1. CASE UNCHANGED <<queue, history>>
    BY <2>1
  <2>2. CASE ~UNCHANGED <<queue, history>>
    <3>1. /\ owner = NoProc /\ owner' = p /\ msgs' = <<>>
          /\ sent[p] = <<>> /\ got[p] = <<>>
          /\ UNCHANGED history
      BY <1>1, <2>2 DEF MsgGet, MainGoto, Control, BeforeQueue
    <3>2. <<>> \o <<>> = <<>>
      BY NoMessages, ConcatEmptySeq
    <3> QED
      BY <3>1, <3>2, MsgQueueAssumption
  <2> QED
    BY <2>1, <2>2
<1>2. CASE MsgSnd(p)
  <2> DEFINE m == Message(p, Len(sent[p]) + 1)
  <2>0. got[p] \in Seq(Messages) /\ msgs \in Seq(Messages)
    OBVIOUS
  <2>1. CASE ~Exists(p)
    BY <1>2, <2>1 DEF MsgSnd
  <2>2. CASE Exists(p) /\ cpc[p] = "blocked"
    <3>1. /\ got' = [got EXCEPT ![p] = Append(@, m)]
          /\ sent' = [sent EXCEPT ![p] = Append(@, m)]
          /\ UNCHANGED <<owner, msgs, dropped>>
          /\ msgs = <<>>
      BY <1>2, <2>2 DEF MsgSnd, Send, Control, WaitsOnEmpty
    <3> HIDE DEF m
    <3>2. sent[p] = got[p]
      BY <2>2, <3>1, ConcatEmptySeq
    <3>3. got'[p] \o <<>> = got'[p]
      BY ConcatEmptySeq
    <3> QED
      BY <2>2, <3>1, <3>2, <3>3
  <2>3. CASE Exists(p) /\ cpc[p] # "blocked"
    <3>1. /\ msgs' = Append(msgs, m)
          /\ sent' = [sent EXCEPT ![p] = Append(@, m)]
          /\ UNCHANGED <<owner, got, dropped>>
      BY <1>2, <2>3 DEF MsgSnd, Send
    <3> HIDE DEF m
    <3>2. got[p] \o Append(msgs, m) = Append(got[p] \o msgs, m)
      <4>1. m \in Messages
        BY <3>1
      <4> QED
        BY <2>0, <4>1, AppendLast, Zenon
    <3> QED
      BY <2>3, <3>1, <3>2
  <2> QED
    BY <2>1, <2>2, <2>3
<1>3. ASSUME Remove(p), Exists(p), UNCHANGED <<sent, got>>
      PROVE  Split'
  <2>1. owner = p /\ owner' = NoProc /\ dropped' = [dropped EXCEPT ![p] = msgs]
    BY <1>3 DEF Remove
  <2> QED
    BY <1>3, <2>1, MsgQueueAssumption
<1>4. CASE Rmid(p)
  <2>1. CASE ~Exists(p)
    BY <1>4, <2>1 DEF Rmid
  <2>2. CASE Exists(p)
    BY <1>3, <1>4, <2>2 DEF Rmid
  <2> QED
    BY <2>1, <2>2
<1>5. CASE Ipcrm(p)
  BY <1>3, <1>5 DEF Ipcrm
<1>6. CASE MsgRcv(p)
  <2>1. CASE ~(Exists(p) /\ msgs # <<>>)
    BY <1>6, <2>1 DEF MsgRcv
  <2>2. CASE Exists(p) /\ msgs # <<>>
    <3>1. /\ got' = [got EXCEPT ![p] = Append(@, Head(msgs))]
          /\ msgs' = Tail(msgs)
          /\ UNCHANGED <<owner, sent, dropped>>
      BY <1>6, <2>2 DEF MsgRcv
    <3>2. Append(got[p], Head(msgs)) \o Tail(msgs) = got[p] \o msgs
      <4>1. got[p] \in Seq(Messages) /\ msgs \in Seq(Messages)
        OBVIOUS
      <4> QED
        BY <2>2, <4>1, MoveHead
    <3> QED
      BY <2>2, <3>1, <3>2
  <2> QED
    BY <2>1, <2>2
<1>7. CASE Create(p) \/ Fgets(p) \/ Join(p)
  BY <1>7 DEF Create, Fgets, Join
<1>8. CASE Malloc(p) \/ PrintMsg(p) \/ Over(p) \/ MsgSndFails(p) \/ Kill(p)
  BY <1>8 DEF Malloc, PrintMsg, Over, MsgSndFails, Kill
<1> QED
  BY <1>1, <1>2, <1>4, <1>5, <1>6, <1>7, <1>8 DEF Main, Thread

\* The inductive invariant holds in every reachable state.
THEOREM Inductive == Spec => []IInv
<1>1. ASSUME IInv, NEW p \in Procs,
         Main(p) \/ Thread(p) \/ MsgSndFails(p) \/ Kill(p) \/ Ipcrm(p)
      PROVE  IInv'
  <2>1. TypeOK /\ Control /\ InHand /\ Accounted
    BY <1>1 DEF IInv, Control
  <2>2. TypeOK'
    BY <1>1, <2>1, MainTypeOK, ThreadTypeOK DEF Control
  <2>3. Control'
    BY <1>1, <2>1, MainControl, ThreadControl
  <2>4. InHand'
    BY <1>1, <2>1, <2>2, StepInHand
  <2>5. Accounted'
    <3>1. Split
      BY <2>1, AccountedSplit DEF Control
    <3>2. Split'
      BY <1>1, <2>1, <2>2, <2>3, <3>1, StepAccounted
    <3> QED
      BY <2>2, <2>3, <3>2, AccountedSplitNext DEF Control
  <2> QED
    BY <2>2, <2>3, <2>4, <2>5 DEF IInv, Control
<1>2. ASSUME IInv, UNCHANGED vars
      PROVE  IInv'
  BY <1>2 DEF vars, queue, threads, history, IInv, TypeOK, Accounted, QueueLeft,
     BeforeQueue, BeforeThread, Undropped, WaitsOnEmpty, InHand, ThreadOver,
     QueueOrRemoved, AfterRmid, EndedWithout, RoomForLine, InQueue, Exists, Alive
<1>3. IInv /\ [Next]_vars => IInv'
  BY <1>1, <1>2 DEF Next, Terminated
<1> QED
  BY InitIInv, <1>3, PTL DEF Spec
\* Every variable has its type; the queue never holds more than it can.
THEOREM TypeCorrect == Spec => []TypeOK
<1>1. IInv => TypeOK
  BY DEF IInv
<1> QED
  BY Inductive, <1>1, PTL

\* What a process sends is received by its own thread, in that order, or still
\* in the queue, or destroyed with it, whoever is killed and whenever.
THEOREM NothingUnaccounted == Spec => []Accounted
<1>1. IInv => Accounted
  BY DEF IInv
<1> QED
  BY Inductive, <1>1, PTL

\* A process that ends by itself has printed what its thread received.
THEOREM EndsPrinted == Spec => []ReceivedIsPrinted
<1>1. IInv => ReceivedIsPrinted
  BY DEF IInv, InHand, ThreadOver, ReceivedIsPrinted
<1> QED
  BY Inductive, <1>1, PTL

\* Only a kill, a thread that cannot start and a msgsnd that fails leave the
\* queue behind; IPC_RMID fails only if someone else removed the queue.
THEOREM LeavesNoQueue == Spec => []QueueLeft
<1>1. IInv => QueueLeft
  BY DEF IInv
<1> QED
  BY Inductive, <1>1, PTL

\* Initially no line has been accepted and none delivered.
LEMMA InitFifo == Init => Lines!Init
BY DEF Init, Lines!Init

\* The message in the thread's hand is the next one of those that were sent.
LEMMA NextOne ==
  ASSUME NEW S, NEW done \in Seq(S), NEW e \in S, NEW rest \in Seq(S)
  PROVE  /\ Len(done) + 1 \in DOMAIN (Append(done, e) \o rest)
         /\ (Append(done, e) \o rest)[Len(done) + 1] = e
OBVIOUS

\* The rest of what was sent, in one piece.
LEMMA Regroup ==
  \A g, a, b \in Seq(Messages) : g \o a \o b = g \o (a \o b)
BY ConcatAssociative

\* PrintMsg delivers the next line of those accepted.
LEMMA PrintDelivers ==
  ASSUME TypeOK, Accounted, InHand, NEW p \in Procs, PrintMsg(p)
  PROVE  Lines!Deliver(p)
<1> DEFINE e    == got[p][Len(got[p])]
           rest == InQueue(p) \o dropped[p]
<1>1. /\ cpc[p] = "print" /\ UNCHANGED sent
      /\ printed' = [printed EXCEPT ![p] = Append(@, e)]
  BY DEF PrintMsg, ThreadGoto
<1>2. /\ printed[p] \in Seq(Messages) /\ got[p] \in Seq(Messages)
      /\ InQueue(p) \in Seq(Messages) /\ dropped[p] \in Seq(Messages)
  BY EmptySeq DEF TypeOK, InQueue
<1>3. got[p] # <<>> /\ got[p] = Append(printed[p], e)
  BY <1>1 DEF InHand
<1>4. e \in Messages /\ rest \in Seq(Messages)
  BY <1>2, <1>3, ConcatProperties
<1>5. sent[p] = Append(printed[p], e) \o rest
  <2>1. sent[p] = got[p] \o InQueue(p) \o dropped[p]
    BY DEF Accounted
  <2>2. got[p] \o InQueue(p) \o dropped[p] = got[p] \o rest
    BY <1>2, Regroup, Zenon
  <2> QED
    BY <1>3, <2>1, <2>2
<1> HIDE DEF e, rest
<1>6. /\ Len(printed[p]) + 1 \in DOMAIN sent[p]
      /\ sent[p][Len(printed[p]) + 1] = e
  BY <1>2, <1>4, <1>5, NextOne
<1> QED
  BY <1>1, <1>6 DEF Lines!Deliver

\* A successful msgsnd accepts a line; every other step of a process changes
\* neither what it has sent nor what it has printed.
LEMMA StepFifo ==
  ASSUME IInv, NEW p \in Procs,
         Main(p) \/ Thread(p) \/ MsgSndFails(p) \/ Kill(p) \/ Ipcrm(p)
  PROVE  [Lines!Next]_Lines!absvars
<1> USE DEF history, Lines!absvars
<1>0. TypeOK /\ Accounted /\ InHand /\ RoomForLine
  BY DEF IInv
<1>1. CASE MsgSnd(p)
  <2> DEFINE m == Message(p, Len(sent[p]) + 1)
  <2>1. CASE Exists(p)
    <3>1. /\ mpc[p] = "msgsnd"
          /\ sent' = [sent EXCEPT ![p] = Append(@, m)] /\ UNCHANGED printed
      BY <1>1, <2>1 DEF MsgSnd, MainGoto
    <3>2. Len(sent[p]) < MaxLines /\ sent[p] \in Seq(Messages)
      BY <1>0, <3>1 DEF RoomForLine, TypeOK
    <3>3. m \in Messages
      <4>1. Len(sent[p]) + 1 \in 1 .. MaxLines
        BY <3>2, MsgQueueAssumption
      <4> QED
        BY <4>1 DEF Message, Messages
    <3> HIDE DEF m
    <3>4. Lines!Accept(p, m)
      BY <3>1 DEF Lines!Accept
    <3> QED
      BY <3>3, <3>4 DEF Lines!Next
  <2>2. CASE ~Exists(p)
    BY <1>1, <2>2 DEF MsgSnd
  <2> QED
    BY <2>1, <2>2
<1>2. CASE PrintMsg(p)
  BY <1>0, <1>2, PrintDelivers DEF Lines!Next
<1>3. CASE MsgGet(p) \/ Create(p) \/ Fgets(p) \/ Rmid(p) \/ Join(p)
  BY <1>3 DEF MsgGet, Create, Fgets, Rmid, Join
<1>4. CASE \/ Malloc(p) \/ MsgRcv(p) \/ Over(p)
           \/ MsgSndFails(p) \/ Kill(p) \/ Ipcrm(p)
  BY <1>4 DEF Malloc, MsgRcv, Over, MsgSndFails, Kill, Ipcrm
<1> QED
  BY <1>1, <1>2, <1>3, <1>4 DEF Main, Thread

\* Every process delivers its lines in order: the program implements LineQueue,
\* for any number of processes, whoever is killed and whatever is removed.
THEOREM Refinement == Spec => Fifo
<1>1. IInv /\ [Next]_vars => [Lines!Next]_Lines!absvars
  <2>1. UNCHANGED vars => UNCHANGED Lines!absvars
    BY DEF vars, history, Lines!absvars
  <2> QED
    BY <2>1, StepFifo DEF Next, Terminated
<1> QED
  BY InitFifo, Inductive, <1>1, PTL DEF Spec, Fifo, Lines!Spec
=============================================================================
