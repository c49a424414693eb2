-------------------------- MODULE StreamCopy_proofs --------------------------
(***************************************************************************)
(* NothingMisplaced and SuccessMeansCopied of StreamCopy, for inputs,      *)
(* buffers and sinks of any size.                                          *)
(***************************************************************************)
EXTENDS StreamCopy, SequenceTheorems, TLAPS

\* What a part of the input is.
LEMMA BytesAre ==
  ASSUME NEW a \in Nat, NEW b \in Nat, a =< b
  PROVE  /\ Bytes(a, b) \in Seq(a + 1 .. b)
         /\ Bytes(a, b) \in Seq(Nat)
         /\ Len(Bytes(a, b)) = b - a
         /\ \A k \in 1 .. b - a : Bytes(a, b)[k] = a + k
<1>1. \A k \in 1 .. b - a : a + k \in a + 1 .. b
  OBVIOUS
<1>2. b - a \in Nat
  OBVIOUS
<1>3. a + 1 .. b \subseteq Nat
  OBVIOUS
<1> QED
  BY <1>1, <1>2, <1>3 DEF Bytes

\* What a beginning of the input is.
LEMMA BeginningIs ==
  ASSUME NEW n \in Nat
  PROVE  /\ Bytes(0, n) \in Seq(1 .. n)
         /\ Bytes(0, n) \in Seq(Nat)
         /\ Len(Bytes(0, n)) = n
         /\ \A k \in 1 .. n : Bytes(0, n)[k] = k
<1>1. \A k \in 1 .. n : 0 + k = k
  OBVIOUS
<1>2. n - 0 = n /\ 1 .. n \subseteq Nat
  OBVIOUS
<1> QED
  BY <1>1, <1>2 DEF Bytes

\* Two adjacent parts of the input are one.
LEMMA BytesConcat ==
  ASSUME NEW a \in Nat, NEW b \in Nat, a =< b
  PROVE  Bytes(0, a) \o Bytes(a, b) = Bytes(0, b)
<1> DEFINE l == Bytes(0, a)
           r == Bytes(a, b)
           w == Bytes(0, b)
<1>1. l \in Seq(Nat) /\ Len(l) = a /\ \A k \in 1 .. a : l[k] = k
  BY BeginningIs
<1>2. r \in Seq(Nat) /\ Len(r) = b - a /\ \A k \in 1 .. b - a : r[k] = a + k
  BY BytesAre
<1>3. w \in Seq(Nat) /\ Len(w) = b /\ \A k \in 1 .. b : w[k] = k
  BY BeginningIs
<1> HIDE DEF l, r, w
<1>4. /\ l \o r \in Seq(Nat) /\ Len(l \o r) = a + (b - a)
      /\ \A k \in 1 .. a + (b - a) : (l \o r)[k] = IF k <= a THEN l[k] ELSE r[k - a]
  <2>1. /\ l \o r \in Seq(Nat) /\ Len(l \o r) = Len(l) + Len(r)
        /\ \A k \in 1 .. Len(l) + Len(r) :
             (l \o r)[k] = IF k <= Len(l) THEN l[k] ELSE r[k - Len(l)]
    <3>1. l \in Seq(Nat) /\ r \in Seq(Nat)
      BY <1>1, <1>2
    <3> QED
      BY <3>1, ConcatProperties
  <2>2. Len(l) = a /\ Len(r) = b - a
    BY <1>1, <1>2
  <2> QED
    BY <2>1, <2>2
<1>5. a + (b - a) = b
  OBVIOUS
<1>6. Len(l \o r) = Len(w)
  BY <1>3, <1>4, <1>5
<1>7. ASSUME NEW k \in 1 .. b PROVE (l \o r)[k] = w[k]
  <2>1. CASE k <= a
    BY <1>1, <1>3, <1>4, <1>5, <2>1
  <2>2. CASE ~(k <= a)
    <3>1. k - a \in 1 .. b - a /\ a + (k - a) = k
      BY <2>2
    <3> QED
      BY <1>2, <1>3, <1>4, <1>5, <2>2, <3>1
  <2> QED
    BY <2>1, <2>2
<1>8. l \o r = w
  BY <1>3, <1>4, <1>5, <1>6, <1>7, SeqEqual
<1> QED
  BY <1>8 DEF l, r, w

\* A prefix of the input is a part of the input.
LEMMA BytesPrefix ==
  ASSUME NEW n \in Nat, NEW s \in Seq(Nat), NEW t \in Seq(Nat), s \o t = Bytes(0, n)
  PROVE  Len(s) =< n /\ s = Bytes(0, Len(s))
<1> DEFINE w == Bytes(0, n)
           v == Bytes(0, Len(s))
<1>1. Len(w) = n /\ \A k \in 1 .. n : w[k] = k
  BY BeginningIs
<1>2. Len(s) \in Nat /\ Len(t) \in Nat
  BY LenProperties
<1>3. v \in Seq(Nat) /\ Len(v) = Len(s) /\ \A k \in 1 .. Len(s) : v[k] = k
  BY <1>2, BeginningIs
<1> HIDE DEF w, v
<1>4. /\ Len(s \o t) = Len(s) + Len(t)
      /\ \A k \in 1 .. Len(s) + Len(t) :
           (s \o t)[k] = IF k <= Len(s) THEN s[k] ELSE t[k - Len(s)]
  BY ConcatProperties
<1>5. s \o t = w
  BY DEF w
<1>6. \A k \in 1 .. Len(s) : s[k] = v[k]
  BY <1>1, <1>2, <1>3, <1>4, <1>5
<1>7. s = v
  BY <1>3, <1>6, SeqEqual
<1> QED
  BY <1>1, <1>2, <1>4, <1>5, <1>7 DEF v

\* The first n elements of a sequence, and the others.
LEMMA Split ==
  ASSUME NEW S, NEW t \in Seq(S), NEW n \in 0 .. Len(t)
  PROVE  /\ SubSeq(t, 1, n) \in Seq(S)
         /\ SubSeq(t, n + 1, Len(t)) \in Seq(S)
         /\ Len(SubSeq(t, n + 1, Len(t))) = Len(t) - n
         /\ SubSeq(t, 1, n) \o SubSeq(t, n + 1, Len(t)) = t
<1> DEFINE l == SubSeq(t, 1, n)
           r == SubSeq(t, n + 1, Len(t))
<1>1. Len(t) \in Nat /\ \A k \in 1 .. Len(t) : t[k] \in S
  BY LenProperties, ElementOfSeq
<1>2. /\ 1 \in Int /\ n \in Int /\ n + 1 \in Int /\ Len(t) \in Int
      /\ \A k \in 1 .. n : t[k] \in S
      /\ \A k \in n + 1 .. Len(t) : t[k] \in S
  BY <1>1
<1>3. l \in Seq(S)
  BY <1>2, SubSeqProperties
<1>4. r \in Seq(S) /\ Len(r) = IF n + 1 <= Len(t) THEN Len(t) - (n + 1) + 1 ELSE 0
  BY <1>2, SubSeqProperties
<1>5. Len(r) = Len(t) - n
  BY <1>1, <1>4
<1>6. l \o r = t
  <2>1. 1 \in 1 .. Len(t) + 1 /\ n \in 1 - 1 .. Len(t) /\ Len(t) \in n .. Len(t)
    BY <1>1
  <2>2. l \o r = SubSeq(t, 1, Len(t))
    BY <2>1, ConcatAdjacentSubSeq
  <2> QED
    BY <2>2, SubSeqFull
<1> QED
  BY <1>3, <1>4, <1>5, <1>6

---------------------------------------------------------------------------
\* What the invariant says of what has been written.
LEMMA SoFar ==
  ASSUME IInv
  PROVE  /\ offset \in Nat /\ length \in Nat /\ size \in Nat /\ room \in Nat
         /\ offset =< size /\ size =< length /\ length =< MaxInput
         /\ buf \in Seq(1 .. MaxInput) /\ buf \in Seq(Nat)
         /\ out \in Seq(0 .. MaxInput) /\ out \in Seq(Nat)
         /\ ~(program = "dev_fd" /\ pc = "exit 0") =>
              /\ out \o buf = Bytes(0, offset)
              /\ Len(out) \in 0 .. offset /\ out = Bytes(0, Len(out))
              /\ buf = <<>> => out = Bytes(0, offset)
<1>1. /\ offset \in Nat /\ length \in Nat /\ size \in Nat /\ room \in Nat
      /\ offset =< size /\ size =< length /\ length =< MaxInput
  BY StreamCopyAssumption DEF IInv, TypeOK
<1>2. buf \in Seq(1 .. MaxInput) /\ out \in Seq(0 .. MaxInput)
  BY DEF IInv, TypeOK
<1>3. buf \in Seq(Nat) /\ out \in Seq(Nat)
  <2>1. 1 .. MaxInput \subseteq Nat /\ 0 .. MaxInput \subseteq Nat
    BY StreamCopyAssumption
  <2> QED
    BY <1>2, <2>1, SeqMonotonic
<1>4. ASSUME ~(program = "dev_fd" /\ pc = "exit 0")
      PROVE  /\ out \o buf = Bytes(0, offset)
             /\ Len(out) \in 0 .. offset /\ out = Bytes(0, Len(out))
             /\ buf = <<>> => out = Bytes(0, offset)
  <2>1. out \o buf = Bytes(0, offset)
    BY <1>4 DEF IInv, NothingMisplaced, Written
  <2>2. Len(out) \in Nat /\ Len(out) =< offset /\ out = Bytes(0, Len(out))
    BY <1>1, <1>3, <2>1, BytesPrefix, LenProperties
  <2>3. buf = <<>> => out = Bytes(0, offset)
    BY <1>3, <2>1, ConcatEmptySeq
  <2> QED
    BY <1>1, <2>1, <2>2, <2>3
<1> QED
  BY <1>1, <1>2, <1>3, <1>4

\* Init establishes the invariant.
LEMMA InitIInv == Init => IInv
<1> SUFFICES ASSUME Init PROVE IInv
  OBVIOUS
<1>1. /\ <<>> \in Seq(Nat) /\ Len(<<>>) = 0 /\ <<>> \o <<>> = <<>>
      /\ <<>> \in Seq(1 .. MaxInput) /\ <<>> \in Seq(0 .. MaxInput)
  BY EmptySeq, ConcatEmptySeq
<1>2. Bytes(0, 0) = <<>>
  <2>1. 0 \in Nat
    OBVIOUS
  <2>2. Bytes(0, 0) \in Seq(Nat) /\ Len(Bytes(0, 0)) = 0
    BY <2>1, BeginningIs
  <2> QED
    BY <2>2, EmptySeq
<1>3. TypeOK
  <2>1. same \in BOOLEAN
    BY DEF Init
  <2>2. /\ length \in 0 .. MaxInput /\ size \in 0 .. length /\ offset \in 0 .. size
        /\ room \in 0 .. Capacity /\ returned \in 0 .. MaxInput
    <3>1. /\ length \in 0 .. MaxInput /\ size = length /\ offset = 0
          /\ room \in 0 .. Capacity /\ returned = 0
      BY DEF Init
    <3> QED
      BY <3>1, StreamCopyAssumption
  <2>5. Len(buf) =< BufSize
    <3>1. buf = <<>>
      BY DEF Init
    <3>2. 0 =< BufSize
      BY StreamCopyAssumption
    <3> QED
      BY <1>1, <3>1, <3>2
  <2>3. /\ program \in Programs /\ drains \in BOOLEAN /\ pc \in Pcs
        /\ aio \in {"none", "started", "done", "error"}
    BY DEF Init, Pcs
  <2>4. buf \in Seq(1 .. MaxInput) /\ out \in Seq(0 .. MaxInput)
    BY <1>1 DEF Init
  <2> QED
    BY <2>1, <2>2, <2>3, <2>4, <2>5 DEF TypeOK
<1>4. BufferEmpty /\ Unread /\ Shorter /\ AtTheEnd /\ OwnWay
  BY DEF Init, BufferEmpty, Unread, Shorter, AtTheEnd, OwnWay
<1>5. NothingMisplaced /\ SuccessMeansCopied
  BY <1>1, <1>2 DEF Init, NothingMisplaced, Written, SuccessMeansCopied
<1> QED
  BY <1>3, <1>4, <1>5 DEF IInv

\* A step that moves no byte and ends nothing keeps the invariant.
LEMMA QuietIInv ==
  ASSUME IInv, OpenIn \/ OpenOut \/ SetNonblock \/ AioWrite \/ AioSuspend
         \/ AioSuspendFails \/ Kill
  PROVE  IInv'
<1>1. TypeOK'
  <2>1. UNCHANGED <<program, same, length, drains, room, offset, buf, out, returned>>
    BY DEF OpenIn, OpenOut, SetNonblock, AioWrite, AioSuspend, AioSuspendFails,
     Kill, sink
  <2>2. size' = size \/ (size' = 0 /\ offset = 0)
    BY DEF OpenIn, OpenOut, SetNonblock, AioWrite, AioSuspend, AioSuspendFails,
     Kill, Goto, IInv, Unread
  <2>3. size' \in 0 .. length /\ offset \in 0 .. size'
    <3>1. /\ offset \in Nat /\ size \in Nat /\ length \in Nat
          /\ offset =< size /\ size =< length
      BY SoFar
    <3> QED
      BY <2>2, <3>1
  <2>4. pc' \in Pcs /\ aio' \in {"none", "started", "done", "error"}
    BY DEF OpenIn, OpenOut, SetNonblock, AioWrite, AioSuspend, AioSuspendFails,
     Kill, Goto, IInv, TypeOK,
           Pcs, Ends
  <2> QED
    BY <2>1, <2>3, <2>4 DEF IInv, TypeOK
<1>2. BufferEmpty' /\ Unread' /\ AtTheEnd'
  BY DEF OpenIn, OpenOut, SetNonblock, AioWrite, AioSuspend, AioSuspendFails,
     Kill, Goto, IInv,
         BufferEmpty, Unread, AtTheEnd, Ends
<1>3. Shorter'
  <2>1. ~same => size' = size
    BY DEF OpenIn, OpenOut, SetNonblock, AioWrite, AioSuspend, AioSuspendFails,
     Kill
  <2>2. same' = same /\ length' = length
    BY DEF OpenIn, OpenOut, SetNonblock, AioWrite, AioSuspend, AioSuspendFails,
     Kill
  <2> QED
    BY <2>1, <2>2 DEF IInv, Shorter
<1>6. OwnWay'
  <2>1. OwnWay
    BY DEF IInv
  <2>2. program' = program /\ same' = same
    BY DEF OpenIn, OpenOut, SetNonblock, AioWrite, AioSuspend, AioSuspendFails,
     Kill
  <2>3. /\ pc' \notin {"setfl", "line"}
        /\ pc' = "aio_return" => pc = "aio_suspend"
        /\ pc' = "aio_suspend" => program = "aio"
        /\ aio' = aio \/ program = "aio"
    BY DEF OpenIn, OpenOut, SetNonblock, AioWrite, AioSuspend, AioSuspendFails,
     Kill, Goto, Ends
  <2> QED
    BY <2>1, <2>2, <2>3 DEF OwnWay
<1>4. /\ pc # "exit 0" /\ pc' # "exit 0"
      /\ UNCHANGED <<program, out, buf, offset>>
  BY DEF OpenIn, OpenOut, SetNonblock, AioWrite, AioSuspend, AioSuspendFails,
     Kill, Goto, Ends
<1>5. NothingMisplaced' /\ SuccessMeansCopied'
  BY <1>4 DEF IInv, NothingMisplaced, Written, SuccessMeansCopied
<1> QED
  BY <1>1, <1>2, <1>3, <1>5, <1>6 DEF IInv

\* The sink drains, or nothing happens.
LEMMA DrainIInv ==
  ASSUME IInv, Drain \/ UNCHANGED vars
  PROVE  IInv'
<1>1. UNCHANGED <<program, same, length, drains, pc, size, offset, buf, out, aio, returned>>
  BY DEF Drain, vars, sink
<1>2. room' \in 0 .. Capacity
  BY StreamCopyAssumption DEF IInv, TypeOK, Drain, vars, sink
<1>3. TypeOK'
  BY <1>1, <1>2 DEF IInv, TypeOK
<1>4. BufferEmpty' /\ Unread' /\ AtTheEnd' /\ Shorter' /\ OwnWay'
  BY <1>1 DEF IInv, BufferEmpty, Unread, AtTheEnd, Shorter, OwnWay
<1>5. NothingMisplaced' /\ SuccessMeansCopied'
  BY <1>1 DEF IInv, NothingMisplaced, Written, SuccessMeansCopied, Input
<1> QED
  BY <1>3, <1>4, <1>5 DEF IInv

\* A program that notices the end of its input, or of its writing.
LEMMA EndIInv ==
  ASSUME IInv, ReadEnd \/ WriteDone \/ AioReturn
  PROVE  IInv'
<1>1. UNCHANGED <<program, same, length, drains, room, size, offset, buf, out, aio>>
  BY DEF ReadEnd, WriteDone, AioReturn, sink
<1>2. /\ pc \in {"read", "write", "aio_return"}
      /\ pc' \in {"exit 0", "exit 1", "setfl", "line", "write"}
      /\ program = "dev_fd" => pc' # "exit 0"
  BY DEF ReadEnd, WriteDone, AioReturn, Goto, AfterEnd, IInv, TypeOK, Programs, OwnWay
<1>3. returned' \in 0 .. MaxInput
  <2>1. returned \in 0 .. MaxInput
    BY DEF IInv, TypeOK
  <2>2. Len(out) \in 0 .. MaxInput
    <3>1. offset \in Nat /\ size \in Nat /\ length \in Nat
      BY SoFar
    <3>2. Len(out) \in 0 .. offset /\ offset =< size /\ size =< length /\ length =< MaxInput
      BY <1>2, SoFar
    <3> QED
      BY <3>1, <3>2, StreamCopyAssumption
  <2>3. returned' = returned \/ returned' = Len(out)
    BY DEF ReadEnd, WriteDone, AioReturn
  <2> QED
    BY <2>1, <2>2, <2>3
<1>4. TypeOK'
  BY <1>1, <1>2, <1>3 DEF IInv, TypeOK, Pcs, Ends
<1>5. BufferEmpty' /\ Unread' /\ AtTheEnd'
  BY <1>1, <1>2
     DEF ReadEnd, WriteDone, AioReturn, Goto, AfterEnd, IInv, BufferEmpty, Unread,
         AtTheEnd, TypeOK, Programs
<1>6. Shorter' /\ OwnWay'
  BY <1>1, <1>2
     DEF ReadEnd, WriteDone, AioReturn, Goto, AfterEnd, IInv, Shorter, OwnWay, TypeOK,
         Programs
<1>7. NothingMisplaced'
  BY <1>1, <1>2 DEF IInv, NothingMisplaced, Written
<1>8. SuccessMeansCopied'
  <2>1. SUFFICES ASSUME pc' = "exit 0" PROVE SuccessMeansCopied'
    BY DEF SuccessMeansCopied
  <2>2. CASE ReadEnd
    <3>1. program = "copy" /\ offset = size /\ buf = <<>>
      BY <2>1, <2>2 DEF ReadEnd, Goto, AfterEnd, IInv, BufferEmpty, TypeOK, Programs
    <3>2. out = Bytes(0, offset)
      BY <3>1, SoFar
    <3>3. same \/ out = Input
      BY <3>1, <3>2 DEF IInv, Shorter, Input
    <3> QED
      BY <1>1, <3>1, <3>3 DEF SuccessMeansCopied, Input
  <2>3. CASE WriteDone
    <3>1. program = "nonblock" /\ buf = <<>>
      BY <2>3 DEF WriteDone
    <3>2. out = Bytes(0, offset)
      BY <3>1, SoFar
    <3> QED
      BY <1>1, <3>1, <3>2 DEF SuccessMeansCopied
  <2>4. CASE AioReturn
    <3>1. program = "aio" /\ (pc' = "exit 0" => returned' = Len(out))
      BY <2>4 DEF AioReturn, Goto, IInv, OwnWay
    <3>2. out = Bytes(0, Len(out))
      BY <3>1, SoFar
    <3> QED
      BY <1>1, <3>1, <3>2 DEF SuccessMeansCopied
  <2> QED
    BY <2>2, <2>3, <2>4
<1> QED
  BY <1>4, <1>5, <1>6, <1>7, <1>8 DEF IInv
\* A read into the empty buffer.
LEMMA ReadIInv ==
  ASSUME IInv, ReadSome
  PROVE  IInv'
<1>1. PICK n \in 1 .. Least(BufSize, size - offset) :
        /\ buf' = Bytes(offset, offset + n)
        /\ offset' = offset + n
  BY DEF ReadSome
<1>2. /\ UNCHANGED <<program, same, length, drains, room, size, out, aio, returned>>
      /\ pc = "read"
      /\ pc' = IF program = "nonblock" THEN "setfl" ELSE "write"
  BY DEF ReadSome, Goto, sink
<1>3. /\ offset \in Nat /\ length \in Nat /\ size \in Nat
      /\ offset =< size /\ size =< length /\ length =< MaxInput
  BY SoFar
<1>4. n \in Nat /\ n =< BufSize /\ offset + n =< size
  BY <1>3, StreamCopyAssumption DEF Least
<1>5. /\ buf' \in Seq(offset + 1 .. offset + n)
      /\ Len(buf') = (offset + n) - offset
  <2>1. offset + n \in Nat /\ offset =< offset + n
    BY <1>3, <1>4
  <2> QED
    BY <1>1, <1>3, <2>1, BytesAre
<1>6. TypeOK'
  <2>1. offset + 1 .. offset + n \subseteq 1 .. MaxInput
    BY <1>3, <1>4, StreamCopyAssumption
  <2>2. buf' \in Seq(1 .. MaxInput)
    BY <1>5, <2>1, SeqMonotonic
  <2>3. Len(buf') =< BufSize
    BY <1>3, <1>4, <1>5
  <2>4. offset' \in 0 .. size
    BY <1>1, <1>3, <1>4
  <2>5. pc' \in Pcs
    BY <1>2 DEF Pcs
  <2> QED
    BY <1>2, <2>2, <2>3, <2>4, <2>5 DEF IInv, TypeOK
<1>7. BufferEmpty' /\ Unread' /\ AtTheEnd' /\ SuccessMeansCopied'
  BY <1>2 DEF BufferEmpty, Unread, AtTheEnd, SuccessMeansCopied
<1>8. Shorter' /\ OwnWay'
  BY <1>2 DEF IInv, Shorter, OwnWay
<1>9. NothingMisplaced'
  <2>1. buf = <<>>
    BY <1>2 DEF IInv, BufferEmpty
  <2>2. out = Bytes(0, offset)
    BY <1>2, <2>1, SoFar
  <2>3. offset + n \in Nat /\ offset =< offset + n
    BY <1>3, <1>4
  <2>4. out \o Bytes(offset, offset + n) = Bytes(0, offset + n)
    BY <1>3, <2>2, <2>3, BytesConcat
  <2>5. Written' = out
    BY <1>2 DEF Written
  <2> QED
    BY <1>1, <2>4, <2>5 DEF NothingMisplaced
<1> QED
  BY <1>6, <1>7, <1>8, <1>9 DEF IInv

\* A write that takes a part of the buffer, or all of it.
LEMMA WriteIInv ==
  ASSUME IInv, Write \/ AioThread \/ WriteNonblock
  PROVE  IInv'
<1>1. /\ offset \in Nat /\ length \in Nat /\ size \in Nat /\ room \in Nat
      /\ room =< Capacity /\ Len(buf) \in Nat /\ Len(buf) =< BufSize
      /\ buf \in Seq(1 .. MaxInput) /\ out \in Seq(0 .. MaxInput)
  <2>1. /\ offset \in Nat /\ length \in Nat /\ size \in Nat /\ room \in Nat
        /\ buf \in Seq(1 .. MaxInput) /\ out \in Seq(0 .. MaxInput)
    BY SoFar
  <2>2. Len(buf) \in Nat
    BY <2>1, LenProperties
  <2>3. room \in 0 .. Capacity /\ Len(buf) =< BufSize
    BY DEF IInv, TypeOK
  <2> QED
    BY <2>1, <2>2, <2>3, StreamCopyAssumption
<1>2. UNCHANGED <<program, same, length, drains, size, offset, returned>>
  BY DEF Write, AioThread, WriteNonblock
<1>3. PICK n \in 0 .. Len(buf) :
        /\ out' = out \o SubSeq(buf, 1, n)
        /\ buf' = SubSeq(buf, n + 1, Len(buf))
        /\ room' = room \/ (n =< room /\ room' = room - n)
        /\ pc' = "read" => n = Len(buf) \/ pc = "read"
  <2>1. ASSUME NEW n, n = IF drains THEN Len(buf) ELSE Least(Len(buf), room)
        PROVE  n \in 0 .. Len(buf) /\ (drains \/ n =< room)
    BY <1>1, <2>1 DEF Least
  <2>2. CASE Write
    BY <2>1, <2>2 DEF Write, Taken, Goto
  <2>3. CASE AioThread
    BY <2>1, <2>3 DEF AioThread, Taken
  <2>4. CASE WriteNonblock
    <3>1. PICK n \in 1 .. Least(Len(buf), room) :
            /\ out' = out \o SubSeq(buf, 1, n)
            /\ buf' = SubSeq(buf, n + 1, Len(buf))
            /\ room' = room - n
      BY <2>4 DEF WriteNonblock
    <3>2. n \in 0 .. Len(buf) /\ n =< room
      BY <1>1 DEF Least
    <3>3. pc' = "write"
      BY <2>4 DEF WriteNonblock, Goto
    <3> QED
      BY <3>1, <3>2, <3>3
  <2> QED
    BY <2>2, <2>3, <2>4
<1>4. /\ out' \in Seq(0 .. MaxInput) /\ buf' \in Seq(1 .. MaxInput)
      /\ Len(buf') = Len(buf) - n
      /\ out' \o buf' = out \o buf
  <2>1. 1 .. MaxInput \subseteq 0 .. MaxInput
    BY StreamCopyAssumption
  <2> DEFINE l == SubSeq(buf, 1, n)
             r == SubSeq(buf, n + 1, Len(buf))
  <2>2. /\ l \in Seq(1 .. MaxInput) /\ r \in Seq(1 .. MaxInput)
        /\ Len(r) = Len(buf) - n /\ l \o r = buf
    BY <1>1, Split
  <2>3. out' = out \o l /\ buf' = r
    BY <1>3
  <2> HIDE DEF l, r
  <2>4. l \in Seq(0 .. MaxInput) /\ r \in Seq(0 .. MaxInput)
    BY <2>1, <2>2, SeqMonotonic
  <2>5. out \o l \in Seq(0 .. MaxInput)
    BY <1>1, <2>4, ConcatProperties
  <2>6. (out \o l) \o r = out \o (l \o r)
    <3> DEFINE S == 0 .. MaxInput
    <3>1. out \in Seq(S) /\ l \in Seq(S) /\ r \in Seq(S)
      BY <1>1, <2>4
    <3> HIDE DEF S
    <3> QED
      BY <3>1, ConcatAssociative
  <2> QED
    BY <2>2, <2>3, <2>5, <2>6
<1>5. pc \notin Ends /\ pc' # "exit 0" /\ pc' \in Pcs
  BY DEF Write, AioThread, WriteNonblock, Goto, Ends, Pcs, IInv, TypeOK
<1>6. TypeOK'
  <2>1. room' \in 0 .. Capacity
    BY <1>1, <1>3, StreamCopyAssumption
  <2>2. Len(buf') =< BufSize
    BY <1>1, <1>3, <1>4, StreamCopyAssumption
  <2>3. aio' \in {"none", "started", "done", "error"}
    BY DEF Write, AioThread, WriteNonblock, IInv, TypeOK
  <2> QED
    BY <1>2, <1>4, <1>5, <2>1, <2>2, <2>3 DEF IInv, TypeOK
<1>7. pc' = pc \/ pc' \in {"read", "write", "exit 1"}
  BY DEF Write, AioThread, WriteNonblock, Goto
<1>8. BufferEmpty'
  <2>1. SUFFICES ASSUME pc' \in {"open in", "open out", "read", "line"} PROVE buf' = <<>>
    BY DEF BufferEmpty
  <2>2. n = Len(buf) \/ buf = <<>>
    BY <1>3, <1>7, <2>1 DEF IInv, BufferEmpty
  <2>3. Len(buf') = 0
    BY <1>1, <1>3, <1>4, <2>2, EmptySeq
  <2> QED
    BY <1>4, <2>3, EmptySeq
<1>9. Unread' /\ Shorter' /\ AtTheEnd'
  BY <1>2, <1>7 DEF IInv, Unread, Shorter, AtTheEnd
<1>10. OwnWay'
  <2>1. OwnWay
    BY DEF IInv
  <2>2. aio' = aio \/ aio = "started"
    BY DEF Write, AioThread, WriteNonblock
  <2> QED
    BY <1>2, <1>7, <2>1, <2>2 DEF OwnWay
<1>11. NothingMisplaced' /\ SuccessMeansCopied'
  <2>1. out \o buf = Bytes(0, offset)
    BY <1>5, SoFar DEF Ends
  <2> QED
    BY <1>2, <1>4, <1>5, <2>1 DEF NothingMisplaced, Written, SuccessMeansCopied
<1> QED
  BY <1>6, <1>8, <1>9, <1>10, <1>11 DEF IInv

\* The last line of dev_fd.
LEMMA LineIInv ==
  ASSUME IInv, WriteLine
  PROVE  IInv'
<1>1. /\ UNCHANGED <<program, same, length, drains, size, offset, buf, aio, returned>>
      /\ pc = "line"
      /\ \/ pc' = "exit 0" /\ out' = Append(out, Line)
         \/ pc' = "exit 1" /\ out' = out
  BY DEF WriteLine, Goto
<1>2. program = "dev_fd" /\ buf = <<>> /\ offset = length
  BY <1>1 DEF IInv, OwnWay, BufferEmpty, AtTheEnd, Shorter
<1>3. out \in Seq(0 .. MaxInput) /\ Line \in 0 .. MaxInput /\ out = Bytes(0, offset)
  <2>1. Line \in 0 .. MaxInput
    BY StreamCopyAssumption DEF Line
  <2> QED
    BY <1>1, <1>2, <2>1, SoFar
<1>4. /\ Append(out, Line) \in Seq(0 .. MaxInput)
      /\ Append(out, Line) = out \o <<Line>>
  BY <1>3, AppendProperties, AppendIsConcat
\* Without its last element, it is what it was.
<1>5. SubSeq(Append(out, Line), 1, Len(Append(out, Line)) - 1) = out
  <2> DEFINE w == Append(out, Line)
  <2>1. /\ w \in Seq(0 .. MaxInput) /\ Len(w) = Len(out) + 1
        /\ \A k \in 1 .. Len(out) : w[k] = out[k]
    BY <1>3, AppendProperties
  <2>2. Len(out) \in Nat
    BY <1>3, LenProperties
  <2> HIDE DEF w
  <2>3. Len(w) - 1 = Len(out) /\ Len(out) \in Int /\ 1 \in Int
    BY <2>1, <2>2
  <2>4. \A k \in 1 .. Len(out) : w[k] \in 0 .. MaxInput
    BY <1>3, <2>1, ElementOfSeq
  <2> DEFINE v == SubSeq(w, 1, Len(out))
  <2>5. /\ v \in Seq(0 .. MaxInput)
        /\ Len(v) = IF 1 <= Len(out) THEN Len(out) - 1 + 1 ELSE 0
        /\ \A k \in 1 .. Len(out) - 1 + 1 : v[k] = w[1 + k - 1]
    BY <2>3, <2>4, SubSeqProperties
  <2> HIDE DEF v
  <2>6. Len(v) = Len(out) /\ \A k \in 1 .. Len(out) : v[k] = w[k]
    BY <2>2, <2>5
  <2>7. v = out
    BY <1>3, <2>1, <2>5, <2>6, SeqEqual
  <2> QED
    BY <2>3, <2>7 DEF v, w
<1>6. TypeOK'
  <2>1. room' \in 0 .. Capacity
    <3>1. room \in 0 .. Capacity
      BY DEF IInv, TypeOK
    <3>2. room' = room \/ (room > 0 /\ room' = room - 1)
      BY DEF WriteLine
    <3> QED
      BY <3>1, <3>2, StreamCopyAssumption
  <2>2. pc' \in Pcs
    BY <1>1 DEF Pcs, Ends
  <2>3. out' \in Seq(0 .. MaxInput)
    BY <1>1, <1>3, <1>4
  <2> QED
    BY <1>1, <2>1, <2>2, <2>3 DEF IInv, TypeOK
<1>7. BufferEmpty' /\ Unread' /\ AtTheEnd' /\ Shorter' /\ OwnWay'
  BY <1>1 DEF IInv, BufferEmpty, Unread, AtTheEnd, Shorter, OwnWay
<1>8. Written' = out
  <2>1. CASE pc' = "exit 0" /\ out' = Append(out, Line)
    BY <1>1, <1>2, <1>5, <2>1 DEF Written
  <2>2. CASE pc' = "exit 1" /\ out' = out
    BY <1>1, <2>2 DEF Written
  <2> QED
    BY <1>1, <2>1, <2>2
<1>9. NothingMisplaced'
  <2>1. out \o buf = Bytes(0, offset)
    BY <1>1, SoFar
  <2> QED
    BY <1>1, <1>8, <2>1 DEF NothingMisplaced
<1>10. SuccessMeansCopied'
  <2>1. pc' = "exit 0" => out' = Input \o <<Line>>
    BY <1>1, <1>2, <1>3, <1>4 DEF Input
  <2> QED
    BY <1>1, <1>2, <2>1 DEF SuccessMeansCopied, Input
<1> QED
  BY <1>6, <1>7, <1>9, <1>10 DEF IInv

---------------------------------------------------------------------------
\* The invariant: the bytes that were read are those written, followed by those
\* in the buffer, which is empty where the next read comes (copy.c:58-63,
\* nonblock_io.c:36-46).
THEOREM Inductive == Spec => []IInv
<1>1. IInv /\ [Next]_vars => IInv'
  <2> SUFFICES ASSUME IInv, [Next]_vars PROVE IInv'
    OBVIOUS
  <2>1. CASE OpenIn \/ OpenOut \/ SetNonblock \/ AioWrite \/ AioSuspend
         \/ AioSuspendFails \/ Kill
    BY <2>1, QuietIInv
  <2>2. CASE Drain \/ WriteAgain \/ Terminated \/ UNCHANGED vars
    BY <2>2, DrainIInv DEF WriteAgain, Terminated
  <2>3. CASE ReadEnd \/ WriteDone \/ AioReturn
    BY <2>3, EndIInv
  <2>4. CASE ReadSome
    BY <2>4, ReadIInv
  <2>5. CASE Write \/ AioThread \/ WriteNonblock
    BY <2>5, WriteIInv
  <2>6. CASE WriteLine
    BY <2>6, LineIInv
  <2> QED
    BY <2>1, <2>2, <2>3, <2>4, <2>5, <2>6 DEF Next, Step
<1> QED
  BY InitIInv, <1>1, PTL DEF Spec

\* No byte is repeated, left out or out of place.
THEOREM Placed == Spec => []NothingMisplaced
<1>1. IInv => NothingMisplaced
  BY DEF IInv
<1> QED
  BY Inductive, <1>1, PTL

\* Exit status 0 means that what the program claims has been copied.
THEOREM Copied == Spec => []SuccessMeansCopied
<1>1. IInv => SuccessMeansCopied
  BY DEF IInv
<1> QED
  BY Inductive, <1>1, PTL
=============================================================================
