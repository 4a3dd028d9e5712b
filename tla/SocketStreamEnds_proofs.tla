----------------------- MODULE SocketStreamEnds_proofs ------------------------
(***************************************************************************)
(* Proofs about the two directions of sync_io::Native_socket_stream::Impl, *)
(* each on its own.                                                        *)
(* SocketStreamSnd, for every alphabet, buffer capacity, set of messages   *)
(* and bound: the types of what the helpers build, type correctness, then  *)
(* one inductive invariant for the control of the queue and of the         *)
(* auto-ping timer.                                                        *)
(* SocketStreamRcv, for every size of the user's storage and number of     *)
(* calls, against a peer that writes any bytes: three invariants, each     *)
(* inductive given the one before: of the request and its wait, of the     *)
(* idle timer, and of what is read where.                                  *)
(***************************************************************************)
EXTENDS SocketStreamSnd, SocketStreamRcv, SequenceTheorems, TLAPS

-----------------------------------------------------------------------------
(* Helpers.                                                                *)

(* The two bytes of a length are bytes.                                    *)
LEMMA MetaLengthBytesType ==
  ASSUME NEW n \in 0 .. S_META_BLOB_LENGTH_PING_SENTINEL
  PROVE  MetaLengthBytes(n) \in Blob
<1>1. n \in Nat /\ Base \in Nat /\ Base >= 2 /\ n < Base * Base
  BY BaseAssumption DEF S_META_BLOB_LENGTH_PING_SENTINEL
<1>2. n % Base \in 0 .. Base - 1
  BY <1>1
<1>3. n \div Base \in 0 .. Base - 1
  <2>1. n \div Base \in Nat /\ Base * (n \div Base) <= n
    BY <1>1
  <2>2. ASSUME n \div Base >= Base PROVE FALSE
    <3> DEFINE q == n \div Base
    <3>1. q \in Nat /\ Base * q < Base * Base /\ q >= Base
      BY <1>1, <2>1, <2>2
    <3> HIDE DEF q
    <3> QED
      BY <1>1, <3>1
  <2> QED
    BY <1>1, <2>1, <2>2
<1> QED
  BY <1>2, <1>3 DEF MetaLengthBytes, Blob, Byte

LEMMA HeadPayloadType ==
  ASSUME NEW h \in HandleOrNull, NEW n \in 0 .. S_META_BLOB_LENGTH_PING_SENTINEL
  PROVE  HeadPayload(h, n) \in Payload
BY MetaLengthBytesType DEF HeadPayload, Payload

(* The lengths that are sent: of a message, and the three special ones.    *)
LEMMA SpecialLengths ==
  /\ S_META_BLOB_LENGTH_PING_SENTINEL \in Nat
  /\ {0, 1, S_META_BLOB_LENGTH_PING_SENTINEL} \subseteq 0 .. S_META_BLOB_LENGTH_PING_SENTINEL
  /\ 0 .. S_MAX_META_BLOB_LENGTH \subseteq 0 .. S_META_BLOB_LENGTH_PING_SENTINEL
<1>1. Base \in Nat /\ Base >= 2
  BY BaseAssumption
<1>2. Base * Base >= 4 /\ Base * Base \in Nat
  BY <1>1
<1> QED
  BY <1>2 DEF S_META_BLOB_LENGTH_PING_SENTINEL, S_MAX_META_BLOB_LENGTH

LEMMA RemainderType ==
  ASSUME NEW p \in Payload, NEW n \in 0 .. Len(p.b)
  PROVE  Remainder(p, n) \in Payload
<1>1. p.b \in Seq(Byte) /\ p.h \in HandleOrNull
  BY DEF Payload, Blob
<1>2. SubSeq(p.b, n + 1, Len(p.b)) \in Seq(Byte)
  BY <1>1
<1> QED
  BY <1>1, <1>2 DEF Remainder, Payload, Blob, HandleOrNull

LEMMA UnitsOfType ==
  ASSUME NEW p \in Payload, NEW n \in 0 .. Len(p.b)
  PROVE  UnitsOf(p, n) \in Seq(Unit) /\ Len(UnitsOf(p, n)) = n
<1>1. p.b \in Seq(Byte) /\ p.h \in HandleOrNull
  BY DEF Payload, Blob
<1>2. \A i \in 1 .. n : p.b[i] \in Byte
  BY <1>1, ElementOfSeq
<1>3. \A i \in 1 .. n :
        [v |-> p.b[i], h |-> IF i = 1 THEN p.h ELSE NoHandle] \in Unit
  BY <1>1, <1>2 DEF Unit, HandleOrNull
<1> QED
  BY <1>3 DEF UnitsOf

LEMMA WriteKeepsWireType ==
  ASSUME WireTypeOK, NEW p \in Payload, NEW n \in 0 .. Len(p.b), NbWrites(p, n)
  PROVE  WireTypeOK'
<1>1. /\ wire \in Seq(Unit) /\ Len(wire) <= KernelCap
      /\ n \in WriteSizes(p)
      /\ wire' = wire \o UnitsOf(p, n)
      /\ sndOpen' \in BOOLEAN /\ rcvOpen' \in BOOLEAN
  BY DEF WireTypeOK, NbWrites
<1>2. wire' \in Seq(Unit) /\ Len(wire') = Len(wire) + n
  <2> DEFINE u == UnitsOf(p, n)
  <2>1. u \in Seq(Unit) /\ Len(u) = n
    BY UnitsOfType
  <2> HIDE DEF u
  <2>2. wire \o u \in Seq(Unit) /\ Len(wire \o u) = Len(wire) + Len(u)
    BY <1>1, <2>1, ConcatProperties
  <2> QED
    BY <1>1, <2>1, <2>2 DEF u
<1>3. KernelCap \in Nat /\ Len(wire) \in Nat /\ Len(p.b) \in Nat
  BY <1>1, KernelCapAssumption DEF Payload, Blob
<1>4. Len(wire) + n <= KernelCap
  BY <1>1, <1>3 DEF WriteSizes, Lesser
<1> QED
  BY <1>1, <1>2, <1>4 DEF WireTypeOK

-----------------------------------------------------------------------------
(* The inductive invariant.                                                *)

(* What is true of the queue at each step of a call: how the wait for      *)
(* writability relates to it, and which steps only a healthy pipe reaches. *)
QueueControl ==
  /\ sndPc \in {"idle", "write", "ret"} =>
       (sndEvWait <=> (sndQ # <<>> /\ sndErr = SndNoError))
  /\ sndPc \in {"flush", "wait"} => ~sndEvWait /\ sndQ # <<>>
  /\ sndPc \in {"write", "flush", "wait"} => sndErr = SndNoError
  /\ sndPc = "ret" /\ sndOp = "flush" /\ sndErr # SndNoError => sndQ # <<>>
  /\ sndPc = "write" => sndOp # "flush"
  /\ sndPc = "idle" => sndOp = "none"
  /\ ~sndStarted => sndPc = "idle" /\ sndErr = SndNoError /\ sndQ = <<>>

(* A ping call or tick runs only while no timer does; between them a timer *)
(* runs unless sending is over.                                            *)
PingControl ==
  /\ PingTimer!Outstanding \in {0, 1}
  /\ pingEvWait <=> PingTimer!Outstanding = 1
  /\ pingEvWait => pingOn
  /\ pingOn => sndStarted
  /\ sndOp \in PingOps => pingOn /\ ~pingEvWait
  /\ pingOn /\ ~sndFinished /\ sndErr = SndNoError /\ sndOp \notin PingOps => pingEvWait

(* Where the report of the end of sending stands: once it was made while   *)
(* the handler is still saved, nothing is under way that could flush.      *)
EndControl ==
  /\ sndFinished => sndStarted
  /\ endCall # "none" => sndFinished
  /\ sndOnDone => sndFinished
  /\ sndOp \in {"end", "asyncEnd"} => endCall = "running"
  /\ sndOp = "end" => ~sndOnDone
  /\ endCall \in {"sync", "called"} /\ sndOnDone => sndPc = "idle" /\ ~sndEvWait

SndControl == QueueControl /\ PingControl /\ EndControl

SndInv == SndTypeOK /\ SndControl

-----------------------------------------------------------------------------
(* Type correctness.                                                       *)

LEMMA TypeInit == WireInit /\ SndInit => SndTypeOK
<1>1. NoPayload \in Payload
  BY DEF NoPayload, Payload, HandleOrNull, Blob
<1>2. KernelCap \in Nat
  BY KernelCapAssumption
<1>3. WireInit /\ SndInit =>
        /\ sndOpen \in BOOLEAN /\ rcvOpen \in BOOLEAN /\ sndSock \in BOOLEAN
        /\ sndStarted \in BOOLEAN /\ sndFinished \in BOOLEAN /\ sndOnDone \in BOOLEAN
        /\ sndEvWait \in BOOLEAN /\ pingOn \in BOOLEAN /\ pingEvWait \in BOOLEAN
  BY Zenon DEF WireInit, SndInit
<1> QED
  BY <1>1, <1>2, <1>3 DEF WireInit, SndInit, SndTypeOK, SndCallTypeOK, WireTypeOK, SndErrors, SndOps, EndCalls,
       PingTimer!Init, PingTimer!TypeOK

(* Calls: each hands well-formed payloads to Write().                      *)
LEMMA TypeUser == SndTypeOK /\ SndUser => SndTypeOK'
<1> SUFFICES ASSUME SndTypeOK, SndUser PROVE SndTypeOK'
  OBVIOUS
<1> USE DEF wireVars, sndCoreVars, pingTimerVars, sndCallVars, SndOps, SndErrors
<1>0. NoHandle \in HandleOrNull
  BY DEF HandleOrNull
<1>1. CASE StartSendOps
  <2>1. VersionPayload \in Payload
    BY <1>0, HeadPayloadType, SpecialLengths DEF VersionPayload
  <2> QED
    BY <1>1, <2>1 DEF StartSendOps, Write, SndTypeOK, SndCallTypeOK, WireTypeOK, PingTimer!TypeOK
<1>2. ASSUME NEW m \in Message, SendNativeHandle(m) PROVE SndTypeOK'
  <2>1. m \in Payload /\ m.h \in HandleOrNull /\ m.b \in Blob
    BY MessageAssumption DEF Payload
  <2>2. Len(m.b) \in 0 .. S_MAX_META_BLOB_LENGTH
    BY <1>2, <2>1, SpecialLengths DEF SendNativeHandle, MaySend, Blob, S_MAX_META_BLOB_LENGTH
  <2>3. HeadPayload(m.h, Len(m.b)) \in Payload
    BY <2>1, <2>2, HeadPayloadType, SpecialLengths
  <2>4. [h |-> NoHandle, b |-> m.b] \in Payload
    BY <1>0, <2>1 DEF Payload
  <2>5. (IF m.b = <<>> THEN <<>> ELSE <<[h |-> NoHandle, b |-> m.b]>>) \in Seq(Payload)
    BY <2>4
  <2>6. Append(sent, m) \in Seq(Message)
    BY DEF SndTypeOK
  <2> QED
    BY <1>2, <2>3, <2>5, <2>6
       DEF SendNativeHandle, Write, SndTypeOK, SndCallTypeOK, WireTypeOK, PingTimer!TypeOK
<1>3. ASSUME NEW op \in {"end", "asyncEnd"}, EndSending(op) PROVE SndTypeOK'
  <2>1. HeadPayload(NoHandle, 0) \in Payload
    BY <1>0, HeadPayloadType, SpecialLengths
  <2>2. sndFinished' \in BOOLEAN /\ sndOnDone' \in BOOLEAN
    BY <1>3, Zenon DEF EndSending, FinishSends, SndTypeOK
  <2>3. SndCallTypeOK'
    <3>1. CASE sndErr # SndNoError
      BY <1>3, <3>1 DEF EndSending, FinishSends, SndTypeOK, SndCallTypeOK
    <3>2. CASE sndErr = SndNoError
      BY <1>3, <2>1, <3>2 DEF EndSending, FinishSends, Write, SndCallTypeOK
    <3> QED
      BY <3>1, <3>2
  <2> QED
    BY <1>3, <2>2, <2>3
       DEF EndSending, FinishSends, SndTypeOK, SndCallTypeOK, WireTypeOK, EndCalls, PingTimer!TypeOK
<1>4. CASE AutoPing
  <2>1. PingPayload \in Payload
    BY <1>0, HeadPayloadType, SpecialLengths DEF PingPayload
  <2>2. SndCallTypeOK'
    <3>1. CASE sndErr # SndNoError
      BY <1>4, <3>1 DEF AutoPing, SndTypeOK, SndCallTypeOK
    <3>2. CASE sndErr = SndNoError
      BY <1>4, <2>1, <3>2 DEF AutoPing, Write, SndCallTypeOK
    <3> QED
      BY <3>1, <3>2
  <2> QED
    BY <1>4, <2>2 DEF AutoPing, SndTypeOK, SndCallTypeOK, WireTypeOK, PingTimer!TypeOK
<1> QED
  BY <1>1, <1>2, <1>3, <1>4 DEF SndUser

(* Event handlers, thread W and the environment.                           *)
LEMMA TypeOthers ==
  SndTypeOK /\ (SndEvents \/ SndTimerThread \/ SndEnvironment) => SndTypeOK'
<1> SUFFICES ASSUME SndTypeOK, SndEvents \/ SndTimerThread \/ SndEnvironment
             PROVE  SndTypeOK'
  OBVIOUS
<1> USE DEF wireVars, sndCoreVars, pingTimerVars, sndCallVars, SndOps, SndErrors
<1>1. CASE OnEvAutoPingTimerFired
  <2>1. PingPayload \in Payload
    BY HeadPayloadType, SpecialLengths DEF PingPayload, HandleOrNull
  <2>2. pingEvWait' \in BOOLEAN
    BY <1>1, Zenon DEF OnEvAutoPingTimerFired, SendsOver
  <2>3. SndCallTypeOK'
    <3>1. CASE sndErr # SndNoError \/ sndFinished
      BY <1>1, <3>1 DEF OnEvAutoPingTimerFired, SendsOver, SndTypeOK, SndCallTypeOK
    <3>2. CASE ~(sndErr # SndNoError \/ sndFinished)
      BY <1>1, <2>1, <3>2 DEF OnEvAutoPingTimerFired, SendsOver, Write, SndCallTypeOK
    <3> QED
      BY <3>1, <3>2
  <2> QED
    BY <1>1, <2>2, <2>3 DEF OnEvAutoPingTimerFired, SendsOver, SndTypeOK, SndCallTypeOK, WireTypeOK,
         PingTimer!TypeOK, PingTimer!Consume
<1>2. CASE OnEvPeerSocketWritable
  BY <1>2 DEF OnEvPeerSocketWritable, SndTypeOK, SndCallTypeOK, WireTypeOK, PingTimer!TypeOK
<1>3. CASE PingTimerExpires
  BY <1>3 DEF PingTimerExpires, sndNoTimerVars, SndTypeOK, SndCallTypeOK, WireTypeOK,
       PingTimer!TypeOK, PingTimer!Expire
<1>4. CASE PingTimerSignals
  BY <1>4 DEF PingTimerSignals, sndNoTimerVars, SndTypeOK, SndCallTypeOK, WireTypeOK,
       PingTimer!TypeOK, PingTimer!Signal
<1>5. CASE KernelDrains
  <2>1. PICK n \in 1 .. Len(wire) : wire' = SubSeq(wire, n + 1, Len(wire))
    BY <1>5 DEF KernelDrains
  <2>2. wire \in Seq(Unit) /\ Len(wire) <= KernelCap /\ KernelCap \in Nat
    BY KernelCapAssumption DEF SndTypeOK, SndCallTypeOK, WireTypeOK
  <2>3. wire' \in Seq(Unit) /\ Len(wire') <= Len(wire)
    BY <2>1, <2>2
  <2>4. Len(wire') <= KernelCap
    BY <2>2, <2>3
  <2> QED
    BY <1>5, <2>3, <2>4 DEF KernelDrains, SndTypeOK, SndCallTypeOK, WireTypeOK, PingTimer!TypeOK, sndVars
<1>6. CASE SndSockHosedByReceiveOps
  <2>1. sndSock' \in BOOLEAN
    BY <1>6, Zenon DEF SndSockHosedByReceiveOps
  <2> QED
    BY <1>6, <2>1 DEF SndSockHosedByReceiveOps, SndTypeOK, SndCallTypeOK, WireTypeOK, PingTimer!TypeOK
<1>7. CASE RcvEndpointCloses /\ UNCHANGED sndVars
  <2>1. rcvOpen' \in BOOLEAN
    BY <1>7, Zenon DEF RcvEndpointCloses
  <2>2. KernelCap \in Nat
    BY KernelCapAssumption
  <2> QED
    BY <1>7, <2>1, <2>2
       DEF RcvEndpointCloses, SndTypeOK, SndCallTypeOK, WireTypeOK, PingTimer!TypeOK, sndVars
<1> QED
  BY <1>1, <1>2, <1>3, <1>4, <1>5, <1>6, <1>7
     DEF SndEvents, SndTimerThread, SndEnvironment

(* Steps of a call: what is written, queued and kept for later stays       *)
(* well-formed.                                                            *)
LEMMA TypeSteps == SndInv /\ SndSteps => SndTypeOK'
<1> SUFFICES ASSUME SndTypeOK, QueueControl, SndSteps PROVE SndTypeOK'
  BY DEF SndInv, SndControl
<1> USE DEF wireVars, sndCoreVars, pingTimerVars, sndCallVars, sndWriteFrame
<1>0. NoPayload \in Payload
  BY DEF NoPayload, Payload, HandleOrNull, Blob
<1>1. CASE SyncWrite
  <2>1. CASE NbWriteFails /\ UNCHANGED sndQ /\ sndPc' = "ret"
    BY <1>1, <2>1 DEF SyncWrite, BehindOthers, NbWriteFails, SndTypeOK, SndCallTypeOK, WireTypeOK, SndErrors,
         PingTimer!TypeOK
  <2>2. ASSUME NEW n \in 0 .. Len(sndCur.b), NbWrites(sndCur, n),
               IF n = Len(sndCur.b) \/ (AvoidQing /\ n = 0)
                 THEN sndPc' = "ret" /\ UNCHANGED sndQ
                 ELSE sndPc' = "wait" /\ sndQ' = <<Remainder(sndCur, n)>>
        PROVE  SndTypeOK'
    <3>1. WireTypeOK'
      BY <2>2, WriteKeepsWireType DEF SndTypeOK, SndCallTypeOK
    <3>2. Remainder(sndCur, n) \in Payload
      BY RemainderType DEF SndTypeOK, SndCallTypeOK
    <3>3. sndQ' \in Seq(Payload) /\ sndPc' \in {"ret", "wait"}
      <4>1. <<Remainder(sndCur, n)>> \in Seq(Payload)
        BY <3>2
      <4> QED
        BY <2>2, <4>1 DEF SndTypeOK, AvoidQing
    <3> QED
      BY <1>1, <2>2, <3>1, <3>3 DEF SyncWrite, BehindOthers, NbWrites, SndTypeOK, SndCallTypeOK, PingTimer!TypeOK
  <2> QED
    BY <1>1, <2>1, <2>2 DEF SyncWrite, BehindOthers
<1>2. CASE QueuePayload
  <2>1. sndQ' \in Seq(Payload)
    BY <1>2 DEF QueuePayload, BehindOthers, SndTypeOK, SndCallTypeOK
  <2> QED
    BY <1>2, <2>1 DEF QueuePayload, BehindOthers, SndTypeOK, SndCallTypeOK, WireTypeOK, PingTimer!TypeOK
<1>3. CASE FlushHead
  <2>1. CASE NbWriteFails /\ UNCHANGED sndQ /\ sndPc' = "ret"
    BY <1>3, <2>1 DEF FlushHead, NbWriteFails, SndTypeOK, SndCallTypeOK, WireTypeOK, SndErrors,
         PingTimer!TypeOK
  <2>2. ASSUME NEW n \in 0 .. Len(Head(sndQ).b), NbWrites(Head(sndQ), n), sndQ # <<>>,
               IF n = Len(Head(sndQ).b)
                 THEN /\ sndQ' = Tail(sndQ)
                      /\ sndPc' = IF Tail(sndQ) = <<>> THEN "ret" ELSE "flush"
                 ELSE /\ sndQ' = <<Remainder(Head(sndQ), n)>> \o Tail(sndQ)
                      /\ sndPc' = "wait"
        PROVE  SndTypeOK'
    <3>1. Head(sndQ) \in Payload /\ Tail(sndQ) \in Seq(Payload)
      BY <2>2 DEF SndTypeOK
    <3>2. WireTypeOK'
      BY <2>2, <3>1, WriteKeepsWireType DEF SndTypeOK
    <3>3. Remainder(Head(sndQ), n) \in Payload
      BY <3>1, RemainderType
    <3>4. <<Remainder(Head(sndQ), n)>> \o Tail(sndQ) \in Seq(Payload)
      BY <3>1, <3>3
    <3>5. sndQ' \in Seq(Payload) /\ sndPc' \in {"ret", "flush", "wait"}
      BY <2>2, <3>1, <3>4
    <3> QED
      BY <1>3, <2>2, <3>2, <3>5 DEF FlushHead, NbWrites, SndTypeOK, SndCallTypeOK, PingTimer!TypeOK
  <2> QED
    BY <1>3, <2>1, <2>2 DEF FlushHead, QueueControl
<1>4. CASE AsyncWriteQHead
  BY <1>4 DEF AsyncWriteQHead, AwaitWritable, SndTypeOK, SndCallTypeOK, WireTypeOK, PingTimer!TypeOK, SndErrors
<1>5. CASE ReturnStart
  BY <1>0, <1>5 DEF ReturnStart, CallEnds, SndOps, SndTypeOK, SndCallTypeOK, WireTypeOK, PingTimer!TypeOK
<1>6. CASE ReturnSend
  <2>1. sndRest # <<>> => Head(sndRest) \in Payload /\ Tail(sndRest) \in Seq(Payload)
    BY DEF SndTypeOK, SndCallTypeOK
  <2>2. SndCallTypeOK'
    <3>1. CASE sndErr = SndNoError /\ sndRest # <<>>
      BY <1>6, <2>1, <3>1 DEF ReturnSend, Write, SndCallTypeOK, SndOps
    <3>2. CASE ~(sndErr = SndNoError /\ sndRest # <<>>)
      <4>1. CallEnds
        BY <1>6, <3>2, Zenon DEF ReturnSend
      <4> QED
        BY <1>0, <4>1 DEF CallEnds, SndCallTypeOK, SndOps
    <3> QED
      BY <3>1, <3>2
  <2>3. SubSeq(sent, 1, Len(sent) - 1) \in Seq(Message)
    BY DEF SndTypeOK
  <2>4. sent' \in Seq(Message)
    BY <1>6, <2>3 DEF ReturnSend, SndTypeOK
  <2>5. PingTimer!TypeOK'
    BY <1>6 DEF ReturnSend, PingTimer!Postpone, PingTimer!TypeOK, SndTypeOK
  <2> QED
    BY <1>6, <2>2, <2>4, <2>5 DEF ReturnSend, SndTypeOK, SndCallTypeOK, WireTypeOK
<1>7. CASE ReturnEnd
  BY <1>0, <1>7 DEF ReturnEnd, CallEnds, EndCalls, SndOps, SndTypeOK, SndCallTypeOK, WireTypeOK,
       PingTimer!TypeOK
<1>8. CASE ReturnAsyncEndWouldBlock
  <2>1. sndOnDone' \in BOOLEAN /\ sndOpen' \in BOOLEAN
    BY <1>8, Zenon DEF ReturnAsyncEndWouldBlock, SndTypeOK, SndCallTypeOK, WireTypeOK
  <2>2. CASE CallEnds /\ endCall' = "wouldBlock"
    BY <1>0, <1>8, <2>1, <2>2 DEF ReturnAsyncEndWouldBlock, CallEnds, EndCalls, SndOps,
         SndTypeOK, SndCallTypeOK, WireTypeOK, PingTimer!TypeOK
  <2>3. CASE sndPc' = "aborted" /\ UNCHANGED <<sndOp, sndCur, sndRest, endCall>>
    BY <1>8, <2>1, <2>3 DEF ReturnAsyncEndWouldBlock, SndTypeOK, SndCallTypeOK, WireTypeOK,
         PingTimer!TypeOK
  <2> QED
    BY <1>8, <2>2, <2>3 DEF ReturnAsyncEndWouldBlock
<1>9. CASE ReturnPing
  <2>1. pingEvWait' \in BOOLEAN
    BY <1>9, Zenon DEF ReturnPing, SndTypeOK
  <2>2. PingTimer!TypeOK'
    BY <1>9 DEF ReturnPing, SndTypeOK, PingTimer!TypeOK, PingTimer!Schedule
  <2> QED
    BY <1>0, <1>9, <2>1, <2>2 DEF ReturnPing, CallEnds, SndOps, SndTypeOK, SndCallTypeOK,
         WireTypeOK
<1>10. CASE ReturnFlush
  <2>1. sndOnDone' \in BOOLEAN
    BY <1>10, Zenon DEF ReturnFlush
  <2> QED
    BY <1>0, <1>10, <2>1 DEF ReturnFlush, CallEnds, EndCalls, SndOps, SndTypeOK, SndCallTypeOK, WireTypeOK,
         PingTimer!TypeOK
<1> QED
  BY <1>1, <1>2, <1>3, <1>4, <1>5, <1>6, <1>7, <1>8, <1>9, <1>10 DEF SndSteps

LEMMA TypeNext == SndInv /\ [SndNext]_sndAllVars => SndTypeOK'
<1>1. SndInv /\ SndNext => SndTypeOK'
  BY TypeUser, TypeSteps, TypeOthers DEF SndInv, SndNext
<1>2. SndTypeOK /\ UNCHANGED sndAllVars => SndTypeOK'
  BY DEF sndAllVars, sndVars, wireVars, sndCoreVars, pingTimerVars, sndCallVars,
         SndTypeOK, SndCallTypeOK, WireTypeOK, PingTimer!TypeOK
<1> QED
  BY <1>1, <1>2 DEF SndInv

-----------------------------------------------------------------------------
(* Preservation of the control invariants, one action at a time.           *)

LEMMA ControlInit == SndInit => SndControl
BY DEF SndInit, SndControl, QueueControl, PingControl, EndControl, PingOps, SndNoError,
       PingTimer!Init, PingTimer!Outstanding

LEMMA ControlUser == SndInv /\ SndUser => SndControl'
<1> SUFFICES ASSUME SndTypeOK, SndControl, SndUser PROVE SndControl'
  BY DEF SndInv
<1> USE DEF wireVars, sndCoreVars, pingTimerVars, sndCallVars, SndIdle, Write, SndControl,
            QueueControl, PingControl, EndControl, PingOps, PingTimer!Outstanding
<1>1. CASE StartSendOps
  BY <1>1 DEF StartSendOps
<1>2. ASSUME NEW m \in Message, SendNativeHandle(m) PROVE SndControl'
  BY <1>2 DEF SendNativeHandle, MaySend
<1>3. CASE EndSending("end")
  BY <1>3 DEF EndSending, FinishSends
<1>4. CASE EndSending("asyncEnd")
  BY <1>4 DEF EndSending, FinishSends
<1>5. CASE AutoPing
  BY <1>5 DEF AutoPing
<1> QED
  BY <1>1, <1>2, <1>3, <1>4, <1>5 DEF SndUser

LEMMA ControlOthers ==
  SndInv /\ (SndEvents \/ SndTimerThread \/ SndEnvironment) => SndControl'
<1> SUFFICES ASSUME SndTypeOK, SndControl, SndEvents \/ SndTimerThread \/ SndEnvironment
             PROVE  SndControl'
  BY DEF SndInv
<1> USE DEF wireVars, sndCoreVars, pingTimerVars, sndCallVars, sndVars, SndIdle, SndControl,
            QueueControl, PingControl, EndControl, PingOps, PingTimer!Outstanding
<1>0. pingWaits \in Nat /\ pingFired \in Nat /\ pingBytes \in Nat
  BY DEF SndTypeOK, PingTimer!TypeOK
<1>1. CASE OnEvAutoPingTimerFired
  BY <1>0, <1>1 DEF OnEvAutoPingTimerFired, SendsOver, Write, PingTimer!Consume
<1>2. CASE OnEvPeerSocketWritable
  BY <1>2 DEF OnEvPeerSocketWritable
<1>3. CASE PingTimerExpires
  BY <1>0, <1>3 DEF PingTimerExpires, sndNoTimerVars, PingTimer!Expire
<1>4. CASE PingTimerSignals
  BY <1>0, <1>4 DEF PingTimerSignals, sndNoTimerVars, PingTimer!Signal
<1>5. CASE KernelDrains
  BY <1>5 DEF KernelDrains
<1>6. CASE SndSockHosedByReceiveOps
  BY <1>6 DEF SndSockHosedByReceiveOps
<1>7. CASE RcvEndpointCloses /\ UNCHANGED sndVars
  BY <1>7 DEF RcvEndpointCloses
<1> QED
  BY <1>1, <1>2, <1>3, <1>4, <1>5, <1>6, <1>7
     DEF SndEvents, SndTimerThread, SndEnvironment

LEMMA ControlSteps == SndInv /\ SndSteps => SndControl'
<1> SUFFICES ASSUME SndTypeOK, SndControl, SndSteps PROVE SndControl'
  BY DEF SndInv
<1> USE DEF wireVars, sndCoreVars, pingTimerVars, sndCallVars, sndWriteFrame, SndControl,
            QueueControl, PingControl, EndControl, PingOps, PingTimer!Outstanding,
            SndErrors, SndNoError, CallEnds, SndReturns
<1>0. pingWaits \in Nat /\ pingFired \in Nat /\ pingBytes \in Nat
  BY DEF SndTypeOK, PingTimer!TypeOK
<1>1. CASE SyncWrite
  <2>1. \A p : <<p>> # <<>>
    OBVIOUS
  <2>2. CASE NbWriteFails /\ UNCHANGED sndQ /\ sndPc' = "ret"
    BY <1>1, <2>2 DEF SyncWrite, BehindOthers, NbWriteFails
  <2>3. CASE sndErr' = sndErr /\ sndPc' = "ret" /\ UNCHANGED sndQ
    BY <1>1, <2>3 DEF SyncWrite, BehindOthers
  <2>4. CASE sndErr' = sndErr /\ sndPc' = "wait" /\ sndQ' # <<>>
    BY <1>1, <2>4 DEF SyncWrite, BehindOthers
  <2> QED
    BY <1>1, <2>1, <2>2, <2>3, <2>4 DEF SyncWrite, BehindOthers, NbWrites
<1>2. CASE QueuePayload
  <2>1. sndQ' # <<>>
    BY <1>2 DEF QueuePayload, BehindOthers, SndTypeOK
  <2> QED
    BY <1>2, <2>1 DEF QueuePayload, BehindOthers
<1>3. CASE FlushHead
  <2>1. CASE NbWriteFails /\ UNCHANGED sndQ /\ sndPc' = "ret"
    BY <1>3, <2>1 DEF FlushHead, NbWriteFails
  <2>2. CASE /\ sndErr' = sndErr
             /\ \/ sndPc' = "ret" /\ sndQ' = <<>>
                \/ sndPc' \in {"flush", "wait"} /\ sndQ' # <<>>
    BY <1>3, <2>2 DEF FlushHead
  <2>3. ASSUME NEW n \in 0 .. Len(Head(sndQ).b)
        PROVE  <<Remainder(Head(sndQ), n)>> \o Tail(sndQ) # <<>>
    <3>1. Head(sndQ) \in Payload /\ Tail(sndQ) \in Seq(Payload)
      BY <1>3 DEF FlushHead, SndTypeOK
    <3>2. Remainder(Head(sndQ), n) \in Payload
      BY <3>1, RemainderType
    <3> QED
      BY <3>1, <3>2
  <2> QED
    BY <1>3, <2>1, <2>2, <2>3 DEF FlushHead, NbWrites
<1>4. CASE AsyncWriteQHead
  BY <1>4 DEF AsyncWriteQHead, AwaitWritable
<1>5. CASE ReturnStart
  BY <1>5 DEF ReturnStart
<1>6. CASE ReturnSend
  BY <1>0, <1>6 DEF ReturnSend, Write, PingTimer!Postpone, PingTimer!NCanceled
<1>7. CASE ReturnEnd
  BY <1>7 DEF ReturnEnd, Qd
<1>8. CASE ReturnAsyncEndWouldBlock
  BY <1>8 DEF ReturnAsyncEndWouldBlock, Qd
<1>9. CASE ReturnPing
  BY <1>0, <1>9 DEF ReturnPing, PingTimer!Schedule
<1>10. CASE ReturnFlush
  BY <1>10 DEF ReturnFlush
<1> QED
  BY <1>1, <1>2, <1>3, <1>4, <1>5, <1>6, <1>7, <1>8, <1>9, <1>10 DEF SndSteps

LEMMA ControlNext == SndInv /\ [SndNext]_sndAllVars => SndControl'
<1>1. SndInv /\ SndNext => SndControl'
  BY ControlUser, ControlSteps, ControlOthers DEF SndNext
<1>2. SndControl /\ UNCHANGED sndAllVars => SndControl'
  BY DEF sndAllVars, sndVars, wireVars, sndCoreVars, pingTimerVars, sndCallVars,
         SndControl, QueueControl, PingControl, EndControl, PingTimer!Outstanding
<1> QED
  BY <1>1, <1>2 DEF SndInv

LEMMA SendInvariant == SndSpec => []SndInv
<1>1. WireInit /\ SndInit => SndInv
  BY TypeInit, ControlInit DEF SndInv
<1>2. SndInv /\ [SndNext]_sndAllVars => SndInv'
  BY TypeNext, ControlNext DEF SndInv
<1> QED
  BY <1>1, <1>2, PTL DEF SndSpec, SndSystemInit

-----------------------------------------------------------------------------
(* The results.                                                            *)

(* Everything queued, written or kept for later is a well-formed payload,  *)
(* whatever the kernel takes of each.                                      *)
THEOREM SndTypeCorrect == SndSpec => []SndTypeOK
BY SendInvariant, PTL DEF SndInv

(* Between two calls the event loop waits for writability exactly while    *)
(* payloads are queued on a healthy pipe.                                  *)
THEOREM NoForgottenPayload == SndSpec => []QueuedIffWaiting
<1>1. SndInv => QueuedIffWaiting
  BY DEF SndInv, SndControl, QueueControl, QueuedIffWaiting
<1> QED
  BY <1>1, SendInvariant, PTL

(* The assertions of the send path hold, but for the one that              *)
(* ReturnAsyncEndWouldBlock fails.                                         *)
THEOREM SndAssertionsHold == SndSpec => []SndAssertions
<1>1. SndInv => SndAssertions
  BY DEF SndInv, SndControl, QueueControl, SndAssertions
<1> QED
  BY <1>1, SendInvariant, PTL

(* At most one expiration of the auto-ping timer is outstanding, so the    *)
(* count of canceled waits is 0 or 1 and the signal pipe holds one byte;   *)
(* and auto-ping never dies while sending goes on.                         *)
THEOREM OnePing == SndSpec => []PingTimerArmed
<1>1. SndInv => PingTimerArmed
  BY DEF SndInv, SndControl, QueueControl, PingControl, PingOps, PingTimerArmed
<1> QED
  BY <1>1, SendInvariant, PTL

(* The first error is the last, and a socket once taken away stays so.     *)
THEOREM ErrorIsFinal == SndSpec => SndErrorIsFinal
<1>1. SndInv /\ [SndNext]_sndAllVars =>
        [/\ (sndErr # SndNoError => sndErr' = sndErr)
         /\ (~sndSock => ~sndSock')]_sndAllVars
  <2> SUFFICES ASSUME QueueControl, SndNext
               PROVE  /\ sndErr # SndNoError => sndErr' = sndErr
                      /\ ~sndSock => ~sndSock'
    BY DEF SndInv, SndControl
  <2> USE DEF wireVars, sndCoreVars, sndVars, QueueControl
  <2>1. CASE SndUser
    <3>1. sndErr' = sndErr /\ sndSock' = sndSock
      BY <2>1 DEF SndUser, StartSendOps, SendNativeHandle, MaySend, EndSending, FinishSends,
         AutoPing
    <3> QED
      BY <3>1, Zenon
  <2>2. CASE SndSteps
    <3>1. CASE NbWriteFails /\ (SyncWrite \/ FlushHead)
      BY <3>1 DEF NbWriteFails, SyncWrite, FlushHead
    <3>2. CASE ~(NbWriteFails /\ (SyncWrite \/ FlushHead))
      <4>1. sndSock' = sndSock /\ (sndErr # SndNoError => sndErr' = sndErr)
        BY <2>2, <3>2 DEF SndSteps, SyncWrite, BehindOthers, QueuePayload, FlushHead, NbWrites,
             AsyncWriteQHead, AwaitWritable, ReturnStart, ReturnSend, ReturnEnd, ReturnAsyncEndWouldBlock,
             ReturnPing, ReturnFlush
      <4> QED
        BY <4>1, Zenon
    <3> QED
      BY <3>1, <3>2
  <2>3. CASE SndEvents \/ SndTimerThread \/ SndEnvironment
    BY <2>3 DEF SndEvents, SndTimerThread, SndEnvironment, OnEvAutoPingTimerFired, SendsOver,
         OnEvPeerSocketWritable, PingTimerExpires, PingTimerSignals, sndNoTimerVars,
         KernelDrains, SndSockHosedByReceiveOps, RcvEndpointCloses
  <2> QED
    BY <2>1, <2>2, <2>3 DEF SndNext
<1> QED
  BY <1>1, SendInvariant, PTL DEF SndSpec, SndSystemInit, SndErrorIsFinal

(* Nothing is handed over for writing after the graceful-close payload: a  *)
(* call or a late timer signal between calls never starts a write.         *)
THEOREM CloseIsLast == SndSpec => NothingAfterClose
<1>1. SndInv /\ [SndNext]_sndAllVars =>
        [sndFinished /\ sndPc = "idle" => sndPc' \in {"idle", "flush"}]_sndAllVars
  <2> SUFFICES ASSUME EndControl, SndNext, sndFinished, sndPc = "idle"
               PROVE  sndPc' \in {"idle", "flush"}
    BY DEF SndInv, SndControl
  <2> USE DEF sndCallVars, sndVars, EndControl
  <2>1. CASE SndUser
    BY <2>1 DEF SndUser, StartSendOps, SendNativeHandle, MaySend, EndSending, FinishSends,
         AutoPing
  <2>2. CASE SndSteps
    BY <2>2 DEF SndSteps, SyncWrite, BehindOthers, QueuePayload, FlushHead, AsyncWriteQHead, AwaitWritable, SndReturns,
         ReturnStart, ReturnSend, ReturnEnd, ReturnAsyncEndWouldBlock, ReturnPing, ReturnFlush
  <2>3. CASE SndEvents \/ SndTimerThread \/ SndEnvironment
    BY <2>3 DEF SndEvents, SndTimerThread, SndEnvironment, OnEvAutoPingTimerFired, SendsOver,
         OnEvPeerSocketWritable, PingTimerExpires, PingTimerSignals, sndNoTimerVars,
         KernelDrains, SndSockHosedByReceiveOps, RcvEndpointCloses
  <2> QED
    BY <2>1, <2>2, <2>3 DEF SndNext
<1> QED
  BY <1>1, SendInvariant, PTL DEF SndSpec, SndSystemInit, NothingAfterClose

(* The end of sending is reported at most once, by return or by handler.   *)
THEOREM EndReportedAtMostOnce == SndSpec => EndReportedOnce
<1>1. SndInv /\ [SndNext]_sndAllVars => [EndReported => endCall' = endCall]_sndAllVars
  <2> SUFFICES ASSUME EndControl, SndNext, EndReported
               PROVE  endCall' = endCall
    BY DEF SndInv, SndControl
  <2> USE DEF sndVars, EndControl, EndReported
  <2>1. CASE SndUser
    BY <2>1 DEF SndUser, StartSendOps, SendNativeHandle, MaySend, EndSending, FinishSends,
         AutoPing
  <2>2. CASE SndSteps
    BY <2>2 DEF SndSteps, SyncWrite, BehindOthers, QueuePayload, FlushHead, AsyncWriteQHead, AwaitWritable, SndReturns,
         sndWriteFrame, ReturnStart, ReturnSend, ReturnEnd, ReturnAsyncEndWouldBlock,
         ReturnPing, ReturnFlush
  <2>3. CASE SndEvents \/ SndTimerThread \/ SndEnvironment
    BY <2>3 DEF SndEvents, SndTimerThread, SndEnvironment, OnEvAutoPingTimerFired, SendsOver,
         OnEvPeerSocketWritable, PingTimerExpires, PingTimerSignals, sndNoTimerVars,
         KernelDrains, SndSockHosedByReceiveOps, RcvEndpointCloses
  <2> QED
    BY <2>1, <2>2, <2>3 DEF SndNext
<1> QED
  BY <1>1, SendInvariant, PTL DEF SndSpec, SndSystemInit, EndReportedOnce

-----------------------------------------------------------------------------
(* The receive direction.                                                  *)

Pcs == {"idle", "readMsg", "head", "readBlob", "wait", "done"}

RequestTypes ==
  /\ rcvPending \in BOOLEAN
  /\ rcvEvWait \in MsgState \cup {NotWaiting} /\ rcvMsgState \in MsgState
  /\ rcvPc \in Pcs
  /\ rcvCalls \in Nat /\ rcvResults \in Nat

RequestInv == RequestTypes /\ PendingIffWaiting /\ OneResultPerReceive

(* The one wait, expiry or signal of the idle timer there may be.          *)
IdleInv ==
  /\ IdleTimer!TypeOK /\ idleEvWait \in BOOLEAN /\ idleOn \in BOOLEAN
  /\ IdleTimerArmed
  /\ ~idleOn => IdleTimer!Outstanding = 0

StorageTypes ==
  /\ wire \in Seq(Unit)
  /\ rcvMeta \in Blob /\ rcvBlob \in Blob
  /\ rcvSize \in Nat /\ rcvLeft \in Nat

(* Where the message is when nothing is being read, or what remains is.    *)
AtRest == rcvPc \in {"readBlob", "wait", "idle"}

(* What was read is as much as the position in the message says; before    *)
(* the meta-blob there is none, and none is left over from before.         *)
StorageControl ==
  /\ Len(rcvMeta) <= SizeofMetaLength /\ Len(rcvBlob) <= rcvSize
  /\ AtRest /\ rcvMsgState = "META_BLOB_PAYLOAD" =>
       Len(rcvBlob) + rcvLeft = MetaLength(rcvMeta) /\ MetaLength(rcvMeta) <= rcvSize
  /\ AtRest /\ rcvMsgState = "HEAD_PAYLOAD" => Len(rcvMeta) + rcvLeft = SizeofMetaLength
  /\ AtRest /\ rcvMsgState # "META_BLOB_PAYLOAD" => rcvBlob = <<>>
  /\ rcvPc \in {"readMsg", "head"} => rcvBlob = <<>>
  /\ rcvPc = "head" => Len(rcvMeta) = SizeofMetaLength
  /\ rcvPc = "readBlob" => rcvMsgState # "MSG_START"
  /\ rcvPc = "idle" /\ ~rcvPending => rcvBlob = <<>>
  /\ rcvPc = "idle" /\ rcvEvWait # NotWaiting /\ ~RcvOver => rcvEvWait = rcvMsgState

StorageInv == StorageTypes /\ StorageControl

RcvInv == RequestInv /\ IdleInv /\ StorageInv

-----------------------------------------------------------------------------
(* Helpers.                                                                *)

(* A read of n bytes takes n bytes off the wire.                           *)
LEMMA ReadTypes ==
  ASSUME wire \in Seq(Unit), NEW want \in Nat, NEW n \in ReadSizes(want)
  PROVE  /\ n \in Nat /\ 1 <= n /\ n <= want /\ n <= Len(wire)
         /\ WireBytes(n) \in Blob /\ Len(WireBytes(n)) = n
         /\ SubSeq(wire, n + 1, Len(wire)) \in Seq(Unit)
<1>1. n \in Nat /\ 1 <= n /\ n <= want /\ n <= Len(wire)
  BY DEF ReadSizes, Lesser
<1>2. SubSeq(wire, 1, n) \in Seq(Unit) /\ Len(SubSeq(wire, 1, n)) = n
  BY <1>1
<1>3. SubSeq(wire, n + 1, Len(wire)) \in Seq(Unit)
  BY <1>1
<1>4. \A i \in 1 .. n : SubSeq(wire, 1, n)[i] \in Unit
  BY <1>1, <1>2, ElementOfSeq
<1>5. \A i \in 1 .. n : SubSeq(wire, 1, n)[i].v \in Byte
  BY <1>4 DEF Unit
<1>6. WireBytes(n) = [i \in 1 .. n |-> SubSeq(wire, 1, n)[i].v]
  BY <1>2 DEF WireBytes, BytesOf
<1> QED
  BY <1>1, <1>3, <1>5, <1>6 DEF Blob

(* Bytes after bytes.                                                      *)
LEMMA MoreBytes ==
  ASSUME NEW a \in Blob, NEW b \in Blob
  PROVE  a \o b \in Blob /\ Len(a \o b) = Len(a) + Len(b)
BY DEF Blob

(* Two bytes make a length.                                                *)
LEMMA MetaLengthType ==
  ASSUME NEW bytes \in Blob, Len(bytes) = SizeofMetaLength PROVE MetaLength(bytes) \in Nat
<1>1. bytes \in Seq(Byte) /\ Len(bytes) = 2
  BY DEF Blob, SizeofMetaLength
<1>2. bytes[1] \in Byte /\ bytes[2] \in Byte
  <2> HIDE DEF SizeofMetaLength
  <2>1. 1 \in 1 .. Len(bytes) /\ 2 \in 1 .. Len(bytes)
    BY <1>1
  <2> QED
    BY <1>1, <2>1, ElementOfSeq
<1>3. Base \in Nat /\ bytes[1] \in Nat /\ bytes[2] \in Nat
  BY <1>2, BaseAssumption DEF Byte
<1>4. Base * bytes[2] \in Nat
  BY <1>3
<1> QED
  BY <1>3, <1>4 DEF MetaLength

(* Nothing is asked for, waited for or read at first.                      *)
LEMMA InitRcv == RcvSystemInit => RcvInv
<1> SUFFICES ASSUME RcvSystemInit PROVE RcvInv
  OBVIOUS
<1> USE DEF RcvSystemInit, WireInit, RcvInit
<1>1. RequestInv
  <2>1. RequestTypes
    BY DEF RequestTypes, MsgState, NotWaiting, Pcs
  <2>2. PendingIffWaiting
    BY DEF PendingIffWaiting
  <2>3. OneResultPerReceive
    BY DEF OneResultPerReceive
  <2> QED
    BY <2>1, <2>2, <2>3 DEF RequestInv
<1>2. IdleInv
  <2>1. IdleTimer!TypeOK /\ IdleTimer!Outstanding = 0
    BY DEF IdleTimer!Init, IdleTimer!TypeOK, IdleTimer!Outstanding
  <2>2. ~idleOn /\ ~idleEvWait /\ idleOn \in BOOLEAN /\ idleEvWait \in BOOLEAN
    OBVIOUS
  <2>3. IdleTimer!Outstanding <= 1 /\ IdleTimer!Outstanding # 1
    BY <2>1
  <2> QED
    BY <2>1, <2>2, <2>3, Zenon DEF IdleInv, IdleTimerArmed
<1>3. StorageTypes
  BY DEF StorageTypes, Blob
<1>4. StorageControl
  BY DEF StorageControl, AtRest, SizeofMetaLength
<1> QED
  BY <1>1, <1>2, <1>3, <1>4 DEF RcvInv, StorageInv

-----------------------------------------------------------------------------
(* The request and the wait.                                               *)

(* A payload 1 that was read decides what comes next.                      *)
LEMMA HandleFinalizedGoesOn ==
  ASSUME NEW hndl, NEW n, OnHandleFinalized(hndl, n), rcvMsgState \in MsgState
  PROVE  /\ rcvPc' = "done" \/ (rcvPc' \in {"head", "wait"} /\ UNCHANGED rcvErr)
         /\ rcvMsgState' \in MsgState
BY DEF OnHandleFinalized, RcvFails, rcvReadVars, MsgState

(* A step of a call goes on with no error, or is done.                     *)
LEMMA ReadMsgGoesOn ==
  ASSUME ReadMsg, rcvMsgState \in MsgState
  PROVE  /\ rcvPc = "readMsg"
         /\ rcvPc' = "done" \/ (rcvPc' \in {"head", "wait"} /\ UNCHANGED rcvErr)
         /\ rcvMsgState' \in MsgState
         /\ UNCHANGED <<rcvReqVars, rcvEvWait, rcvHistVars>>
<1>1. rcvPc = "readMsg" /\ UNCHANGED <<rcvReqVars, rcvEvWait, rcvHistVars>>
  BY DEF ReadMsg
<1>2. CASE NbReadFails
  BY <1>1, <1>2 DEF NbReadFails, rcvReadVars
<1>3. ASSUME NEW n, OnHandleFinalized(HandleAmong(n), n)
      PROVE  /\ rcvPc' = "done" \/ (rcvPc' \in {"head", "wait"} /\ UNCHANGED rcvErr)
             /\ rcvMsgState' \in MsgState
  BY <1>3, HandleFinalizedGoesOn
<1>4. CASE rcvMsgState' = "MSG_START" /\ rcvPc' = "wait" /\ UNCHANGED rcvErr
  BY <1>1, <1>4 DEF MsgState
<1> QED
  BY <1>1, <1>2, <1>3, <1>4 DEF ReadMsg

(* The same once payload 1 is whole.                                       *)
LEMMA HeadGoesOn ==
  ASSUME OnHeadPayload, rcvMsgState \in MsgState
  PROVE  /\ rcvPc = "head"
         /\ rcvPc' = "done" \/ (rcvPc' \in {"readMsg", "readBlob"} /\ UNCHANGED rcvErr)
         /\ rcvMsgState' \in MsgState
         /\ UNCHANGED <<rcvReqVars, rcvEvWait, rcvHistVars>>
<1>1. rcvPc = "head" /\ UNCHANGED <<rcvReqVars, rcvEvWait, rcvHistVars>>
  BY DEF OnHeadPayload
<1>2. CASE Negotiating
  BY <1>1, <1>2 DEF OnHeadPayload, RcvFails, rcvReadVars
<1>3. CASE ~Negotiating
  <2>1. OnMetaLength(MetaLength(rcvMeta))
    BY <1>3 DEF OnHeadPayload
  <2> QED
    BY <1>1, <2>1 DEF OnMetaLength, RcvFails, rcvReadVars, MsgState
<1> QED
  BY <1>2, <1>3

(* The same of the rest.                                                   *)
LEMMA ReadBlobGoesOn ==
  ASSUME ReadBlob, rcvMsgState \in MsgState
  PROVE  /\ rcvPc = "readBlob"
         /\ rcvPc' = "done" \/ (rcvPc' \in {"head", "wait"} /\ UNCHANGED rcvErr)
         /\ rcvMsgState' \in MsgState
         /\ UNCHANGED <<rcvReqVars, rcvEvWait, rcvHistVars>>
<1>1. rcvPc = "readBlob" /\ UNCHANGED <<rcvReqVars, rcvEvWait, rcvHistVars>>
  BY DEF ReadBlob
<1>2. CASE NbReadFails
  BY <1>1, <1>2 DEF NbReadFails, rcvReadVars
<1>3. CASE ~NbReadFails
  BY <1>1, <1>3 DEF ReadBlob, rcvReadVars
<1> QED
  BY <1>2, <1>3

(* Only the calls, the two handlers and the end of a call touch a request. *)
LEMMA NextRequest == RequestInv /\ [RcvNext]_rcvAllVars => RequestInv'
<1> SUFFICES ASSUME RequestInv, [RcvNext]_rcvAllVars PROVE RequestInv'
  OBVIOUS
<1> USE DEF RequestInv, RequestTypes, PendingIffWaiting, OneResultPerReceive, Pcs, MsgState,
      NotWaiting, rcvReqVars, rcvHistVars, rcvReadVars
<1>1. CASE StartReceiveOps
  BY <1>1 DEF StartReceiveOps
<1>2. ASSUME NEW takesHandle \in BOOLEAN, NEW size \in StorageSize, AsyncReceive(takesHandle, size)
      PROVE  RequestInv'
  <2>1. ~rcvPending /\ rcvPc = "idle" /\ rcvCalls' = rcvCalls + 1
        /\ UNCHANGED <<rcvEvWait, rcvMsgState, rcvErr>>
    BY <1>2 DEF AsyncReceive, RcvIdle
  <2>2. CASE RcvOver
    <3>1. rcvResults' = rcvResults + 1 /\ UNCHANGED <<rcvPending, rcvPc>>
      BY <1>2, <2>2 DEF AsyncReceive
    <3> QED
      BY <2>1, <3>1
  <2>3. CASE ~RcvOver
    <3>1. rcvPending' = TRUE /\ rcvPc' = "readMsg" /\ UNCHANGED rcvResults
      BY <1>2, <2>3 DEF AsyncReceive
    <3>2. rcvErr = RcvNoError /\ rcvEvWait = NotWaiting
      BY <2>1, <2>3 DEF RcvOver, RcvNoError
    <3> QED
      BY <2>1, <3>1, <3>2
  <2> QED
    BY <2>2, <2>3
<1>3. CASE IdleTimerRun
  BY <1>3 DEF IdleTimerRun
<1>4. CASE OnEvIdleTimerFired
  <2>1. rcvPc = "idle" /\ UNCHANGED <<rcvPc, rcvEvWait, rcvCalls>>
    BY <1>4 DEF OnEvIdleTimerFired, RcvIdle
  <2>2. CASE RcvOver
    <3>1. UNCHANGED <<rcvErr, rcvPending, rcvMsgState, rcvResults>>
      BY <1>4, <2>2 DEF OnEvIdleTimerFired
    <3> QED
      BY <2>1, <3>1
  <2>3. CASE ~RcvOver
    <3>1. rcvErr' = "RECEIVER_IDLE_TIMEOUT" /\ rcvPending' = FALSE /\ rcvMsgState' = "MSG_START"
          /\ rcvResults' = IF rcvPending THEN rcvResults + 1 ELSE rcvResults
      BY <1>4, <2>3 DEF OnEvIdleTimerFired, CompletePending, ResetRequest
    <3>2. rcvCalls' - rcvResults' = 0
      BY <2>1, <3>1
    <3>3. rcvResults' \in Nat /\ rcvCalls' \in Nat /\ rcvPc' \in Pcs
      BY <2>1, <3>1
    <3>4. rcvPending' \in BOOLEAN /\ rcvMsgState' \in MsgState
      BY <3>1
    <3>5. rcvEvWait' \in MsgState \cup {NotWaiting}
      BY <2>1
    <3> QED
      BY <2>1, <3>1, <3>2, <3>3, <3>4, <3>5
  <2> QED
    BY <2>2, <2>3
<1>5. CASE OnEvPeerSocketReadable
  BY <1>5 DEF OnEvPeerSocketReadable, RcvIdle, RcvOver, RcvNoError
<1>6. CASE ReadMsg
  BY <1>6, ReadMsgGoesOn
<1>7. CASE OnHeadPayload
  BY <1>7, HeadGoesOn
<1>8. CASE ReadBlob
  BY <1>8, ReadBlobGoesOn
<1>9. CASE AwaitReadable
  BY <1>9 DEF AwaitReadable, RegisterWait, RcvFails
<1>10. CASE ReportResult
  <2>1. rcvPc = "done" /\ rcvPc' = "idle" /\ rcvPending' = FALSE /\ rcvMsgState' = "MSG_START"
        /\ rcvResults' = rcvResults + 1 /\ UNCHANGED <<rcvErr, rcvEvWait, rcvCalls>>
    BY <1>10 DEF ReportResult, ResetRequest
  <2>2. rcvCalls' - rcvResults' = 0
    BY <2>1
  <2>3. rcvResults' \in Nat /\ rcvCalls' \in Nat /\ rcvPc' \in Pcs
    BY <2>1
  <2>4. rcvPending' \in BOOLEAN /\ rcvMsgState' \in MsgState
    BY <2>1
  <2>5. rcvEvWait' \in MsgState \cup {NotWaiting}
    BY <2>1
  <2> QED
    BY <2>1, <2>2, <2>3, <2>4, <2>5
<1>11. CASE UNCHANGED rcvVars
  BY <1>11 DEF rcvVars
<1>12. CASE RcvTimerThread
  BY <1>12 DEF RcvTimerThread, IdleTimerExpires, IdleTimerSignals, rcvNoTimerVars
<1>13. CASE RcvEnvironment
  BY <1>11, <1>13 DEF RcvEnvironment, WireGetsByte, RcvSockHosedBySendOps
<1> QED
  BY <1>1, <1>2, <1>3, <1>4, <1>5, <1>6, <1>7, <1>8, <1>9, <1>10, <1>11, <1>12, <1>13
     DEF RcvNext, RcvUser, RcvSteps, RcvEvents, rcvAllVars

-----------------------------------------------------------------------------
(* The idle timer.                                                         *)

(* To postpone is not to lose, nor to have twice.                          *)
LEMMA NotIdleKeepsTimer ==
  ASSUME IdleInv, RcvNotIdle \/ UNCHANGED idleTimerVars
  PROVE  IdleTimer!TypeOK' /\ IdleTimer!Outstanding' = IdleTimer!Outstanding
BY DEF IdleInv, IdleTimerArmed, RcvNotIdle, IdleTimer!Postpone, IdleTimer!NCanceled,
       IdleTimer!TypeOK, IdleTimer!Outstanding, idleTimerVars

(* A step of a call postpones the timer or leaves it, and never takes an   *)
(* error back.                                                             *)
LEMMA StepTimer ==
  ASSUME RequestInv, RcvSteps
  PROVE  /\ RcvNotIdle \/ UNCHANGED idleTimerVars
         /\ UNCHANGED <<idleOn, idleEvWait>>
         /\ rcvErr # RcvNoError => rcvErr' # RcvNoError
<1>1. CASE ReadMsg
  <2>1. UNCHANGED idleTimerVars /\ UNCHANGED <<idleOn, idleEvWait>>
    BY <1>1 DEF ReadMsg, NbReadFails
  <2>2. rcvErr = RcvNoError
    BY <1>1 DEF ReadMsg, RequestInv, PendingIffWaiting
  <2> QED
    BY <2>1, <2>2
<1>2. CASE OnHeadPayload
  <2>1. rcvErr = RcvNoError /\ UNCHANGED <<idleOn, idleEvWait>>
    BY <1>2 DEF OnHeadPayload, RequestInv, PendingIffWaiting
  <2>2. RcvNotIdle \/ UNCHANGED idleTimerVars
    BY <1>2 DEF OnHeadPayload, OnMetaLength
  <2> QED
    BY <2>1, <2>2
<1>3. CASE ReadBlob
  <2>1. rcvErr = RcvNoError /\ UNCHANGED <<idleOn, idleEvWait>>
    BY <1>3 DEF ReadBlob, RequestInv, PendingIffWaiting
  <2>2. RcvNotIdle \/ UNCHANGED idleTimerVars
    BY <1>3 DEF ReadBlob, NbReadFails
  <2> QED
    BY <2>1, <2>2
<1>4. CASE AwaitReadable
  BY <1>4 DEF AwaitReadable, idleVars, RequestInv, PendingIffWaiting
<1>5. CASE ReportResult
  BY <1>5 DEF ReportResult, idleVars
<1> QED
  BY <1>1, <1>2, <1>3, <1>4, <1>5 DEF RcvSteps

(* The timer is started once, and then postponed, expired, signalled and   *)
(* heard of, one at a time.                                                *)
LEMMA NextIdle == RequestInv /\ IdleInv /\ [RcvNext]_rcvAllVars => IdleInv'
<1> SUFFICES ASSUME RequestInv, IdleInv, [RcvNext]_rcvAllVars PROVE IdleInv'
  OBVIOUS
<1>1. CASE UNCHANGED idleVars /\ UNCHANGED rcvErr
  BY <1>1 DEF IdleInv, IdleTimerArmed, IdleTimer!TypeOK, IdleTimer!Outstanding, idleVars,
              idleTimerVars
<1>2. CASE IdleTimerRun
  <2>1. ~idleOn /\ idleOn' = TRUE /\ UNCHANGED rcvErr
    BY <1>2 DEF IdleTimerRun
  <2>2. CASE RcvOver
    <3>1. UNCHANGED <<idleWaits, idleFired, idleBytes, idleEvWait>>
      BY <1>2, <2>2 DEF IdleTimerRun, idleTimerVars
    <3>2. IdleTimer!TypeOK' /\ IdleTimer!Outstanding' = IdleTimer!Outstanding
      BY <3>1 DEF IdleInv, IdleTimer!TypeOK, IdleTimer!Outstanding
    <3> QED
      BY <2>1, <2>2, <3>1, <3>2 DEF IdleInv, IdleTimerArmed, RcvOver
  <2>3. CASE ~RcvOver
    <3>1. idleEvWait' = TRUE /\ IdleTimer!Schedule
      BY <1>2, <2>3 DEF IdleTimerRun
    <3>2. IdleTimer!TypeOK' /\ IdleTimer!Outstanding' = 1
      BY <2>1, <3>1 DEF IdleInv, IdleTimer!Schedule, IdleTimer!TypeOK, IdleTimer!Outstanding
    <3> QED
      BY <2>1, <3>1, <3>2 DEF IdleInv, IdleTimerArmed
  <2> QED
    BY <2>2, <2>3
<1>3. CASE OnEvIdleTimerFired
  <2>1. idleEvWait' = FALSE /\ UNCHANGED idleOn /\ rcvErr' # RcvNoError
    BY <1>3 DEF OnEvIdleTimerFired, RcvOver, RcvNoError
  <2>2. IdleTimer!TypeOK' /\ IdleTimer!Outstanding' = 0
    BY <1>3 DEF OnEvIdleTimerFired, IdleInv, IdleTimerArmed, IdleTimer!Consume,
                IdleTimer!TypeOK, IdleTimer!Outstanding
  <2>3. ~idleEvWait' /\ idleOn' \in BOOLEAN /\ idleEvWait' \in BOOLEAN
    BY <2>1 DEF IdleInv
  <2>4. IdleTimer!Outstanding' <= 1 /\ IdleTimer!Outstanding' # 1
    BY <2>2
  <2> QED
    BY <2>1, <2>2, <2>3, <2>4, Zenon DEF IdleInv, IdleTimerArmed
<1>4. CASE RcvSteps
  BY <1>4, StepTimer, NotIdleKeepsTimer DEF IdleInv, IdleTimerArmed
<1>5. CASE IdleTimerExpires
  BY <1>5 DEF IdleTimerExpires, rcvNoTimerVars, IdleInv, IdleTimerArmed, IdleTimer!Expire,
              IdleTimer!TypeOK, IdleTimer!Outstanding
<1>6. CASE IdleTimerSignals
  BY <1>6 DEF IdleTimerSignals, rcvNoTimerVars, IdleInv, IdleTimerArmed, IdleTimer!Signal,
              IdleTimer!TypeOK, IdleTimer!Outstanding
<1>7. CASE StartReceiveOps
  BY <1>1, <1>7 DEF StartReceiveOps
<1>8. ASSUME NEW takesHandle \in BOOLEAN, NEW size \in StorageSize, AsyncReceive(takesHandle, size)
      PROVE  IdleInv'
  BY <1>1, <1>8 DEF AsyncReceive
<1>9. CASE OnEvPeerSocketReadable
  BY <1>1, <1>9 DEF OnEvPeerSocketReadable
<1>10. CASE UNCHANGED rcvVars
  BY <1>1, <1>10 DEF rcvVars
<1>11. CASE RcvEnvironment
  BY <1>1, <1>10, <1>11 DEF RcvEnvironment, WireGetsByte, RcvSockHosedBySendOps
<1> QED
  BY <1>2, <1>3, <1>4, <1>5, <1>6, <1>7, <1>8, <1>9, <1>10, <1>11
     DEF RcvNext, RcvUser, RcvEvents, RcvTimerThread, rcvAllVars

-----------------------------------------------------------------------------
(* What is read where.                                                     *)

(* A failed read leaves what was read.                                     *)
LEMMA FailedReadFits ==
  ASSUME StorageInv, rcvPc \in {"readMsg", "readBlob"}, NbReadFails, UNCHANGED rcvSize
  PROVE  StorageInv'
BY DEF StorageInv, StorageTypes, StorageControl, AtRest, NbReadFails, rcvDataVars, rcvReadVars

(* Payload 1, or as much of it as there is.                                *)
LEMMA ReadMsgFits ==
  ASSUME StorageInv, ReadMsg PROVE StorageInv'
<1>1. rcvPc = "readMsg" /\ UNCHANGED rcvSize
  BY DEF ReadMsg, rcvReqVars
<1>2. rcvBlob = <<>> /\ rcvSize \in Nat
  BY <1>1 DEF StorageInv, StorageTypes, StorageControl
<1>3. CASE NbReadFails
  BY <1>1, <1>3, FailedReadFits
<1>4. ASSUME NEW n \in ReadSizes(SizeofMetaLength), ConsumeWire(n), rcvMeta' = WireBytes(n),
             OnHandleFinalized(HandleAmong(n), n), UNCHANGED rcvBlob
      PROVE  StorageInv'
  <2>1. /\ n \in Nat /\ n <= SizeofMetaLength
        /\ wire' \in Seq(Unit) /\ rcvMeta' \in Blob /\ Len(rcvMeta') = n
    BY <1>4, ReadTypes DEF SizeofMetaLength, ConsumeWire, StorageInv, StorageTypes
  <2>2. \/ rcvPc' = "done" /\ UNCHANGED rcvLeft
        \/ n = SizeofMetaLength /\ rcvPc' = "head" /\ UNCHANGED rcvLeft
        \/ rcvPc' = "wait" /\ rcvMsgState' = "HEAD_PAYLOAD" /\ rcvLeft' = SizeofMetaLength - n
    BY <1>4 DEF OnHandleFinalized, RcvFails, rcvReadVars
  <2>3. rcvLeft' \in Nat
    BY <2>1, <2>2 DEF StorageInv, StorageTypes, SizeofMetaLength
  <2>4. StorageTypes'
    BY <1>1, <1>4, <2>1, <2>3 DEF StorageInv, StorageTypes
  <2>5. StorageControl'
    BY <1>1, <1>2, <1>4, <2>1, <2>2 DEF StorageControl, AtRest, SizeofMetaLength
  <2> QED
    BY <2>4, <2>5 DEF StorageInv
<1>5. CASE /\ rcvMsgState' = "MSG_START" /\ rcvLeft' = 0 /\ rcvPc' = "wait"
           /\ UNCHANGED <<wire, rcvDataVars>>
  BY <1>1, <1>2, <1>5 DEF StorageInv, StorageTypes, StorageControl, AtRest, rcvDataVars
<1> QED
  BY <1>3, <1>4, <1>5 DEF ReadMsg

(* A length is looked at once it is whole, and only the meta-blob that     *)
(* fits is read.                                                           *)
LEMMA HeadFits ==
  ASSUME StorageInv, OnHeadPayload PROVE StorageInv'
<1> DEFINE len == MetaLength(rcvMeta)
<1>1. rcvPc = "head" /\ UNCHANGED <<wire, rcvSize, rcvMeta, rcvBlob>>
  BY DEF OnHeadPayload, rcvReqVars, rcvDataVars, wireVars
<1>2. rcvBlob = <<>> /\ Len(rcvMeta) = SizeofMetaLength /\ rcvSize \in Nat /\ rcvMeta \in Blob
  BY <1>1 DEF StorageInv, StorageTypes, StorageControl
<1>3. len \in Nat
  BY <1>2, MetaLengthType
<1>4. \/ rcvPc' \in {"done", "readMsg"} /\ UNCHANGED rcvLeft
      \/ /\ rcvPc' = "readBlob" /\ rcvMsgState' = "META_BLOB_PAYLOAD" /\ rcvLeft' = len
         /\ len <= rcvSize
  <2>1. CASE Negotiating
    BY <2>1 DEF OnHeadPayload, RcvFails, rcvReadVars
  <2>2. CASE ~Negotiating
    <3>1. OnMetaLength(len)
      BY <2>2 DEF OnHeadPayload
    <3> QED
      BY <3>1 DEF OnMetaLength, Fits, RcvFails, rcvReadVars
  <2> QED
    BY <2>1, <2>2
<1> HIDE DEF len
<1>5. StorageTypes'
  BY <1>1, <1>3, <1>4 DEF StorageInv, StorageTypes
<1>6. MetaLength(rcvMeta') = len
  BY <1>1 DEF len
<1>7. StorageControl'
  BY <1>1, <1>2, <1>3, <1>4, <1>6 DEF StorageControl, AtRest, SizeofMetaLength
<1> QED
  BY <1>5, <1>7 DEF StorageInv

(* The rest of payload 1, or of the meta-blob.                             *)
LEMMA ReadBlobFits ==
  ASSUME StorageInv, ReadBlob, rcvMsgState \in MsgState PROVE StorageInv'
<1>1. rcvPc = "readBlob" /\ UNCHANGED rcvSize /\ rcvMsgState # "MSG_START"
  BY DEF ReadBlob, rcvReqVars, StorageInv, StorageControl
<1>2. CASE NbReadFails
  BY <1>1, <1>2, FailedReadFits
<1>3. CASE rcvPc' = "wait" /\ UNCHANGED <<wire, rcvDataVars, rcvReadVars>>
  BY <1>1, <1>3 DEF StorageInv, StorageTypes, StorageControl, AtRest, rcvDataVars, rcvReadVars
<1>4. ASSUME NEW n \in ReadSizes(rcvLeft), ConsumeWire(n), UNCHANGED rcvMsgState,
             rcvLeft' = rcvLeft - n
      PROVE  /\ n \in Nat /\ n <= rcvLeft
             /\ wire' \in Seq(Unit) /\ WireBytes(n) \in Blob /\ Len(WireBytes(n)) = n
             /\ rcvLeft' \in Nat
  BY <1>4, ReadTypes DEF ConsumeWire, StorageInv, StorageTypes
<1>5. ASSUME NEW n \in ReadSizes(rcvLeft), ConsumeWire(n), rcvMsgState = "HEAD_PAYLOAD",
             rcvMeta' = rcvMeta \o WireBytes(n), UNCHANGED <<rcvBlob, rcvMsgState>>,
             rcvLeft' = rcvLeft - n, rcvPc' = IF n < rcvLeft THEN "wait" ELSE "head"
      PROVE  StorageInv'
  <2>1. rcvMeta' \in Blob /\ Len(rcvMeta') = Len(rcvMeta) + n
    BY <1>4, <1>5, MoreBytes DEF StorageInv, StorageTypes
  <2>2. Len(rcvMeta) + rcvLeft = SizeofMetaLength /\ rcvBlob = <<>>
        /\ rcvLeft \in Nat /\ rcvSize \in Nat /\ Len(rcvMeta) \in Nat
    BY <1>1, <1>5 DEF StorageInv, StorageTypes, StorageControl, AtRest, Blob
  <2>3. StorageTypes'
    BY <1>1, <1>4, <1>5, <2>1 DEF StorageInv, StorageTypes
  <2>4. StorageControl'
    BY <1>1, <1>4, <1>5, <2>1, <2>2 DEF StorageControl, AtRest, SizeofMetaLength
  <2> QED
    BY <2>3, <2>4 DEF StorageInv
<1>6. ASSUME NEW n \in ReadSizes(rcvLeft), ConsumeWire(n), rcvMsgState = "META_BLOB_PAYLOAD",
             rcvBlob' = rcvBlob \o WireBytes(n), UNCHANGED <<rcvMeta, rcvMsgState>>,
             rcvLeft' = rcvLeft - n, rcvPc' = IF n < rcvLeft THEN "wait" ELSE "done"
      PROVE  StorageInv'
  <2>1. rcvBlob' \in Blob /\ Len(rcvBlob') = Len(rcvBlob) + n
    BY <1>4, <1>6, MoreBytes DEF StorageInv, StorageTypes
  <2>2. Len(rcvBlob) + rcvLeft = MetaLength(rcvMeta) /\ MetaLength(rcvMeta) <= rcvSize
        /\ Len(rcvMeta) <= SizeofMetaLength
        /\ rcvLeft \in Nat /\ rcvSize \in Nat /\ Len(rcvBlob) \in Nat
    BY <1>1, <1>6 DEF StorageInv, StorageTypes, StorageControl, AtRest, Blob
  <2>3. MetaLength(rcvMeta') = MetaLength(rcvMeta)
    BY <1>6
  <2>4. StorageTypes'
    BY <1>1, <1>4, <1>6, <2>1 DEF StorageInv, StorageTypes
  <2>5. StorageControl'
    BY <1>1, <1>4, <1>6, <2>1, <2>2, <2>3 DEF StorageControl, AtRest
  <2> QED
    BY <2>4, <2>5 DEF StorageInv
<1>7. CASE \E n \in ReadSizes(rcvLeft) :
             /\ ConsumeWire(n)
             /\ IF rcvMsgState = "HEAD_PAYLOAD"
                  THEN rcvMeta' = rcvMeta \o WireBytes(n) /\ UNCHANGED rcvBlob
                  ELSE rcvBlob' = rcvBlob \o WireBytes(n) /\ UNCHANGED rcvMeta
             /\ rcvLeft' = rcvLeft - n
             /\ rcvPc' = IF n < rcvLeft THEN "wait"
                         ELSE IF rcvMsgState = "HEAD_PAYLOAD" THEN "head" ELSE "done"
             /\ UNCHANGED rcvMsgState
  <2>1. CASE rcvMsgState = "HEAD_PAYLOAD"
    BY <1>5, <1>7, <2>1
  <2>2. CASE rcvMsgState = "META_BLOB_PAYLOAD"
    BY <1>6, <1>7, <2>2
  <2> QED
    BY <1>1, <2>1, <2>2 DEF MsgState
<1> QED
  BY <1>2, <1>3, <1>7 DEF ReadBlob

(* The request, once over, leaves nothing behind.                          *)
LEMMA ResetFits ==
  ASSUME StorageInv, RequestInv, ResetRequest, UNCHANGED wire, rcvPc' = "idle",
         rcvEvWait' = NotWaiting \/ RcvOver'
  PROVE  StorageInv'
<1>1. StorageTypes'
  BY DEF StorageInv, StorageTypes, ResetRequest, Blob
<1>2. StorageControl'
  BY DEF StorageControl, AtRest, ResetRequest, SizeofMetaLength
<1> QED
  BY <1>1, <1>2 DEF StorageInv

(* What is neither read nor asked for stays.                               *)
LEMMA StorageStays ==
  ASSUME StorageInv, wire' \in Seq(Unit),
         UNCHANGED <<rcvReqVars, rcvDataVars, rcvReadVars, rcvEvWait, rcvPc, rcvErr>>
  PROVE  StorageInv'
BY DEF StorageInv, StorageTypes, StorageControl, AtRest, RcvOver, rcvReqVars, rcvDataVars,
       rcvReadVars

(* Every step keeps what was read within the storage.                      *)
LEMMA NextStorage ==
  RequestInv /\ StorageInv /\ [RcvNext]_rcvAllVars => StorageInv'
<1> SUFFICES ASSUME RequestInv, StorageInv, [RcvNext]_rcvAllVars PROVE StorageInv'
  OBVIOUS
<1>0. wire \in Seq(Unit)
  BY DEF StorageInv, StorageTypes
<1>1. CASE StartReceiveOps
  BY <1>0, <1>1, StorageStays DEF StartReceiveOps, wireVars
<1>2. ASSUME NEW takesHandle \in BOOLEAN, NEW size \in StorageSize, AsyncReceive(takesHandle, size)
      PROVE  StorageInv'
  <2>1. ~rcvPending /\ rcvPc = "idle"
        /\ UNCHANGED <<wire, rcvDataVars, rcvErr, rcvEvWait, rcvReadVars>>
    BY <1>2 DEF AsyncReceive, RcvIdle, wireVars
  <2>2. CASE RcvOver
    BY <1>0, <1>2, <2>1, <2>2, StorageStays DEF AsyncReceive
  <2>3. CASE ~RcvOver
    <3>1. rcvPc' = "readMsg" /\ rcvSize' \in Nat
      BY <1>2, <2>3, RcvBoundsAssumption DEF AsyncReceive
    <3>2. rcvBlob = <<>>
      BY <2>1 DEF StorageInv, StorageControl
    <3> QED
      BY <2>1, <3>1, <3>2
         DEF StorageInv, StorageTypes, StorageControl, AtRest, rcvDataVars, rcvReadVars
  <2> QED
    BY <2>2, <2>3
<1>3. CASE IdleTimerRun
  BY <1>0, <1>3, StorageStays DEF IdleTimerRun, wireVars
<1>4. CASE OnEvIdleTimerFired
  <2>1. rcvPc = "idle" /\ UNCHANGED <<wire, rcvPc, rcvHandle, rcvEvWait>>
    BY <1>4 DEF OnEvIdleTimerFired, RcvIdle, wireVars
  <2>2. CASE RcvOver
    BY <1>0, <1>4, <2>1, <2>2, StorageStays DEF OnEvIdleTimerFired, rcvDataVars
  <2>3. CASE ~RcvOver
    <3>1. ResetRequest /\ RcvOver'
      BY <1>4, <2>3 DEF OnEvIdleTimerFired, CompletePending, RcvOver, RcvNoError
    <3> QED
      BY <2>1, <3>1, ResetFits
  <2> QED
    BY <2>2, <2>3
<1>5. CASE OnEvPeerSocketReadable
  <2>1. rcvPc = "idle" /\ rcvEvWait # NotWaiting /\ rcvEvWait' = NotWaiting
        /\ rcvPc' = (CASE RcvOver -> "idle"
                       [] ~RcvOver /\ rcvEvWait = "MSG_START" -> "readMsg"
                       [] OTHER -> "readBlob")
        /\ UNCHANGED <<wire, rcvReqVars, rcvDataVars, rcvReadVars, rcvErr>>
    BY <1>5 DEF OnEvPeerSocketReadable, RcvIdle, wireVars
  <2>2. ~RcvOver => rcvEvWait = rcvMsgState
    BY <2>1 DEF StorageInv, StorageControl
  <2> QED
    BY <2>1, <2>2 DEF StorageInv, StorageTypes, StorageControl, AtRest, RcvOver, rcvReqVars,
                      rcvDataVars, rcvReadVars
<1>6. CASE ReadMsg
  BY <1>6, ReadMsgFits
<1>7. CASE OnHeadPayload
  BY <1>7, HeadFits
<1>8. CASE ReadBlob
  BY <1>8, ReadBlobFits DEF RequestInv, RequestTypes
<1>9. CASE AwaitReadable
  <2>1. rcvPc = "wait" /\ rcvPc' \in {"idle", "done"}
        /\ (rcvPc' = "idle" => rcvEvWait' = rcvMsgState)
        /\ UNCHANGED <<wire, rcvReqVars, rcvDataVars, rcvReadVars>>
    BY <1>9 DEF AwaitReadable, RegisterWait, RcvFails, wireVars
  <2>2. rcvPending
    BY <2>1 DEF RequestInv, PendingIffWaiting
  <2> QED
    BY <2>1, <2>2 DEF StorageInv, StorageTypes, StorageControl, AtRest, rcvReqVars,
                      rcvDataVars, rcvReadVars
<1>10. CASE ReportResult
  <2>1. ResetRequest /\ rcvPc' = "idle" /\ rcvEvWait' = NotWaiting /\ UNCHANGED wire
    BY <1>10 DEF ReportResult, RequestInv, PendingIffWaiting, wireVars
  <2> QED
    BY <2>1, ResetFits
<1>11. CASE UNCHANGED rcvVars /\ wire' \in Seq(Unit)
  BY <1>11, StorageStays DEF rcvVars
<1>12. CASE RcvTimerThread
  BY <1>0, <1>12, StorageStays
     DEF RcvTimerThread, IdleTimerExpires, IdleTimerSignals, rcvNoTimerVars, wireVars
<1>13. CASE RcvEnvironment
  <2>1. CASE WireGetsByte
    BY <1>0, <1>11, <2>1 DEF WireGetsByte
  <2>2. CASE RcvSockHosedBySendOps
    BY <1>0, <2>2, StorageStays DEF RcvSockHosedBySendOps, wireVars
  <2>3. CASE SndEndpointCloses /\ UNCHANGED rcvVars
    BY <1>0, <1>11, <2>3 DEF SndEndpointCloses
  <2> QED
    BY <1>13, <2>1, <2>2, <2>3 DEF RcvEnvironment
<1>14. CASE UNCHANGED rcvAllVars
  BY <1>0, <1>11, <1>14 DEF rcvAllVars, wireVars
<1> QED
  BY <1>1, <1>2, <1>3, <1>4, <1>5, <1>6, <1>7, <1>8, <1>9, <1>10, <1>12, <1>13, <1>14
     DEF RcvNext, RcvUser, RcvSteps, RcvEvents

-----------------------------------------------------------------------------
(* The state of the receive direction: its request, timer and storage.     *)
THEOREM ReceiveInvariant == RcvSpec => []RcvInv
<1>1. RcvInv /\ [RcvNext]_rcvAllVars => RcvInv'
  BY NextRequest, NextIdle, NextStorage DEF RcvInv
<1> QED
  BY <1>1, InitRcv, PTL DEF RcvSpec

(* Of the call, the handler and the idle timer exactly one gives an        *)
(* accepted async_receive_*() its result.                                  *)
THEOREM OneResult == RcvSpec => []OneResultPerReceive
<1>1. RcvInv => OneResultPerReceive
  BY DEF RcvInv, RequestInv
<1> QED
  BY <1>1, ReceiveInvariant, PTL

(* The assertions of the receive path about request, wait and error.       *)
THEOREM PendingWaits == RcvSpec => []PendingIffWaiting
<1>1. RcvInv => PendingIffWaiting
  BY DEF RcvInv, RequestInv
<1> QED
  BY <1>1, ReceiveInvariant, PTL

(* The idle timer runs, once, until there is an error.                     *)
THEOREM IdleTimerRuns == RcvSpec => []IdleTimerArmed
<1>1. RcvInv => IdleTimerArmed
  BY DEF RcvInv, IdleInv
<1> QED
  BY <1>1, ReceiveInvariant, PTL

(* However the bytes are cut up, no read goes beyond the length field or   *)
(* the user's storage (rcv_read_msg(), rcv_read_blob()).                   *)
THEOREM StorageHolds == RcvSpec => []ReadsFitStorage
<1>1. RcvInv => ReadsFitStorage
  BY DEF RcvInv, StorageInv, StorageControl, AtRest, ReadsFitStorage
<1> QED
  BY <1>1, ReceiveInvariant, PTL
=============================================================================
